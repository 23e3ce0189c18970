---- MODULE DecidedBlocks ----
\* What storage promises of the ledger's blocks (api.writeGenesis and api.write
\* of lib/blocks.js), whatever steps it takes to write one: behind the genesis
\* block there is one block per height, none is skipped, replaced or written
\* twice, and each lists exactly the events that were decided for its height.
EXTENDS Sequences, Naturals

CONSTANT Decided   \* the events decided for each height, the first one being 1

VARIABLE written   \* the events that each block lists, by height

WriteGenesis == written = <<>>

NextBlockHeight == 1 + Len(written)

Write ==
  \E height \in DOMAIN Decided :
    height = NextBlockHeight /\ written' = Append(written, Decided[height])

Spec == WriteGenesis /\ [][Write]_written
====
