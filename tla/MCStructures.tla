---------------------------- MODULE MCStructures ----------------------------
(***************************************************************************)
(* The data structures under the event manager on small instances: the     *)
(* timers, the handle table, the SPSC channel, the I/O buffer and the      *)
(* memory of frames and connections.  They share no state, so a behaviour  *)
(* moves one of them, its part, while the others rest in their initial     *)
(* states: the states to explore add up and do not multiply.               *)
(***************************************************************************)
EXTENDS Timers, HandleTable, SpscChannel, IoBuffer, Memory, TLC

VARIABLE part

MCShapes == {<<4, 1>>, <<3, 2>>}

StructuresInit ==
  /\ part \in {"timers", "table", "channel", "buffer", "memory"}
  /\ TimersInit /\ TableInit /\ SpscChanInit /\ MemoryInit
  /\ IoInit
  /\ part # "buffer" => io.owner = "user" /\ io.room = 1

StructuresNext ==
  /\ UNCHANGED part
  /\ \/ part = "timers" /\ TimersNext /\ UNCHANGED <<tableVars, spscChanVars, io, m>>
     \/ part = "table" /\ TableNext /\ UNCHANGED <<timersVars, spscChanVars, io, m>>
     \/ part = "channel" /\ SpscChanNext /\ UNCHANGED <<timersVars, tableVars, io, m>>
     \/ part = "buffer" /\ IoNext /\ UNCHANGED <<timersVars, tableVars, spscChanVars, m>>
     \/ part = "memory" /\ MemoryNext /\ UNCHANGED <<timersVars, tableVars, spscChanVars, io>>

StructuresSpec ==
  StructuresInit /\ [][StructuresNext]_<<part, timersVars, tableVars, spscChanVars, io, m>>

Symm == Permutations(Nodes) \cup Permutations(Groups) \cup Permutations(Vals)
=============================================================================
