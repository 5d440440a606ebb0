------------------------------- MODULE KeyChain --------------------------------
(***************************************************************************)
(* What the event-key lifecycle promises: one chain of state records that   *)
(* starts at most once, in the way that fits the events it finds, and grows *)
(* by one version at a time; and events that are written once, under the    *)
(* version that is active at that moment, and never change.                 *)
(***************************************************************************)
EXTENDS Integers, Sequences

CONSTANTS Ids,          \* event ids
          MaxVersion    \* MAX_EVENT_KEY_VERSION

VARIABLES
  chain,     \* the state records; a record's place is its revision, which is
             \* also the version of the key it activates
  events     \* key version each event is encrypted under, 0 if there is none

NoEvents == \A id \in Ids : events[id] = 0

(* A directory of the first phases may hold events under version 1.         *)
ChainInit ==
  /\ chain = <<>>
  /\ events \in [Ids -> {0, 1}]

(* The first record, of a store of any name.                                *)
Genesis ==
  /\ chain = <<>>
  /\ chain' # <<>>
  /\ chain' = <<[storeId |-> chain'[1].storeId,
                 operation |-> IF NoEvents THEN "initialize"
                                           ELSE "adopt_legacy_v1"]>>
  /\ UNCHANGED events

Rotate ==
  /\ Len(chain) \in 1..(MaxVersion - 1)
  /\ chain' = Append(chain, [storeId |-> chain[1].storeId,
                             operation |-> "rotate"])
  /\ UNCHANGED events

WriteEvent(id) ==
  /\ chain # <<>>
  /\ events[id] = 0
  /\ events' = [events EXCEPT ![id] = Len(chain)]
  /\ UNCHANGED chain

ChainNext == Genesis \/ Rotate \/ \E id \in Ids : WriteEvent(id)

ChainSpec == ChainInit /\ [][ChainNext]_<<chain, events>>
=============================================================================
