--------------------------- MODULE CollectionMirror ---------------------------
(***************************************************************************)
(* What a TAXII synchronization promises: the threat indicators of the     *)
(* organization mirror the collections it reads, versions are only         *)
(* replaced by newer ones, and a checkpoint says how far the mirror is     *)
(* known to be complete and never moves back.                              *)
(***************************************************************************)
EXTENDS Integers

CONSTANTS
  Sources,    \* TAXII sources, one collection each
  Indicators, \* STIX ids
  Versions    \* versions of an indicator, by modification time: 1, 2, ...

\* Not in the collection, and no checkpoint yet.
NotAdded == -1
NoCheckpoint == -1

VARIABLES
  collection,  \* when the server added each version, by source
  mirror,      \* the version of each indicator Cascadia holds, 0 if none
  checkpoint   \* of each source

mirrorVars == <<collection, mirror, checkpoint>>

Added(s, i, v) == collection[s][i][v] # NotAdded

MirrorInit ==
  /\ collection = [s \in Sources |-> [i \in Indicators |-> [v \in Versions |-> NotAdded]]]
  /\ mirror = [i \in Indicators |-> 0]
  /\ checkpoint = [s \in Sources |-> NoCheckpoint]

\* The server adds a version, later than every checkpoint of its readers.
Publish(s, i, v, t) ==
  /\ ~Added(s, i, v)
  /\ checkpoint[s] < t
  /\ collection' = [collection EXCEPT ![s][i][v] = t]
  /\ UNCHANGED <<mirror, checkpoint>>

\* Versions of one collection replace older ones.
Copy(s) ==
  /\ mirror' \in [Indicators -> Versions \cup {0}]
  /\ \A i \in Indicators :
       mirror'[i] # mirror[i] => mirror'[i] > mirror[i] /\ Added(s, i, mirror'[i])
  /\ UNCHANGED <<collection, checkpoint>>

\* Nothing the server added up to t is missing.
CompleteTo(s, t) ==
  \A i \in Indicators, v \in Versions :
    Added(s, i, v) /\ collection[s][i][v] <= t => v <= mirror[i]

Advance(s, t) ==
  /\ checkpoint[s] < t
  /\ CompleteTo(s, t)
  /\ checkpoint' = [checkpoint EXCEPT ![s] = t]
  /\ UNCHANGED <<collection, mirror>>

\* TLC binds t from the primed values, so the times need no bound.
MirrorNext ==
  \E s \in Sources :
    \/ \E i \in Indicators, v \in Versions : Publish(s, i, v, collection'[s][i][v])
    \/ Copy(s)
    \/ Advance(s, checkpoint'[s])

MirrorSpec == MirrorInit /\ [][MirrorNext]_mirrorVars
=============================================================================
