--------------------------- MODULE OutcomeLedger ---------------------------
(***************************************************************************)
(* What the completion of one Issue promises to the rest of Orchestune,    *)
(* without the journal, the lock, the Forge or the label steps that keep   *)
(* the promise: completions are reserved one after another, a completion   *)
(* is published at most once and only while it is the current one, and the *)
(* next one is reserved only after the current one was published and       *)
(* handed off to garbage collection.                                       *)
(*                                                                         *)
(* CompletionPublication is shown to implement this specification.         *)
(***************************************************************************)
CONSTANTS Completions,  \* completion ids
          NoId          \* "no completion id"

VARIABLES current,      \* the completion that holds the Issue's reservation
          used,         \* every completion ever reserved
          published,    \* completions whose Outcome Record is on the Issue
          handedOff     \* completions with a durable handoff

vars == <<current, used, published, handedOff>>

Init ==
  /\ current = NoId
  /\ used = {}
  /\ published = {}
  /\ handedOff = {}

Reserve(c) ==
  /\ c \notin used
  /\ current = NoId \/ current \in handedOff
  /\ current' = c
  /\ used' = used \cup {c}
  /\ UNCHANGED <<published, handedOff>>

Publish ==
  /\ current \in used \ published
  /\ published' = published \cup {current}
  /\ UNCHANGED <<current, used, handedOff>>

HandOff ==
  /\ current \in published \ handedOff
  /\ handedOff' = handedOff \cup {current}
  /\ UNCHANGED <<current, used, published>>

Next ==
  \/ \E c \in Completions : Reserve(c)
  \/ Publish
  \/ HandOff

Spec == Init /\ [][Next]_vars
============================================================================
