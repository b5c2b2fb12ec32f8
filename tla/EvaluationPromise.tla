-------------------------- MODULE EvaluationPromise --------------------------
(***************************************************************************)
(* What main() and the batch rely on when they call evaluate(): the call   *)
(* may do anything to the repository while it is open; when it returns a   *)
(* verdict the target's files are as they were at the call, and PASS is    *)
(* only said of a repository that was at HEAD before and is again; and     *)
(* nothing touches the repository after a PASS.                            *)
(***************************************************************************)
CONSTANTS RepoFiles, Sources, Content

VARIABLES
  tree,     \* content of every tracked file
  entry,    \* the tree at the call
  phase,    \* "open" until the call is over
  verdict   \* "none" unless a manifest was returned

vars == <<tree, entry, phase, verdict>>

AtHead(t) == \A f \in RepoFiles : t[f] = "head"

Init ==
  /\ entry \in [RepoFiles -> Content]
  /\ tree = entry
  /\ phase = "open"
  /\ verdict = "none"

Work ==
  /\ phase = "open"
  /\ tree' \in [RepoFiles -> Content]
  /\ UNCHANGED <<entry, phase, verdict>>

Return ==
  /\ phase = "open"
  /\ \A f \in Sources : tree[f] = entry[f]
  /\ phase' = "closed"
  /\ verdict' \in {"PASS", "FAIL"}
  /\ verdict' = "PASS" => AtHead(tree) /\ AtHead(entry)
  /\ UNCHANGED <<tree, entry>>

\* An exception, an interrupt or the death of the process: no verdict.
GiveUp ==
  /\ phase = "open"
  /\ phase' = "closed"
  /\ tree' \in [RepoFiles -> Content]
  /\ UNCHANGED <<entry, verdict>>

\* A stage container writes files that are not the target's.
ContainerWrites ==
  /\ tree' \in [RepoFiles -> Content]
  /\ \A f \in Sources : tree'[f] = tree[f]

\* It outlived the call: Ctrl-C, a kill, or a docker rm that failed.
LateWrite ==
  /\ phase = "closed"
  /\ verdict # "PASS"
  /\ ContainerWrites
  /\ UNCHANGED <<entry, phase, verdict>>

Next == Work \/ Return \/ GiveUp \/ LateWrite

Spec == Init /\ [][Next]_vars
==============================================================================
