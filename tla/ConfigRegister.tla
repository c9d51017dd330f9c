---------------------------- MODULE ConfigRegister ----------------------------
(***************************************************************************)
(* What init-config promises about .transon-authoring.json, with no        *)
(* temporary file, descriptor or prompt in sight: it is a register.  A     *)
(* reader finds no config, or one that a run has written in full; a config *)
(* comes all at once, and only a --force run puts one over another; and    *)
(* who is told of success has a config in place, its own or that of a      *)
(* --force run.                                                            *)
(***************************************************************************)
CONSTANTS
  Runs,    \* invocations of init-config
  Prior,   \* a config written long before
  NoFile   \* there is no config, or none that can be read

VARIABLES
  forced,   \* runs with --force
  config,   \* the config a reader finds
  told      \* runs that have answered with success

vars == <<forced, config, told>>

Init == forced \in SUBSET Runs /\ config \in {NoFile, Prior} /\ told = {}

Put(r) ==
  /\ r \notin told
  /\ config = NoFile \/ r \in forced
  /\ config' = r
  /\ UNCHANGED <<forced, told>>

Tell(r) ==
  /\ r \notin told
  /\ config \in {r} \cup forced
  /\ told' = told \cup {r}
  /\ UNCHANGED <<forced, config>>

Next == \E r \in Runs : Put(r) \/ Tell(r)

Spec == Init /\ [][Next]_vars
=============================================================================
