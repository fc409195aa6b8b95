--------------------------- MODULE ReplaceRegister ---------------------------
(***************************************************************************)
(* What `--out' promises (app/Main.hs, emitAccepted): the destination is a *)
(* register.  A command either installs its whole verdict in one step or   *)
(* leaves the register alone, and a reader gets what the register held at  *)
(* one moment.                                                             *)
(***************************************************************************)
CONSTANTS
  Writer,     \* the commands
  Reader,     \* the readers of the destination
  Accepting,  \* the commands whose verdict accepts
  Old,        \* what the destination held before
  Nothing     \* what a reader has that read nothing

VARIABLES
  reg,      \* the writer whose verdict the destination holds, or Old
  outcome,  \* what became of each command
  got       \* what each reader got

vars == <<reg, outcome, got>>

Init ==
  /\ reg = Old
  /\ outcome = [w \in Writer |-> "pending"]
  /\ got = [r \in Reader |-> Nothing]

Install(w) ==
  /\ w \in Accepting
  /\ outcome[w] = "pending"
  /\ outcome' = [outcome EXCEPT ![w] = "installed"]
  /\ reg' = w
  /\ UNCHANGED got

Refuse(w) ==
  /\ outcome[w] = "pending"
  /\ outcome' = [outcome EXCEPT ![w] = "refused"]
  /\ UNCHANGED <<reg, got>>

Read(r) ==
  /\ got[r] = Nothing
  /\ got' = [got EXCEPT ![r] = reg]
  /\ UNCHANGED <<reg, outcome>>

Next ==
  \/ \E w \in Writer : Install(w) \/ Refuse(w)
  \/ \E r \in Reader : Read(r)

Spec == Init /\ [][Next]_vars
=============================================================================
