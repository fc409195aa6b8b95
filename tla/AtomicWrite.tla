----------------------------- MODULE AtomicWrite -----------------------------
(***************************************************************************)
(* Concurrent `lara check f --out d' commands on one destination, with     *)
(* readers of it (Lara.AtomicWrite, app/Main.hs).  An accepting command    *)
(* fills a temporary file next to the destination and renames it over the  *)
(* destination; every system call may fail, an interrupt may arrive at any *)
(* of them, and a kill may stop the command between two of them.           *)
(*                                                                         *)
(* A file is named by the writer that created it (Old by none of them).    *)
(* The temporary names are distinct: openTempFile creates exclusively.     *)
(***************************************************************************)
EXTENDS Naturals

CONSTANTS
  Writer,     \* the commands
  Reader,     \* the readers of the destination
  Accepting,  \* the commands whose verdict accepts
  Old,        \* the file the destination names before
  Unopened,   \* the handle of a reader that has opened nothing
  Size        \* the chunks of a verdict

ASSUME WriterAssumption ==
  /\ Accepting \subseteq Writer
  /\ Old \notin Writer
  /\ Unopened \notin Writer \cup {Old}
  /\ Size \in Nat \ {0}

VARIABLES
  pc,       \* what each command does next
  fault,    \* what unwound it, and whether it is an IOException
  linked,   \* its temporary name exists
  stored,   \* chunks of each file that have reached the file
  buffered, \* chunks in the handle's buffer
  mode,     \* the permission bits of each file
  dest,     \* the file the destination names
  named,    \* history: every file the destination has named
  exit,     \* its exit code
  handle,   \* the file a reader has open
  taken,    \* the chunks it has read
  whole     \* it has reached the end of the file

commands == <<pc, fault, linked, exit>>
content == <<stored, buffered, mode>>
reader  == <<handle, taken, whole>>
place   == <<dest, named>>
vars    == <<commands, content, place, reader>>

File == Writer \cup {Old}

Init ==
  /\ pc = [w \in Writer |-> "decide"]
  /\ fault = [w \in Writer |-> "none"]
  /\ linked = [w \in Writer |-> FALSE]
  /\ exit = [w \in Writer |-> "running"]
  /\ stored = [f \in File |-> IF f = Old THEN Size ELSE 0]
  /\ buffered = [w \in Writer |-> 0]
  /\ mode = [f \in File |-> IF f = Old THEN "old" ELSE "0600"]
  /\ dest = Old
  /\ named = {Old}
  /\ handle = [r \in Reader |-> Unopened]
  /\ taken = [r \in Reader |-> 0]
  /\ whole = [r \in Reader |-> FALSE]

-----------------------------------------------------------------------------
(* The command. *)

Goto(w, to) == pc' = [pc EXCEPT ![w] = to]

\* emitVerdict: only an accepted verdict is routed to the file.
DecideRoutesAll(w) ==
  /\ pc[w] = "decide"
  /\ Goto(w, "open")
  /\ UNCHANGED <<fault, linked, exit, content, place, reader>>
Decide(w) ==
  /\ pc[w] = "decide"
  /\ \/ /\ w \in Accepting
        /\ Goto(w, "open")
        /\ UNCHANGED exit
     \/ /\ w \notin Accepting
        /\ exit' = [exit EXCEPT ![w] = "1"]
        /\ Goto(w, "ended")
  /\ UNCHANGED <<fault, linked, content, place, reader>>

OpenTemp(w) ==
  /\ pc[w] = "open"
  /\ linked' = [linked EXCEPT ![w] = TRUE]
  /\ Goto(w, "write")
  /\ UNCHANGED <<fault, exit, content, place, reader>>

\* hPutStr fills the handle's buffer, which reaches the file when it likes.
WriteChunk(w) ==
  /\ pc[w] = "write"
  /\ stored[w] + buffered[w] < Size
  /\ buffered' = [buffered EXCEPT ![w] = @ + 1]
  /\ UNCHANGED <<commands, stored, mode, place, reader>>

Flush(w) ==
  /\ pc[w] \in {"write", "close"}
  /\ buffered[w] > 0
  /\ stored' = [stored EXCEPT ![w] = @ + 1]
  /\ buffered' = [buffered EXCEPT ![w] = @ - 1]
  /\ UNCHANGED <<commands, mode, place, reader>>

Written(w) ==
  /\ pc[w] = "write"
  /\ stored[w] + buffered[w] = Size
  /\ Goto(w, "close")
  /\ UNCHANGED <<fault, linked, exit, content, place, reader>>

\* hClose hands the rest of the buffer to the file.
CloseKeepingBuffer(w) ==
  /\ pc[w] = "close"
  /\ UNCHANGED <<stored, buffered>>
CloseHandle(w) ==
  /\ pc[w] = "close"
  /\ stored' = [stored EXCEPT ![w] = @ + buffered[w]]
  /\ buffered' = [buffered EXCEPT ![w] = 0]

Close(w) ==
  /\ CloseHandle(w)
  /\ Goto(w, "chmod")
  /\ UNCHANGED <<fault, linked, exit, mode, place, reader>>

SetMode(w) ==
  /\ pc[w] = "chmod"
  /\ mode' = [mode EXCEPT ![w] = "0644"]
  /\ Goto(w, "rename")
  /\ UNCHANGED <<fault, linked, exit, stored, buffered, place, reader>>

\* A rename whose failure was not reported.
RenameUnchecked(w) ==
  /\ pc[w] = "rename"
  /\ dest' \in {w, dest}
  /\ named' = named \cup {dest'}
  /\ linked' = [linked EXCEPT ![w] = FALSE]
  /\ Goto(w, "succeed")
  /\ UNCHANGED <<fault, exit, content, reader>>

\* rename(2): the destination names the temporary, whose own name is gone.
RenameStep(w) ==
  /\ pc[w] = "rename"
  /\ dest' = w
  /\ named' = named \cup {w}
  /\ linked' = [linked EXCEPT ![w] = FALSE]
  /\ Goto(w, "succeed")
  /\ UNCHANGED <<fault, exit, content, reader>>

Rename(w) == RenameStep(w)

Succeed(w) ==
  /\ pc[w] = "succeed"
  /\ exit' = [exit EXCEPT ![w] = "0"]
  /\ Goto(w, "ended")
  /\ UNCHANGED <<fault, linked, content, place, reader>>

InWrite == {"write", "close", "chmod", "rename"}

\* A call of the write raises: what it was to do has not happened.
Fail(w) ==
  /\ pc[w] \in InWrite \cup {"open"}
  /\ fault' = [fault EXCEPT ![w] = "io"]
  /\ Goto(w, IF pc[w] = "open" THEN "refuse" ELSE "cleanup")
  /\ UNCHANGED <<linked, exit, content, place, reader>>

\* An asynchronous exception arrives; after the rename it only ends the command.
Interrupt(w) ==
  /\ pc[w] \in InWrite \cup {"open", "succeed"}
  /\ fault' = [fault EXCEPT ![w] = "interrupt"]
  /\ Goto(w, IF pc[w] = "open" THEN "refuse" ELSE "cleanup")
  /\ UNCHANGED <<linked, exit, content, place, reader>>

\* The cleanup of bracketOnError: each half ignores its own IOException.
Cleanup(w) ==
  /\ pc[w] = "cleanup"
  /\ \/ linked' = [linked EXCEPT ![w] = FALSE]
     \/ UNCHANGED linked
  /\ \/ /\ stored' = [stored EXCEPT ![w] = @ + buffered[w]]
        /\ buffered' = [buffered EXCEPT ![w] = 0]
     \/ UNCHANGED <<stored, buffered>>
  /\ Goto(w, "refuse")
  /\ UNCHANGED <<fault, exit, mode, place, reader>>

\* emitAccepted turns an IOException into exit 2; an interrupt goes on up.
Refuse(w) ==
  /\ pc[w] = "refuse"
  /\ exit' = [exit EXCEPT ![w] = IF fault[w] = "io" THEN "2" ELSE "interrupted"]
  /\ Goto(w, "ended")
  /\ UNCHANGED <<fault, linked, content, place, reader>>

Kill(w) ==
  /\ pc[w] # "ended"
  /\ exit' = [exit EXCEPT ![w] = "killed"]
  /\ Goto(w, "ended")
  /\ UNCHANGED <<fault, linked, content, place, reader>>

-----------------------------------------------------------------------------
(* A reader opens the destination and reads its file to the end. *)

OpenRead(r) ==
  /\ handle[r] = Unopened
  /\ handle' = [handle EXCEPT ![r] = dest]
  /\ UNCHANGED <<commands, content, place, taken, whole>>

ReadChunk(r) ==
  /\ handle[r] \in File
  /\ taken[r] < stored[handle[r]]
  /\ taken' = [taken EXCEPT ![r] = @ + 1]
  /\ UNCHANGED <<commands, content, place, handle, whole>>

ReadEnd(r) ==
  /\ handle[r] \in File
  /\ taken[r] = stored[handle[r]]
  /\ whole' = [whole EXCEPT ![r] = TRUE]
  /\ UNCHANGED <<commands, content, place, handle, taken>>

Advance(w) ==
  \/ Decide(w) \/ OpenTemp(w) \/ WriteChunk(w) \/ Flush(w) \/ Written(w)
  \/ Close(w) \/ SetMode(w) \/ Rename(w) \/ Succeed(w) \/ Cleanup(w) \/ Refuse(w)

Disturb(w) == Fail(w) \/ Interrupt(w) \/ Kill(w)

Look(r) == OpenRead(r) \/ ReadChunk(r) \/ ReadEnd(r)

Next ==
  \/ \E w \in Writer : Advance(w) \/ Disturb(w)
  \/ \E r \in Reader : Look(r)

\* A system call returns: the command, left alone, takes its next step.
Spec == Init /\ [][Next]_vars

-----------------------------------------------------------------------------
(* Properties. *)

\* The state keeps its types; a file never holds more than a verdict.
TypeOK ==
  /\ pc \in [Writer -> InWrite \cup {"decide", "open", "succeed", "cleanup", "refuse", "ended"}]
  /\ fault \in [Writer -> {"none", "io", "interrupt"}]
  /\ linked \in [Writer -> BOOLEAN]
  /\ exit \in [Writer -> {"running", "0", "1", "2", "interrupted", "killed"}]
  /\ stored \in [File -> 0 .. Size] /\ buffered \in [Writer -> 0 .. Size]
  /\ mode \in [File -> {"old", "0600", "0644"}]
  /\ dest \in File /\ named \subseteq File
  /\ handle \in [Reader -> File \cup {Unopened}]
  /\ taken \in [Reader -> 0 .. Size] /\ whole \in [Reader -> BOOLEAN]

\* "a reader either sees the old bytes or the new ones and never a partial
\* write" (emitAccepted): a reader that reached the end read a whole verdict,
\* of a file whose permissions were final before it had the name.
NoTornRead == \A r \in Reader :
  whole[r] => taken[r] = Size /\ mode[handle[r]] \in {"old", "0644"}

\* The exit code tells what happened to the file, whatever the other commands
\* did: 0 after the verdict had the name, 1 and 2 when it never had it.
ExitTruthful == \A w \in Writer :
  /\ exit[w] = "0" => w \in named
  /\ exit[w] \in {"1", "2"} => w \notin named

\* The destination is a register that each command sets once or leaves alone,
\* and a reader keeps reading what it held when the reader opened it.
Abstract == INSTANCE ReplaceRegister WITH
  Nothing <- Unopened,
  reg <- dest,
  outcome <- [w \in Writer |->
    IF w \in named THEN "installed"
    ELSE IF exit[w] = "running" THEN "pending" ELSE "refused"],
  got <- handle

Implements == Abstract!Spec

=============================================================================
