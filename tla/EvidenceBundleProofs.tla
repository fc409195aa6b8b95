------------------------ MODULE EvidenceBundleProofs ------------------------
(***************************************************************************)
(* Proofs about check-ara for any number of commands, any package and any  *)
(* editing of it.  The inductive invariant follows one command: what it    *)
(* has captured at each stage agrees with its manifest, and what it has of *)
(* the temporary directory and of the destination.  A step of one command  *)
(* disturbs another only through the destination, which it takes vacant.   *)
(***************************************************************************)
EXTENDS EvidenceBundle, WellFoundedInduction, TLAPS

-----------------------------------------------------------------------------
(* The inductive invariant. *)

Captured(c, S) == \A o \in Object : snap[c][o] # None <=> o \in S

Required(c) == Globals \cup Needs[manifest[c][Source]]

PolicyRead(c) == c \in Overriding => override[c] \in Version

FrontPassed(c) == Passes(manifest[c], PolicyOf(c))

Faithful(c) ==
  /\ manifest[c] # None
  /\ Sound(manifest[c], PolicyOf(c))
  /\ Captured(c, Required(c))

Late == InBracket \cup {"mkdtemp", "published", "print", "cleanup"}

\* What a command has captured at each stage, and that it agrees.
Loaded(c) ==
  /\ \A o \in Object : snap[c][o] # None =>
       manifest[c] # None /\ snap[c][o] = manifest[c][o] /\ <<o, manifest[c][o]>> \notin Pointer
  /\ pc[c] \in {"manifest", "paper"} => Captured(c, {})
  /\ pc[c] = "source" => Captured(c, {Paper})
  /\ pc[c] = "policy" => Captured(c, {Paper, Source})
  /\ pc[c] \in {"verifier", "front"} => Captured(c, Globals)
  /\ pc[c] \notin {"manifest", "ended"} => manifest[c] # None
  /\ pc[c] \in {"front", "capture"} => PolicyRead(c)
  /\ pc[c] = "capture" =>
       /\ \A o \in Globals : snap[c][o] # None
       /\ \A o \in Object : snap[c][o] # None => o \in Required(c)
       /\ FrontPassed(c)
  /\ pc[c] \in Late \/ exit[c] = "0" \/ dest = c => Faithful(c)

\* What a command has of the temporary directory and of the destination.
Owner(c) ==
  /\ pc[c] \in {"verdict", "publish"} => "report.sexp" \in written[c]
  /\ pc[c] = "publish" => "core-verdict.sexp" \in written[c]
  /\ pc[c] \in InBracket => temp[c] = "linked"
  /\ pc[c] \in Late \ {"print"} => c \in Publishing
  /\ pc[c] \in {"published", "print"} /\ c \in Publishing => dest = c
  /\ temp[c] = "linked" =>
       \/ pc[c] \in InBracket \cup {"cleanup"}
       \/ exit[c] = "killed"
       \/ exit[c] = "2" /\ fault[c] = "removal"
  /\ dest = c =>
       /\ pc[c] \in {"published", "print", "cleanup", "ended"}
       /\ temp[c] = "renamed"
       /\ written[c] = {"report.sexp", "core-verdict.sexp"}
       /\ pc[c] = "cleanup" => fault[c] = "interrupt"
  /\ pc[c] = "ended" <=> exit[c] # "running"
  /\ exit[c] = "0" /\ c \in Publishing => dest = c
  /\ exit[c] = "1" => dest # c
  /\ exit[c] = "2" /\ fault[c] # "interrupt" => dest # c

IInv == TypeOK /\ \A c \in Cmd : Loaded(c) /\ Owner(c)

\* The invariant holds at the start.
LEMMA InitIInv == Init => IInv
<1> SUFFICES ASSUME Init PROVE IInv
  OBVIOUS
<1>1. TypeOK
  BY PackageAssumption DEF Init, TypeOK, Object
<1>2. ASSUME NEW c \in Cmd
      PROVE  Loaded(c) /\ Owner(c)
  BY <1>2, PackageAssumption DEF Init, Loaded, Owner, Captured, Late, InBracket
<1> QED
  BY <1>1, <1>2 DEF IInv

-----------------------------------------------------------------------------
(* The steps. *)

\* First finds the least element of a set of objects that has one.
LEMMA FirstMember ==
  ASSUME NEW S \in SUBSET Object, S # {}
  PROVE  First(S) \in S /\ \A m \in S : First(S) <= m
<1>1. S \in SUBSET Nat
  BY PackageAssumption DEF Object
<1>2. PICK n \in S : \A m \in S : <<m, n>> \notin OpToRel(<, Nat)
  BY <1>1, NatLessThanWellFounded, WFMin
<1>3. \A m \in S : n \in Nat /\ m \in Nat /\ ~ (m < n)
  BY <1>1, <1>2 DEF OpToRel
<1>4. \A m \in S : n <= m
  BY <1>3
<1> QED
  BY <1>2, <1>4 DEF First

\* What a step of a command leaves of the others and of the destination.
Alone(c) ==
  /\ \A d \in Cmd \ {c} :
       /\ manifest'[d] = manifest[d] /\ snap'[d] = snap[d] /\ override'[d] = override[d]
       /\ pc'[d] = pc[d] /\ exit'[d] = exit[d] /\ reason'[d] = reason[d]
       /\ fault'[d] = fault[d] /\ temp'[d] = temp[d] /\ written'[d] = written[d]
  /\ dest' = dest \/ (dest = None /\ dest' = c)

\* Commands that a step leaves alone keep their part of the invariant.
LEMMA OthersKept ==
  ASSUME IInv, NEW c \in Cmd, Alone(c), NEW d \in Cmd \ {c}
  PROVE  Loaded(d)' /\ Owner(d)'
<1>1. Loaded(d) /\ Owner(d)
  BY DEF IInv
<1>2. dest' = d <=> dest = d
  BY PackageAssumption DEF Alone
<1>3. /\ manifest'[d] = manifest[d] /\ snap'[d] = snap[d] /\ override'[d] = override[d]
      /\ pc'[d] = pc[d] /\ exit'[d] = exit[d] /\ reason'[d] = reason[d]
      /\ fault'[d] = fault[d] /\ temp'[d] = temp[d] /\ written'[d] = written[d]
  BY DEF Alone
<1>4. (PolicyOf(d))' = PolicyOf(d)
  BY <1>3 DEF PolicyOf
<1>5. \A S : Captured(d, S)' <=> Captured(d, S)
  BY <1>3 DEF Captured
<1>6. (Required(d))' = Required(d) /\ (PolicyRead(d)' <=> PolicyRead(d))
      /\ (FrontPassed(d)' <=> FrontPassed(d))
  BY <1>3, <1>4 DEF Required, PolicyRead, FrontPassed
<1>7. Faithful(d)' <=> Faithful(d)
  BY <1>3, <1>4, <1>6 DEF Faithful, Captured
<1>8. Loaded(d)'
  BY <1>1, <1>2, <1>3, <1>5, <1>6, <1>7 DEF Loaded
<1>9. Owner(d)'
  BY <1>1, <1>2, <1>3 DEF Owner
<1> QED
  BY <1>8, <1>9

\* The stages that read and judge.
LEMMA CheckStep ==
  ASSUME IInv, NEW c \in Cmd, Check(c)
  PROVE  TypeOK' /\ Alone(c) /\ Loaded(c)' /\ Owner(c)' /\ Justified(c)
<1> USE PackageAssumption
<1> USE DEF Stop, Goto
<1>1. TypeOK /\ Loaded(c) /\ Owner(c)
  BY DEF IInv
<1>2. pc[c] \notin Late \cup {"ended"} /\ dest # c /\ exit[c] = "running" /\ temp[c] # "linked"
  BY <1>1 DEF Check, ReadManifest, CaptureGlobal, ReadVerifierPolicy, Structure,
     CaptureRequired, Judge, Late, InBracket, Owner
<1>3. bundle' = bundle /\ package' = package
  BY DEF Check, ReadManifest, CaptureGlobal, CaptureGlobalAs, ReadVerifierPolicy, Structure,
     CaptureRequired, Judge
<1>4. CASE ReadManifest(c)
  <2>1. TypeOK' /\ Alone(c)
    <3>1. TypeOK'
      <4>1. manifest' \in [Cmd -> Manifest \cup {None}]
        BY <1>1, <1>4 DEF ReadManifest, TypeOK
      <4>2. /\ pc' \in [Cmd -> InBracket \cup {"manifest", "paper", "source", "policy", "verifier",
                 "front", "capture", "mkdtemp", "published", "print", "cleanup", "ended"}]
            /\ exit' \in [Cmd -> {"running", "0", "1", "2", "interrupted", "killed"}]
            /\ reason' \in [Cmd -> {"none", "package", "capture", "judged", "publish"}]
        BY <1>1, <1>4 DEF ReadManifest, TypeOK
      <4> QED
        BY <1>1, <1>4, <4>1, <4>2 DEF ReadManifest, TypeOK, package, bundle
    <3>2. Alone(c)
      BY <1>1, <1>4 DEF ReadManifest, TypeOK, Alone, bundle
    <3> QED
      BY <3>1, <3>2
  <2>2. Loaded(c)' /\ Owner(c)' /\ Justified(c)
    BY <1>1, <1>2, <1>4 DEF ReadManifest, TypeOK, Loaded, Justified, Owner, Captured, Late,
       InBracket, package, bundle
  <2> QED
    BY <2>1, <2>2
<1>5. CASE CaptureGlobal(c)
  <2> DEFINE o == Named(pc[c])
  <2>1. pc[c] \in {"paper", "source", "policy"} /\ CaptureGlobalAs(c, o, "2") /\ o \in Globals
    BY <1>5 DEF CaptureGlobal, Named, Globals
  <2>2. o \in Object /\ manifest[c] # None /\ manifest[c] \in [Object -> Version]
    BY <1>1, <2>1 DEF Loaded, TypeOK
  <2>3. CASE Matches(c, o)
    <3>1. /\ snap' = [snap EXCEPT ![c][o] = files[o]] /\ <<o, manifest[c][o]>> \notin Pointer
          /\ files[o] = manifest[c][o] /\ manifest[c][o] \in Version /\ manifest[c][o] # None
          /\ pc' = [pc EXCEPT ![c] = AfterGlobal(c)]
          /\ UNCHANGED <<exit, reason, manifest, override, dest, fault, temp, written>>
      BY <2>1, <2>2, <2>3 DEF CaptureGlobalAs, Matches, Keep, package, bundle
    <3>2. AfterGlobal(c) \in {"source", "policy", "verifier", "front"}
      BY DEF AfterGlobal
    <3>3. TypeOK'
      <4>1. snap' \in [Cmd -> [Object -> Version \cup {None}]]
        BY <1>1, <2>2, <3>1 DEF TypeOK
      <4> QED
        BY <1>1, <1>3, <3>1, <3>2, <4>1 DEF TypeOK, package
    <3>4. Alone(c)
      BY <1>1, <3>1 DEF TypeOK, Alone
    <3>5. snap'[c] = [snap[c] EXCEPT ![o] = manifest[c][o]]
      BY <1>1, <3>1 DEF TypeOK
    <3>6. \A x \in Object : snap'[c][x] = IF x = o THEN manifest[c][o] ELSE snap[c][x]
      BY <1>1, <2>2, <3>5 DEF TypeOK
    <3>7. pc'[c] = AfterGlobal(c) /\ manifest'[c] = manifest[c]
      BY <1>1, <3>1 DEF TypeOK
    <3>8. /\ pc[c] = "paper" => Captured(c, {Paper})' /\ pc'[c] = "source"
          /\ pc[c] = "source" => Captured(c, {Paper, Source})' /\ pc'[c] = "policy"
          /\ pc[c] = "policy" => Captured(c, Globals)' /\ pc'[c] \in {"verifier", "front"}
                                 /\ (pc'[c] = "front" => c \notin Overriding)
      BY <1>1, <2>1, <3>1, <3>6, <3>7 DEF Loaded, Captured, AfterGlobal, Named, Globals
    <3>9. Loaded(c)'
      BY <1>1, <1>2, <2>1, <2>2, <3>1, <3>6, <3>7, <3>8 DEF Loaded, PolicyRead, Late, InBracket
    <3>10. Owner(c)' /\ Justified(c)
      BY <1>1, <1>2, <3>1, <3>2, <3>7 DEF Justified, Owner, Late, InBracket
    <3> QED
      BY <3>3, <3>4, <3>9, <3>10
  <2>4. CASE ~ Matches(c, o)
    <3>1. /\ Stop(c, "2", "package")
          /\ UNCHANGED <<package, bundle, manifest, override, snap>>
      BY <2>1, <2>4 DEF CaptureGlobalAs
    <3>2. TypeOK' /\ Alone(c)
      BY <1>1, <3>1 DEF TypeOK, Alone, package, bundle
    <3>3. Loaded(c)' /\ Owner(c)' /\ Justified(c)
      BY <1>1, <1>2, <3>1 DEF TypeOK, Loaded, Justified, Owner, Captured, Late, InBracket,
         package, bundle
    <3> QED
      BY <3>2, <3>3
  <2> QED
    BY <2>3, <2>4
<1>6. CASE ReadVerifierPolicy(c)
  <2>1. TypeOK' /\ Alone(c)
    <3>1. TypeOK'
      <4>1. override' \in [Cmd -> Version \cup {None}]
        BY <1>1, <1>6 DEF ReadVerifierPolicy, TypeOK
      <4>2. /\ pc' \in [Cmd -> InBracket \cup {"manifest", "paper", "source", "policy", "verifier",
                 "front", "capture", "mkdtemp", "published", "print", "cleanup", "ended"}]
            /\ exit' \in [Cmd -> {"running", "0", "1", "2", "interrupted", "killed"}]
            /\ reason' \in [Cmd -> {"none", "package", "capture", "judged", "publish"}]
        BY <1>1, <1>6 DEF ReadVerifierPolicy, TypeOK
      <4> QED
        BY <1>1, <1>6, <4>1, <4>2 DEF ReadVerifierPolicy, TypeOK, package, bundle
    <3>2. Alone(c)
      BY <1>1, <1>6 DEF ReadVerifierPolicy, TypeOK, Alone, bundle
    <3> QED
      BY <3>1, <3>2
  <2>2. Loaded(c)' /\ Owner(c)' /\ Justified(c)
    BY <1>1, <1>2, <1>6 DEF ReadVerifierPolicy, TypeOK, Loaded, Justified, Owner, Captured, Late,
       PolicyRead, InBracket, package, bundle
  <2> QED
    BY <2>1, <2>2
<1>7. CASE Structure(c) \/ CaptureRequired(c) \/ Judge(c)
  <2>1. /\ pc[c] \in {"front", "capture"} /\ manifest[c] # None
        /\ \A o \in Globals : snap[c][o] # None /\ snap[c][o] = manifest[c][o]
    BY <1>1, <1>7 DEF Structure, CaptureRequired, Judge, Loaded, Captured
  <2>2. /\ snap[c][Source] = manifest[c][Source] /\ PolicyBytes(c) = PolicyOf(c)
        /\ manifest[c] \in [Object -> Version] /\ Needs[manifest[c][Source]] \in SUBSET Object
    BY <1>1, <2>1 DEF Globals, PolicyBytes, PolicyOf, TypeOK
  <2>3. CASE Structure(c)
    <3> DEFINE front == Front(manifest[c][Source], PolicyOf(c))
    <3>1. pc[c] = "front" /\ UNCHANGED <<package, bundle, loading>>
      BY <2>3 DEF Structure
    <3>2. \/ front = "invalid" /\ Stop(c, "2", "package")
          \/ (front \in {"admission", "binding"} \/ manifest[c][Source] \in TooHeavy)
             /\ \E code \in {"1", "2"} : Stop(c, code, "judged")
          \/ FrontPassed(c) /\ Goto(c, "capture") /\ UNCHANGED <<exit, reason>>
      BY <2>2, <2>3 DEF Structure, FrontPassed, Passes
    <3>3. TypeOK' /\ Alone(c)
      <4>1. \/ \E code \in {"1", "2"}, why \in {"package", "judged"} : Stop(c, code, why)
            \/ Goto(c, "capture") /\ UNCHANGED <<exit, reason>>
        BY <3>2
      <4>2. TypeOK'
        <5>1. /\ pc' \in [Cmd -> InBracket \cup {"manifest", "paper", "source", "policy", "verifier",
                   "front", "capture", "mkdtemp", "published", "print", "cleanup", "ended"}]
              /\ exit' \in [Cmd -> {"running", "0", "1", "2", "interrupted", "killed"}]
              /\ reason' \in [Cmd -> {"none", "package", "capture", "judged", "publish"}]
          <6>1. CASE Goto(c, "capture") /\ UNCHANGED <<exit, reason>>
            BY <1>1, <6>1 DEF TypeOK
          <6>2. ASSUME NEW code \in {"1", "2"}, NEW why \in {"package", "judged"}, Stop(c, code, why)
                PROVE  /\ pc' = [pc EXCEPT ![c] = "ended"]
                       /\ exit' \in [Cmd -> {"running", "0", "1", "2", "interrupted", "killed"}]
                       /\ reason' \in [Cmd -> {"none", "package", "capture", "judged", "publish"}]
            BY <1>1, <6>2 DEF TypeOK
          <6> QED
            BY <1>1, <4>1, <6>1, <6>2 DEF TypeOK
        <5>2. UNCHANGED <<files, mfile, vfile, edits, dest, manifest, snap, override, fault, temp, written>>
          BY <3>1 DEF package, bundle, loading
        <5> QED
          BY <1>1, <5>1, <5>2 DEF TypeOK
      <4>3. Alone(c)
        BY <1>1, <3>1, <4>1 DEF TypeOK, Alone, bundle, loading
      <4> QED
        BY <4>2, <4>3
    <3>4. pc'[c] \in {"ended", "capture"} /\ (pc'[c] = "capture" => FrontPassed(c))
          /\ (pc'[c] = "ended" <=> exit'[c] # "running") /\ exit'[c] \in {"running", "1", "2"}
          /\ (exit'[c] = "1" => reason'[c] = "judged" /\ ~ Sound(manifest[c], PolicyOf(c)))
      BY <1>1, <1>2, <3>2 DEF TypeOK, Sound, Passes
    <3>5. UNCHANGED <<manifest, snap, override, dest, temp, written, fault>>
      BY <3>1 DEF loading, bundle
    <3>6. Loaded(c)'
      BY <1>1, <1>2, <3>1, <3>4, <3>5 DEF Loaded, Captured, Required, PolicyRead, FrontPassed,
         Passes, PolicyOf, Late, InBracket
    <3>7. Owner(c)' /\ Justified(c)
      BY <1>1, <1>2, <2>1, <3>4, <3>5 DEF Justified, Owner, PolicyOf, Late, InBracket
    <3> QED
      BY <3>3, <3>6, <3>7
  <2>4. CASE CaptureRequired(c)
    <3> DEFINE o == First(Missing(c))
    <3>1. /\ o \in Needs[manifest[c][Source]] /\ o \in Object /\ snap[c][o] = None
          /\ \A p \in Needs[manifest[c][Source]] : p < o => snap[c][p] = manifest[c][p]
      <4>1. Missing(c) \in SUBSET Object /\ Missing(c) # {}
        BY <2>2, <2>4 DEF CaptureRequired, Missing
      <4>2. o \in Missing(c) /\ \A p \in Missing(c) : o <= p
        BY <4>1, FirstMember
      <4>3. \A p \in Object : p \in Nat
        BY DEF Object
      <4>4. ASSUME NEW p \in Needs[manifest[c][Source]], p < o
            PROVE  snap[c][p] = manifest[c][p]
        <5>1. p \in Object /\ o \in Object /\ p \notin Missing(c)
          BY <2>2, <4>1, <4>2, <4>3, <4>4
        <5> QED
          BY <1>1, <2>2, <5>1, <4>4 DEF Missing, Loaded
      <4> QED
        BY <2>2, <4>1, <4>2, <4>4 DEF Missing
    <3>2. pc[c] = "capture" /\ UNCHANGED <<package, bundle, manifest, override>>
      BY <2>4 DEF CaptureRequired
    <3>3. CASE Matches(c, o)
      <4>1. /\ snap' = [snap EXCEPT ![c][o] = files[o]] /\ files[o] = manifest[c][o]
            /\ <<o, manifest[c][o]>> \notin Pointer
            /\ manifest[c][o] \in Version /\ UNCHANGED <<pc, exit, reason>>
        BY <2>2, <2>4, <3>1, <3>3 DEF CaptureRequired, Matches, Keep
      <4>2. TypeOK' /\ Alone(c)
        <5>1. snap' \in [Cmd -> [Object -> Version \cup {None}]]
          BY <1>1, <3>1, <4>1 DEF TypeOK
        <5> QED
          BY <1>1, <3>2, <4>1, <5>1 DEF TypeOK, Alone, package, bundle
      <4>3. \A x \in Object : snap'[c][x] = IF x = o THEN manifest[c][o] ELSE snap[c][x]
        BY <1>1, <3>1, <4>1 DEF TypeOK
      <4>4. Loaded(c)'
        BY <1>1, <1>2, <2>1, <3>1, <3>2, <4>1, <4>3 DEF Loaded, Required, PolicyRead, FrontPassed,
           PolicyOf, Late, InBracket, bundle, Globals
      <4>5. Owner(c)' /\ Justified(c)
        BY <1>1, <1>2, <3>2, <4>1 DEF Justified, Owner, Late, InBracket, bundle
      <4> QED
        BY <4>2, <4>4, <4>5
    <3>4. CASE ~ Matches(c, o)
      <4>1. Stop(c, "1", "capture") /\ UNCHANGED snap
        BY <2>4, <3>4 DEF CaptureRequired
      <4>2. TypeOK' /\ Alone(c)
        BY <1>1, <3>2, <4>1 DEF TypeOK, Alone, package, bundle
      <4>3. Loaded(c)' /\ Owner(c)'
        BY <1>1, <1>2, <2>1, <3>2, <4>1 DEF TypeOK, Loaded, Owner, Captured, Late,
           InBracket, bundle
      <4>4. files[o] # manifest[c][o] \/ <<o, manifest[c][o]>> \in Pointer
        BY <3>4 DEF Matches
      <4>5. reason'[c] = "capture" /\ Passes(manifest[c], PolicyOf(c))
        BY <1>1, <3>2, <4>1 DEF TypeOK, Loaded, FrontPassed
      <4>6. Justified(c)
        BY <2>1, <3>1, <4>4, <4>5 DEF Justified
      <4> QED
        BY <4>2, <4>3, <4>6
    <3> QED
      BY <3>3, <3>4
  <2>5. CASE Judge(c)
    <3>1. pc[c] = "capture" /\ Missing(c) = {} /\ UNCHANGED <<package, bundle, loading>>
      BY <2>5 DEF Judge
    <3>2. Captured(c, Required(c))
      BY <1>1, <2>1, <2>2, <3>1 DEF Loaded, Captured, Required, Missing
    <3>3. Evidence(c) = [o \in Needs[manifest[c][Source]] |-> manifest[c][o]]
      BY <1>1, <2>2, <3>2 DEF Evidence, Loaded, Captured, Required
    <3>4. Accepts(snap[c][Source], PolicyBytes(c), Evidence(c)) <=> Sound(manifest[c], PolicyOf(c))
      <4>1. \A o \in Globals \cup Needs[manifest[c][Source]] : <<o, manifest[c][o]>> \notin Pointer
        BY <1>1, <2>2, <3>2 DEF Loaded, Captured, Required, Globals
      <4> QED
        BY <1>1, <2>2, <3>1, <3>3, <4>1 DEF Loaded, FrontPassed, Sound
    <3>5. \/ /\ Faithful(c)
             /\ Goto(c, IF c \in Publishing THEN "mkdtemp" ELSE "print") /\ UNCHANGED <<exit, reason>>
          \/ ~ Sound(manifest[c], PolicyOf(c)) /\ Stop(c, "1", "judged")
      BY <2>1, <2>5, <3>2, <3>4 DEF Judge, Faithful
    <3>6. TypeOK' /\ Alone(c)
      BY <1>1, <3>1, <3>5 DEF TypeOK, Alone, package, bundle, loading
    <3>7. UNCHANGED <<manifest, snap, override, dest, temp, written, fault>>
      BY <3>1 DEF loading, bundle
    <3>8. /\ pc'[c] \in {"mkdtemp", "print", "ended"} /\ (pc'[c] # "ended" => Faithful(c))
          /\ (pc'[c] = "mkdtemp" => c \in Publishing) /\ (pc'[c] = "print" => c \notin Publishing)
          /\ (pc'[c] = "ended" <=> exit'[c] # "running") /\ exit'[c] \in {"running", "1"}
          /\ (exit'[c] = "1" => reason'[c] = "judged" /\ ~ Sound(manifest[c], PolicyOf(c)))
      BY <1>1, <1>2, <3>5 DEF TypeOK
    <3>9. Loaded(c)'
      <4>1. Faithful(c)' <=> Faithful(c)
        BY <3>7 DEF Faithful, Captured, Required, PolicyOf
      <4>2. exit'[c] # "0" /\ dest' # c
        BY <1>2, <3>7, <3>8
      <4>3. pc'[c] \notin {"manifest", "paper", "source", "policy", "verifier", "front", "capture"}
        BY <3>8
      <4> QED
        BY <1>1, <3>7, <3>8, <4>1, <4>2, <4>3 DEF Loaded, Faithful, Late, InBracket
    <3>10. Owner(c)' /\ Justified(c)
      BY <1>1, <1>2, <2>1, <3>7, <3>8 DEF Justified, Owner, PolicyOf, Late, InBracket
    <3> QED
      BY <3>6, <3>9, <3>10
  <2> QED
    BY <1>7, <2>3, <2>4, <2>5
<1> QED
  BY <1>4, <1>5, <1>6, <1>7 DEF Check

\* The stages that publish and what may end a command at any moment.
LEMMA PublishStep ==
  ASSUME IInv, NEW c \in Cmd, Publish(c) \/ Interrupt(c) \/ Kill(c)
  PROVE  TypeOK' /\ Alone(c) /\ Loaded(c)' /\ Owner(c)' /\ Justified(c)
<1> USE PackageAssumption
<1> USE DEF Stop, Goto, InBracket
<1>1. TypeOK /\ Loaded(c) /\ Owner(c)
  BY DEF IInv
<1>2. UNCHANGED <<package, loading>>
  BY DEF Publish, MakeTemporary, WriteReport, WriteVerdict, PublishNoReplace, LeaveBracket,
     PrintReport, PublishFails, Cleanup, Interrupt, Kill
<1>3. pc[c] # "ended" /\ exit[c] = "running"
  BY <1>1 DEF Publish, MakeTemporary, WriteReport, WriteVerdict, PublishNoReplace, LeaveBracket,
     PrintReport, PublishFails, Cleanup, Interrupt, Kill, Owner
<1>4. \/ pc[c] \in Late /\ pc'[c] \in Late \cup {"ended"}
      \/ pc'[c] = "ended" /\ exit'[c] # "0" /\ dest' = dest
  BY <1>1 DEF Publish, MakeTemporary, WriteReport, WriteVerdict, PublishNoReplace, LeaveBracket,
     PrintReport, PublishFails, Cleanup, Interrupt, Kill, Late, TypeOK, bundle
<1>5. exit'[c] # "1" /\ (pc'[c] = "ended" <=> exit'[c] # "running")
  BY <1>1, <1>3 DEF Publish, MakeTemporary, WriteReport, WriteVerdict, PublishNoReplace, LeaveBracket,
     PrintReport, PublishFails, Cleanup, Interrupt, Kill, TypeOK
<1>6. Loaded(c)'
  <2>1. UNCHANGED <<manifest, snap, override>>
    BY <1>2 DEF loading
  <2>2. Faithful(c) => Faithful(c)'
    BY <2>1 DEF Faithful, Captured, Required, PolicyOf
  <2> QED
    BY <1>1, <1>3, <1>4, <2>1, <2>2 DEF Loaded, Captured, Late
<1>7. Justified(c)
  BY <1>5 DEF Justified
<1>8. TypeOK' /\ Alone(c) /\ Owner(c)'
  <2>1. CASE MakeTemporary(c)
    BY <1>1, <2>1 DEF MakeTemporary, TypeOK, Alone, Owner, Late, package, loading
  <2>2. CASE WriteReport(c)
    BY <1>1, <2>2 DEF WriteReport, TypeOK, Alone, Owner, Late, package, loading
  <2>3. CASE WriteVerdict(c)
    BY <1>1, <2>3 DEF WriteVerdict, TypeOK, Alone, Owner, Late, package, loading
  <2>4. CASE PublishNoReplace(c)
    BY <1>1, <2>4 DEF PublishNoReplace, Vacant, TypeOK, Alone, Owner, Late, package, loading
  <2>5. CASE LeaveBracket(c)
    BY <1>1, <2>5 DEF LeaveBracket, TypeOK, Alone, Owner, Late, package, loading, bundle
  <2>6. CASE PrintReport(c)
    BY <1>1, <2>6 DEF PrintReport, TypeOK, Alone, Owner, Late, package, loading, bundle
  <2>7. CASE PublishFails(c)
    BY <1>1, <2>7 DEF PublishFails, TypeOK, Alone, Owner, Late, package, loading
  <2>8. CASE Cleanup(c)
    <3>1. pc[c] = "cleanup" /\ UNCHANGED <<package, loading, dest>>
      BY <2>8 DEF Cleanup
    <3>2. \E code \in {"2", "interrupted"} :
            Stop(c, code, "publish") /\ (code = "2" \/ temp'[c] # "linked")
      BY <1>1, <2>8 DEF Cleanup, TypeOK
    <3>3. /\ \E t \in {"none", "linked", "renamed"} : temp' = [temp EXCEPT ![c] = t]
          /\ \E left \in SUBSET {"report.sexp", "core-verdict.sexp"} :
               written' = [written EXCEPT ![c] = left]
          /\ \E f \in {"none", "io", "interrupt", "removal"} :
               fault' = [fault EXCEPT ![c] = f] /\ (temp'[c] = "linked" => f = "removal")
          /\ temp[c] = "renamed" => UNCHANGED <<temp, written, fault>>
      <4>1. /\ temp = [temp EXCEPT ![c] = temp[c]] /\ written = [written EXCEPT ![c] = written[c]]
            /\ fault = [fault EXCEPT ![c] = fault[c]] /\ temp[c] \in {"none", "linked", "renamed"}
            /\ written[c] \in SUBSET {"report.sexp", "core-verdict.sexp"}
            /\ fault[c] \in {"none", "io", "interrupt", "removal"}
        BY <1>1 DEF TypeOK
      <4>2. CASE temp[c] = "linked" /\ temp' = [temp EXCEPT ![c] = "none"]
                 /\ written' = [written EXCEPT ![c] = {}] /\ UNCHANGED fault
        <5>1. temp'[c] = "none" /\ temp[c] # "renamed"
          BY <1>1, <4>2 DEF TypeOK
        <5> QED
          BY <4>1, <4>2, <5>1
      <4>3. CASE /\ temp[c] = "linked" /\ UNCHANGED temp
                 /\ \E left \in SUBSET written[c] : written' = [written EXCEPT ![c] = left]
                 /\ fault' = [fault EXCEPT ![c] = "removal"]
        BY <4>1, <4>3
      <4>4. CASE temp[c] = "renamed" /\ UNCHANGED <<fault, temp, written>>
        BY <4>1, <4>4
      <4> QED
        BY <2>8, <4>2, <4>3, <4>4 DEF Cleanup
    <3>4. TypeOK'
      BY <1>1, <3>1, <3>2, <3>3 DEF TypeOK, package, loading
    <3>5. Alone(c)
      BY <1>1, <3>1, <3>2, <3>3 DEF TypeOK, Alone, loading
    <3>6. dest = c => temp[c] = "renamed" /\ fault[c] = "interrupt"
      BY <1>1, <3>1 DEF Owner
    <3>7. dest = c => temp'[c] = "renamed" /\ written'[c] = written[c] /\ fault'[c] = fault[c]
      BY <3>3, <3>6
    <3>8. pc'[c] = "ended" /\ exit'[c] \in {"2", "interrupted"} /\ dest' = dest
          /\ (temp'[c] = "linked" => exit'[c] = "2" /\ fault'[c] = "removal")
      BY <1>1, <3>1, <3>2, <3>3 DEF TypeOK
    <3>9. Owner(c)'
      BY <1>1, <3>6, <3>7, <3>8 DEF Owner, Late
    <3> QED
      BY <3>4, <3>5, <3>9
  <2>9. CASE Interrupt(c)
    <3>1. TypeOK'
      BY <1>1, <2>9 DEF Interrupt, TypeOK, package, loading
    <3>2. Alone(c)
      BY <1>1, <2>9 DEF Interrupt, TypeOK, Alone, loading
    <3>3. Owner(c)'
      BY <1>1, <1>3, <2>9 DEF Interrupt, TypeOK, Owner, Late
    <3> QED
      BY <3>1, <3>2, <3>3
  <2>10. CASE Kill(c)
    BY <1>1, <1>3, <2>10 DEF Kill, TypeOK, Alone, Owner, Late, package, loading, bundle
  <2> QED
    BY <2>1, <2>2, <2>3, <2>4, <2>5, <2>6, <2>7, <2>8, <2>9, <2>10 DEF Publish
<1> QED
  BY <1>6, <1>7, <1>8

\* Every step of a command or of an editor keeps it.
LEMMA StepIInv == IInv /\ [Next]_vars => IInv'
<1> SUFFICES ASSUME IInv, [Next]_vars
             PROVE  IInv'
  OBVIOUS
<1>1. ASSUME NEW c \in Cmd, Check(c) \/ Publish(c) \/ Interrupt(c) \/ Kill(c)
      PROVE  IInv'
  <2>1. TypeOK' /\ Alone(c) /\ Loaded(c)' /\ Owner(c)' /\ Justified(c)
    BY <1>1, CheckStep, PublishStep
  <2>2. \A d \in Cmd \ {c} : Loaded(d)' /\ Owner(d)'
    BY <2>1, OthersKept
  <2> QED
    BY <2>1, <2>2 DEF IInv
<1>2. CASE Edit \/ UNCHANGED vars
  <2>1. UNCHANGED <<manifest, snap, override, dest, fault, temp, written, pc, exit, reason>>
    BY <1>2 DEF Edit, vars, loading, bundle
  <2>2. TypeOK'
    <3>1. CASE Edit
      BY <2>1, <3>1, PackageAssumption DEF IInv, TypeOK, Edit
    <3>2. CASE UNCHANGED vars
      BY <2>1, <3>2 DEF IInv, TypeOK, vars, package
    <3> QED
      BY <1>2, <3>1, <3>2
  <2>3. ASSUME NEW c \in Cmd
        PROVE  Loaded(c)' /\ Owner(c)' /\ Justified(c)
    <3>1. Loaded(c) /\ Owner(c)
      BY DEF IInv
    <3>2. Loaded(c)'
      BY <2>1, <3>1 DEF Loaded, Captured, Required, PolicyRead, FrontPassed, Faithful, PolicyOf
    <3>3. Owner(c)' /\ Justified(c)
      BY <2>1, <3>1 DEF Justified, Owner, PolicyOf
    <3> QED
      BY <3>2, <3>3
  <2> QED
    BY <2>2, <2>3 DEF IInv
<1> QED
  BY <1>1, <1>2 DEF Next

\* The inductive invariant holds of every behaviour of the commands.
THEOREM InductiveInvariant == Spec => []IInv
BY InitIInv, StepIInv, PTL DEF Spec

-----------------------------------------------------------------------------
(* The theorems. *)

\* The state keeps its types: no command holds bytes it could not read.
THEOREM TypeCorrect == Spec => []TypeOK
<1>1. IInv => TypeOK
  BY DEF IInv
<1> QED
  BY <1>1, InductiveInvariant, PTL

\* A bundle and a printed report are those of the one package a manifest pins.
THEOREM SnapshotConsistent == Spec => []OnePackage
<1>1. IInv => OnePackage
  BY DEF IInv, OnePackage, Loaded, Faithful, Captured, Required
<1> QED
  BY <1>1, InductiveInvariant, PTL

\* A command turns to exit 1 only for what the pinned package is, or for a
\* requested object that is not the pinned one on disk.
THEOREM RejectionsClassified == Spec => RejectionClass
<1>1. ASSUME IInv, [Next]_vars
      PROVE  [\A c \in Cmd : Justified(c)]_vars
  <2>1. ASSUME NEW c \in Cmd, Check(c) \/ Publish(c) \/ Interrupt(c) \/ Kill(c), NEW d \in Cmd
        PROVE  Justified(d)
    <3>1. Alone(c) /\ Justified(c)
      BY <1>1, <2>1, CheckStep, PublishStep
    <3>2. CASE d # c
      BY <3>1, <3>2 DEF Alone, Justified
    <3> QED
      BY <3>1, <3>2
  <2>2. CASE Edit
    BY <2>2 DEF Edit, Justified
  <2> QED
    BY <1>1, <2>1, <2>2 DEF Next
<1> QED
  BY <1>1, InductiveInvariant, PTL DEF Spec, RejectionClass

\* The exit code tells who owns the destination, but for an interrupt between
\* the rename and the end of the bracket.
THEOREM ExitsAreTruthful == Spec => []ExitTruthful
<1>1. IInv => ExitTruthful
  BY DEF IInv, ExitTruthful, Owner
<1> QED
  BY <1>1, InductiveInvariant, PTL

\* The destination names no half bundle, and a temporary directory outlives its
\* command only if that was killed or could not remove it.
THEOREM LeavesNothingPartial == Spec => []NothingPartial
<1>1. IInv => NothingPartial
  BY DEF IInv, NothingPartial, Owner, InBracket
<1> QED
  BY <1>1, InductiveInvariant, PTL

\* What the destination names is never replaced, and a bundle never changes.
THEOREM BundlesStand == Spec => NeverReplaced
<1>1. ASSUME IInv, [Next]_vars
      PROVE  [/\ dest # None => dest' = dest
              /\ \A c \in Cmd : dest = c => written'[c] = written[c]]_vars
  <2>1. ASSUME NEW c \in Cmd, Check(c) \/ Publish(c) \/ Interrupt(c) \/ Kill(c)
        PROVE  /\ dest # None => dest' = dest
               /\ \A d \in Cmd : dest = d => written'[d] = written[d]
    <3>1. Alone(c)
      BY <1>1, <2>1, CheckStep, PublishStep
    <3>2. dest = c => written'[c] = written[c]
      <4>1. TypeOK /\ Owner(c)
        BY <1>1 DEF IInv
      <4> QED
        BY <2>1, <4>1 DEF Owner, TypeOK, InBracket, Check, ReadManifest, CaptureGlobal,
           CaptureGlobalAs, ReadVerifierPolicy, Structure, CaptureRequired, Judge, Publish,
           MakeTemporary, WriteReport, WriteVerdict, PublishNoReplace, LeaveBracket,
           PrintReport, PublishFails, Cleanup, Interrupt, Kill, bundle
    <3> QED
      BY <3>1, <3>2 DEF Alone
  <2>2. CASE Edit
    BY <2>2 DEF Edit, bundle
  <2> QED
    BY <1>1, <2>1, <2>2 DEF Next
<1> QED
  BY <1>1, InductiveInvariant, PTL DEF Spec, NeverReplaced

\* Exit codes and the destination agree, and what is published is whole.
THEOREM PublicationsAreWhole == Spec => []PublicationIsWhole
<1>1. ExitTruthful /\ NothingPartial => PublicationIsWhole
  BY DEF PublicationIsWhole
<1> QED
  BY <1>1, ExitsAreTruthful, LeavesNothingPartial, PTL
=============================================================================
