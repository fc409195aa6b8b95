------------------------------- MODULE MapLoad -------------------------------
(***************************************************************************)
(* One `lara check <map.laramap>': read the manifest, its policy and every *)
(* member through one read cache while other programs edit the files, stop *)
(* at the first failure, and link what was loaded (Lara.Map.Load,          *)
(* Lara.Source.Load, linkMap).                                             *)
(***************************************************************************)
EXTENDS MapLink

CONSTANTS
  Path,        \* the paths a run can read
  Key,         \* canonicalPathKey: two spellings of one file have one key
  PolicyPath,  \* PolicyPath[f][id]: where the program at f looks for its policy
  ManifestPath,
  Manifest,    \* manifests by name: policy, policyPath, backends, members (paths)
  Disks,       \* the contents of the files a run can start from
  Edited,      \* what another program can write: key -> contents
  MaxEdits

Contents == Program \cup Policy \cup DOMAIN Manifest \cup {"absent", "garbled"}

ASSUME LoadAssumption ==
  /\ ManifestPath \in Path
  /\ \A f \in Path : \A id \in DOMAIN PolicyPath[f] : PolicyPath[f][id] \in Path
  /\ \A m \in DOMAIN Manifest :
       /\ Len(Manifest[m].members) \in 1..MaxMembers
       /\ Manifest[m].members \in Seq(Path)
  /\ \A d \in Disks : d \in [{Key[f] : f \in Path} -> Contents]

VARIABLES
  disk,      \* the files now
  cache,     \* the result of the first read of each key
  edits,     \* edits so far
  stage,     \* the stage that runs next
  manifest,  \* the decoded manifest
  contract,  \* the policy the manifest names
  loaded,    \* the programs of the members accepted so far
  program,   \* the program of the member being loaded
  verdict

vars == <<disk, cache, edits, stage, manifest, contract, loaded, program, verdict>>

Undecided == [class |-> "none", member |-> 0]

Init ==
  /\ disk \in Disks
  /\ cache = <<>>
  /\ edits = 0
  /\ stage = "manifest"
  /\ manifest = "none"
  /\ contract = "none"
  /\ loaded = <<>>
  /\ program = "none"
  /\ verdict = Undecided

Edit ==
  /\ stage # "done"
  /\ edits < MaxEdits
  /\ \E k \in DOMAIN Edited : \E c \in Edited[k] \ {disk[k]} : disk' = [disk EXCEPT ![k] = c]
  /\ edits' = edits + 1
  /\ UNCHANGED <<cache, stage, manifest, contract, loaded, program, verdict>>

-----------------------------------------------------------------------------
(* The read cache. *)

\* The text a reader of f gets; a failure to read is retained like a success.
TextUncached(f) == disk[Key[f]]
Text(f) == IF Key[f] \in DOMAIN cache THEN cache[Key[f]] ELSE disk[Key[f]]

Retain(f) ==
  cache' = [k \in DOMAIN cache \cup {Key[f]} |-> IF k = Key[f] THEN Text(f) ELSE cache[k]]

-----------------------------------------------------------------------------
(* The stages. *)

Stop(class, member) ==
  /\ verdict' = [class |-> class, member |-> member]
  /\ stage' = "done"
  /\ UNCHANGED <<disk, edits, manifest, contract, loaded, program>>

GoOn(next) ==
  /\ stage' = next
  /\ UNCHANGED <<disk, edits, verdict>>

ReadManifest ==
  /\ stage = "manifest"
  /\ Retain(ManifestPath)
  /\ CASE Text(ManifestPath) = "absent" -> Stop("MBUnreadable", 0)
       [] Text(ManifestPath) \in DOMAIN Manifest ->
            /\ manifest' = Text(ManifestPath)
            /\ GoOn("contract")
            /\ UNCHANGED <<contract, loaded, program>>
       [] OTHER -> Stop("MBWire", 0)

man == Manifest[manifest]

ReadContract ==
  /\ stage = "contract"
  /\ Retain(man.policyPath)
  /\ LET text == Text(man.policyPath)
     IN CASE text = "absent" -> Stop("MBUnreadable", 0)
          [] text \notin Policy \cup {"absent"} -> Stop("MBManifestPolicySource", 0)
          [] text \in Policy /\ PolicyText[text].id # man.policy ->
               Stop("MBManifestPolicyMismatch", 0)
          [] OTHER -> /\ contract' = text
                      /\ GoOn("resolve")
                      /\ UNCHANGED <<manifest, loaded, program>>

\* Two members that name one file.
DuplicatePaths ==
  \E i, j \in DOMAIN man.members : i # j /\ Key[man.members[i]] = Key[man.members[j]]

ResolvePaths ==
  /\ stage = "resolve"
  /\ UNCHANGED cache
  /\ IF DuplicatePaths THEN Stop("MBDuplicatePath", 0)
     ELSE GoOn("program") /\ UNCHANGED <<manifest, contract, loaded, program>>

at == Len(loaded) + 1

ReadProgram ==
  /\ stage = "program"
  /\ at <= Len(man.members)
  /\ Retain(man.members[at])
  /\ LET text == Text(man.members[at])
     IN CASE text = "absent" -> Stop("MBUnreadable", at)
          [] text \in Program ->
               /\ program' = text
               /\ GoOn("policy")
               /\ UNCHANGED <<manifest, contract, loaded>>
          [] OTHER -> Stop("MBMemberSource", at)

-----------------------------------------------------------------------------
(* One member's gates. *)

Leaves(p) == {s \in UNION {ShapeSub[Source[p].args[i]] : i \in DOMAIN Source[p].args} :
                ShapeMode[s] = "leaf"}

\* prepareSource: the header match, then the source's own well-formedness.
Prepares(p, q) == PolicyText[q].id = Source[p].policy /\ Source[p].valid

RepeatsClaim(p) ==
  \E i, j \in DOMAIN Source[p].claims :
    i # j /\ Source[p].claims[i].name = Source[p].claims[j].name

MeetsContract(p, q) ==
  /\ Source[p].policy = man.policy
  /\ q = contract
  /\ Source[p].backends = man.backends

\* The gates of the member's own check under its policy, in order.
Gate(p, q) ==
  CASE Leaves(p) \cap PolicyText[q].reject # {}     -> "MRMemberAdmissionStop"
    [] Leaves(p) \cap PolicyText[q].quarantine # {} -> "MRUnsupportedAdmission"
    [] ~ UnitAccepted(MemberUnit(0, p), q)          -> "MRMemberRejected"
    [] OTHER                                        -> "accept"

\* The member's policy is read from beside the path its program was read by.
\* MBMemberPolicy is the MBMemberSource that names the policy file.
LoadMember ==
  /\ stage = "policy"
  /\ LET f == PolicyPath[man.members[at]][Source[program].policy]
         q == Text(f)
     IN /\ Retain(f)
        /\ IF q \notin Policy THEN Stop("MBMemberPolicy", at)
           ELSE CASE ~ Prepares(program, q)      -> Stop("MBMemberSource", at)
                  [] Prepares(program, q) /\ RepeatsClaim(program) -> Stop("MBDuplicateClaim", at)
                  [] /\ Prepares(program, q)
                     /\ ~ RepeatsClaim(program)
                     /\ ~ MeetsContract(program, q) -> Stop("MRContract", at)
                  [] OTHER ->
                       IF Gate(program, q) # "accept" THEN Stop(Gate(program, q), at)
                       ELSE /\ loaded' = Append(loaded, program)
                            /\ program' = "none"
                            /\ GoOn("program")
                            /\ UNCHANGED <<manifest, contract>>

Link ==
  /\ stage = "program"
  /\ at > Len(man.members)
  /\ UNCHANGED cache
  /\ Stop(IF UnitAccepted(LinkedUnit(loaded, contract), contract)
          THEN "accepted" ELSE "MRLinkRejected", 0)

Next ==
  \/ Edit
  \/ ReadManifest
  \/ ReadContract
  \/ ResolvePaths
  \/ ReadProgram
  \/ LoadMember
  \/ Link

Spec == Init /\ [][Next]_vars
-----------------------------------------------------------------------------
(* Properties. *)

TypeOK ==
  /\ disk \in [{Key[f] : f \in Path} -> Contents]
  /\ DOMAIN cache \subseteq DOMAIN disk
  /\ \A k \in DOMAIN cache : cache[k] \in Contents
  /\ edits \in 0..MaxEdits
  /\ stage \in {"manifest", "contract", "resolve", "program", "policy", "done"}
  /\ manifest \in DOMAIN Manifest \cup {"none"}
  /\ contract \in Policy \cup {"none"}
  /\ loaded \in Seq(Program)
  /\ program \in Program \cup {"none"}

\* Members that are accepted alone under one policy link: the generated attacks
\* cover every conflict the members did not, and each is typed by the policy.
LinkAccepts == verdict.class # "MRLinkRejected"

\* Whatever the other members bring, the attacks an argument of one member
\* alone makes on that member's arguments are those of the member's own check:
\* none is lost in the merge, and saturation adds none.
OwnGraphKept ==
  verdict.class = "accepted" =>
    LET u     == LinkedUnit(loaded, contract)
        nodes == MapNodes(loaded, u)
        edges == MapEdges(u)
    IN \A n \in DOMAIN loaded :
         LET solo == MemberUnit(0, loaded[n])
         IN \A i, j \in DOMAIN Source[loaded[n]].args :
              Owners(loaded, TermAt(loaded, <<n, i>>)) = {n} =>
                (<<<<0, i>>, <<0, j>>>> \in Edges(solo) <=>
                   /\ {<<n, i>>, <<n, j>>} \subseteq DOMAIN nodes
                   /\ <<nodes[<<n, i>>], nodes[<<n, j>>]>> \in edges)

\* A map changes a claim's status only by what another member brings: where no
\* attack that a member's own check lacks reaches its arguments, and no other
\* member's argument concludes the claim, the claim has its own check's status.
UndisturbedStatus ==
  verdict.class = "accepted" =>
    LET u     == LinkedUnit(loaded, contract)
        edges == Edges(u)
    IN \A n \in DOMAIN loaded :
         LET solo  == MemberUnit(0, loaded[n])
             place == [i \in DOMAIN Source[loaded[n]].args |-> Place(loaded, <<n, i>>)]
             own   == {<<place[e[1][2]], place[e[2][2]]>> : e \in Edges(solo)}
             mine  == {place[i] : i \in DOMAIN place}
         IN \A c \in DOMAIN Source[loaded[n]].claims :
              LET claim == Source[loaded[n]].claims[c]
              IN /\ \A e \in edges : e[2] \in mine => e \in own
                 /\ \A i \in Nodes(u) : Concl[u.args[i]] = claim.prop => i \in mine
                 => StatusIn(u, claim) = StatusIn(solo, claim)

\* A member that shares the manifest's policy file is never refused for what the
\* file says, whatever is written to it meanwhile; and no member is judged by an
\* admission or a verdict under a policy that is not the contract.
BlameIsSound ==
  verdict.member # 0 =>
    LET f == man.members[verdict.member]
        p == cache[Key[f]]
    IN /\ verdict.class = "MBMemberPolicy" =>
            Key[PolicyPath[f][Source[p].policy]] # Key[man.policyPath]
       /\ verdict.class = "MRContract" =>
            \/ Source[p].policy # man.policy
            \/ Source[p].backends # man.backends
            \/ Key[PolicyPath[f][Source[p].policy]] # Key[man.policyPath]
       /\ verdict.class \in {"MRMemberAdmissionStop", "MRUnsupportedAdmission", "MRMemberRejected"} =>
            cache[Key[PolicyPath[f][Source[p].policy]]] = cache[Key[man.policyPath]]
=============================================================================
