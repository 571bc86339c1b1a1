-------------------------- MODULE GhSettings_proofs --------------------------
(***************************************************************************)
(* Theorems about the synchronisation of the GitHub settings, for any page *)
(* size, any settings and rulesets found, any edits, failures, lost        *)
(* answers and restarts.                                                   *)
(***************************************************************************)
EXTENDS GhSettings, SequenceTheorems, FiniteSetTheorems, WellFoundedInduction, TLAPS

(***************************************************************************)
(* A list of rulesets as GitHub keeps them after n edits: no two have one  *)
(* id, at most one is the repository's own default, and the next id is     *)
(* free.                                                                   *)
(***************************************************************************)
IsOwnDefault(r) == r.name = "default" /\ r.owner = "repo"
Kept(rs, n) ==
  /\ rs \in Seq(Rulesets)
  /\ \A i, j \in 1 .. Len(rs) : rs[i].id = rs[j].id => i = j
  /\ \A i, j \in 1 .. Len(rs) : IsOwnDefault(rs[i]) /\ IsOwnDefault(rs[j]) => i = j
  /\ \A i \in 1 .. Len(rs) : rs[i].id <= Len(rs) + n

GhStart == \E flags \in SUBSET RepoFlags : \E initial : Kept(initial, 0) /\ GhInit(flags, initial)
GhSpec == GhStart /\ [][GhNext]_GhVars

(***************************************************************************)
(* The inductive invariant: types; what a pass without any edit in it has  *)
(* done so far, and what it leaves to the next one; and that what a pass   *)
(* is to write over has not changed since it was read, edits apart.        *)
(***************************************************************************)
Passes == [pc : {"idle", "failed"} \cup ReadCalls \cup WriteCalls, repo : Repos, ruleset : Rulesets,
           began : Nat, repoAt : Nat, rulesetAt : Nat]

GhTypeInv ==
  /\ repo \in Repos
  /\ Kept(rulesets, edits)
  /\ pass \in Passes
  /\ pass.pc = "update" => IsOwnDefault(pass.ruleset)
  /\ pass.began <= edits /\ pass.repoAt <= edits /\ pass.rulesetAt <= edits
  /\ settledAt \in Int /\ -1 <= settledAt /\ settledAt <= edits
  /\ syncedRepo \in BOOLEAN /\ (syncedRepo => pass.pc = "idle")
  /\ edits \in 0 .. MaxEdits /\ failures \in 0 .. MaxFailures

SettledInv ==
  /\ pass.pc \in {"list", "create", "read", "update"} /\ pass.began = edits => repo.flags = RepoFlags
  /\ settledAt = edits =>
       AsWanted /\ pass.pc \notin {"edit", "update"} /\ (pass.pc = "create" => Listed = {})

ReadInv ==
  /\ pass.pc = "edit" /\ pass.repoAt = edits => pass.repo.about = repo.about
  /\ pass.pc = "update" /\ pass.rulesetAt = edits =>
       \A i \in OwnDefaults : IdOf(i) = pass.ruleset.id => rulesets[i].extra = pass.ruleset.extra

GhInv == GhTypeInv /\ SettledInv /\ ReadInv

-------------------------------------------------------------------------------
(***************************************************************************)
(* Lists of rulesets.                                                      *)
(***************************************************************************)
LEMMA KeptTypes ==
  ASSUME NEW rs, NEW n, Kept(rs, n)
  PROVE  Len(rs) \in Nat /\ \A i \in 1 .. Len(rs) : rs[i] \in Rulesets /\ rs[i].id \in Nat
<1>1. Len(rs) \in Nat /\ \A i \in 1 .. Len(rs) : rs[i] \in Rulesets
  BY ElementOfSeq DEF Kept
<1>2. \A r \in Rulesets : r.id \in Nat
  BY DEF Rulesets
<1> QED
  BY <1>1, <1>2

LEMMA KeptLater == ASSUME NEW rs, NEW n \in Nat, Kept(rs, n) PROVE Kept(rs, n + 1)
<1>1. ASSUME NEW i \in 1 .. Len(rs) PROVE rs[i].id <= Len(rs) + (n + 1)
  <2>1. Len(rs) \in Nat /\ rs[i].id \in Nat /\ rs[i].id <= Len(rs) + n
    BY KeptTypes DEF Kept
  <2> QED
    BY <2>1
<1> QED
  BY <1>1 DEF Kept

LEMMA KeptAppend ==
  ASSUME NEW rs, NEW n \in Nat, Kept(rs, n), NEW r \in Rulesets, r.id = 1 + Len(rs) + n,
         IsOwnDefault(r) => \A i \in 1 .. Len(rs) : ~IsOwnDefault(rs[i])
  PROVE  /\ Kept(Append(rs, r), n) /\ Len(Append(rs, r)) = Len(rs) + 1
         /\ \A i \in 1 .. Len(rs) : Append(rs, r)[i] = rs[i]
         /\ Append(rs, r)[Len(rs) + 1] = r
<1> DEFINE qs == Append(rs, r)
<1>1. /\ rs \in Seq(Rulesets) /\ Len(rs) \in Nat
      /\ qs \in Seq(Rulesets) /\ Len(qs) = Len(rs) + 1
      /\ \A i \in 1 .. Len(rs) : qs[i] = rs[i]
      /\ qs[Len(rs) + 1] = r
  BY AppendProperties DEF Kept
<1> HIDE DEF qs
<1>2. \A i \in 1 .. Len(qs) : i \in 1 .. Len(rs) \/ i = Len(rs) + 1
  BY <1>1
<1>3. \A i \in 1 .. Len(rs) : rs[i].id \in Nat /\ rs[i].id <= Len(rs) + n
  BY KeptTypes DEF Kept
<1>4. \A i \in 1 .. Len(qs) : qs[i].id <= Len(qs) + n
  BY <1>1, <1>2, <1>3
<1>5. \A i, j \in 1 .. Len(qs) : qs[i].id = qs[j].id => i = j
  <2>1. r.id = 1 + Len(rs) + n /\ \A i \in 1 .. Len(rs) : qs[i].id # r.id
    BY <1>1, <1>3
  <2>2. \A i, j \in 1 .. Len(rs) : qs[i].id = qs[j].id => i = j
    BY <1>1 DEF Kept
  <2> QED
    BY <1>1, <1>2, <2>1, <2>2
<1>6. \A i, j \in 1 .. Len(qs) : IsOwnDefault(qs[i]) /\ IsOwnDefault(qs[j]) => i = j
  BY <1>1, <1>2 DEF Kept
<1> QED
  BY <1>1, <1>4, <1>5, <1>6 DEF Kept, qs

LEMMA KeptRemove ==
  ASSUME NEW rs, NEW n \in Nat, Kept(rs, n), NEW k \in 1 .. Len(rs)
  PROVE  Kept(RemoveAt(rs, k), n + 1)
<1> DEFINE a == SubSeq(rs, 1, k - 1)
           b == SubSeq(rs, k + 1, Len(rs))
           qs == a \o b
           Old(i) == IF i < k THEN i ELSE i + 1
<1>1. rs \in Seq(Rulesets) /\ Len(rs) \in Nat /\ \A i \in 1 .. Len(rs) : rs[i] \in Rulesets
  BY ElementOfSeq DEF Kept
<1>2. a \in Seq(Rulesets) /\ Len(a) = k - 1 /\ \A i \in 1 .. k - 1 : a[i] = rs[i]
  <2>1. \A i \in 1 .. k - 1 : rs[i] \in Rulesets
    BY <1>1
  <2> QED
    BY <1>1, <2>1, SubSeqProperties
<1>3. b \in Seq(Rulesets) /\ Len(b) = Len(rs) - k /\ \A i \in 1 .. Len(rs) - k : b[i] = rs[k + i]
  <2>1. \A i \in k + 1 .. Len(rs) : rs[i] \in Rulesets
    BY <1>1
  <2> HIDE DEF b
  <2>2. /\ b \in Seq(Rulesets) /\ Len(b) = IF k + 1 <= Len(rs) THEN Len(rs) - (k + 1) + 1 ELSE 0
        /\ \A i \in 1 .. Len(rs) - (k + 1) + 1 : b[i] = rs[(k + 1) + i - 1]
    BY <1>1, <2>1, SubSeqProperties DEF b
  <2> QED
    BY <1>1, <2>2
<1> HIDE DEF a, b
<1>4. /\ qs \in Seq(Rulesets) /\ Len(qs) = Len(a) + Len(b)
      /\ \A i \in 1 .. Len(a) + Len(b) : qs[i] = IF i <= Len(a) THEN a[i] ELSE b[i - Len(a)]
  BY <1>2, <1>3, ConcatProperties
<1> HIDE DEF qs
<1>5. Len(qs) = Len(rs) - 1
  BY <1>1, <1>2, <1>3, <1>4
<1>6. ASSUME NEW i \in 1 .. Len(qs) PROVE Old(i) \in 1 .. Len(rs) /\ qs[i] = rs[Old(i)]
  <2>1. CASE i < k
    BY <1>1, <1>2, <1>4, <1>5, <2>1
  <2>2. CASE ~(i < k)
    <3>1. i - (k - 1) \in 1 .. Len(rs) - k /\ k + (i - (k - 1)) = i + 1
      BY <1>1, <1>5, <2>2
    <3>2. qs[i] = b[i - (k - 1)]
      BY <1>1, <1>2, <1>3, <1>4, <1>5, <2>2
    <3> QED
      BY <1>1, <1>3, <1>5, <2>2, <3>1, <3>2
  <2> QED
    BY <2>1, <2>2
<1>7. \A i, j \in 1 .. Len(qs) : Old(i) = Old(j) => i = j
  BY <1>1, <1>5
<1> HIDE DEF Old
<1>8. \A i \in 1 .. Len(qs) : qs[i].id <= Len(qs) + (n + 1)
  <2> TAKE i \in 1 .. Len(qs)
  <2>1. qs[i].id \in Nat /\ qs[i].id <= Len(rs) + n
    BY <1>6, KeptTypes DEF Kept
  <2> QED
    BY <1>1, <1>5, <2>1
<1>9. \A i, j \in 1 .. Len(qs) :
        /\ qs[i].id = qs[j].id => Old(i) = Old(j)
        /\ IsOwnDefault(qs[i]) /\ IsOwnDefault(qs[j]) => Old(i) = Old(j)
  <2> TAKE i, j \in 1 .. Len(qs)
  <2>1. Old(i) \in 1 .. Len(rs) /\ qs[i] = rs[Old(i)] /\ Old(j) \in 1 .. Len(rs) /\ qs[j] = rs[Old(j)]
    BY <1>6
  <2> QED
    BY <2>1 DEF Kept
<1>10. Kept(qs, n + 1)
  BY <1>4, <1>7, <1>8, <1>9 DEF Kept
<1> QED
  BY <1>10 DEF RemoveAt, qs, a, b

LEMMA KeptChange ==
  ASSUME NEW rs, NEW n \in Nat, Kept(rs, n), NEW k \in 1 .. Len(rs), NEW right \in SUBSET Leaves,
         NEW extra \in 0 .. MaxEdits
  PROVE  LET qs == [rs EXCEPT ![k].right = right, ![k].extra = extra] IN
           /\ Kept(qs, n) /\ Len(qs) = Len(rs)
           /\ qs[k] = [rs[k] EXCEPT !.right = right, !.extra = extra]
           /\ \A i \in 1 .. Len(rs) : i # k => qs[i] = rs[i]
           /\ \A i \in 1 .. Len(rs) : qs[i].id = rs[i].id /\ (IsOwnDefault(qs[i]) <=> IsOwnDefault(rs[i]))
<1> DEFINE r == [rs[k] EXCEPT !.right = right, !.extra = extra]
           qs == [rs EXCEPT ![k].right = right, ![k].extra = extra]
<1>1. rs \in Seq(Rulesets) /\ Len(rs) \in Nat /\ rs[k] \in Rulesets
  BY ElementOfSeq DEF Kept
<1>2. r \in Rulesets /\ r.id = rs[k].id /\ r.name = rs[k].name /\ r.owner = rs[k].owner
  BY <1>1 DEF Rulesets
<1>3. qs = [rs EXCEPT ![k] = r]
  BY <1>1
<1> HIDE DEF r, qs
<1>4. qs \in Seq(Rulesets) /\ Len(qs) = Len(rs) /\ \A i \in 1 .. Len(rs) : qs[i] = IF i = k THEN r ELSE rs[i]
  BY <1>1, <1>2, <1>3, ExceptSeq
<1>5. \A i \in 1 .. Len(rs) : qs[i].id = rs[i].id /\ (IsOwnDefault(qs[i]) <=> IsOwnDefault(rs[i]))
  BY <1>2, <1>4 DEF IsOwnDefault
<1>6. Kept(qs, n)
  BY <1>4, <1>5 DEF Kept
<1> QED
  BY <1>4, <1>5, <1>6 DEF r, qs

\* the first page of the list, and the first default in it
LEMMA FirstListed ==
  ASSUME rulesets \in Seq(Rulesets)
  PROVE  /\ Listed \subseteq 1 .. Len(rulesets) /\ \A i \in Listed : FirstPage[i] = rulesets[i]
         /\ Listed # {} => FirstOf(Listed) \in Listed
<1> DEFINE last == IF PageSize < Len(rulesets) THEN PageSize ELSE Len(rulesets)
<1>1. last \in Nat /\ last <= Len(rulesets) /\ Len(rulesets) \in Nat
  BY EditAssumption
<1> HIDE DEF last
<1>2. \A i \in 1 .. last : rulesets[i] \in Rulesets
  BY <1>1, ElementOfSeq
<1>3. /\ FirstPage = SubSeq(rulesets, 1, last) /\ FirstPage \in Seq(Rulesets) /\ Len(FirstPage) = last
      /\ \A i \in 1 .. last : FirstPage[i] = rulesets[i]
  <2> DEFINE fp == SubSeq(rulesets, 1, last)
  <2>1. /\ fp \in Seq(Rulesets) /\ Len(fp) = IF 1 <= last THEN last - 1 + 1 ELSE 0
        /\ \A i \in 1 .. last - 1 + 1 : fp[i] = rulesets[1 + i - 1]
    BY <1>1, <1>2, SubSeqProperties
  <2>2. FirstPage = fp
    BY DEF FirstPage, last
  <2> HIDE DEF fp
  <2> QED
    BY <1>1, <2>1, <2>2 DEF fp
<1>4. Listed \subseteq 1 .. Len(rulesets) /\ \A i \in Listed : FirstPage[i] = rulesets[i]
  BY <1>1, <1>3 DEF Listed
<1>5. ASSUME Listed # {} PROVE \E i \in Listed : \A j \in Listed : i <= j
  <2>1. Listed \subseteq Nat
    BY <1>1, <1>4
  <2>2. PICK i \in Listed : \A j \in Listed : <<j, i>> \notin OpToRel(<, Nat)
    BY <1>5, <2>1, NatLessThanWellFounded, WFMin
  <2>3. \A j \in Listed : ~(j < i)
    BY <2>1, <2>2 DEF OpToRel
  <2> QED
    BY <2>1, <2>3
<1> QED
  BY <1>4, <1>5 DEF FirstOf

-------------------------------------------------------------------------------
(***************************************************************************)
(* What people and the writes of a pass do to the repository.              *)
(***************************************************************************)
LEMMA FixedIsRight == ASSUME NEW right \in SUBSET Leaves PROVE FixRuleset(right) = Leaves
BY DEF FixRuleset, FixStatusChecks, FixPullRequest, FixRules, FixConditions, FixHead, Leaves

LEMMA FixedSettings == ASSUME NEW flags \in SUBSET RepoFlags PROVE FixSettings(flags) = RepoFlags
BY DEF FixSettings

LEMMA OwnDefaultsAre ==
  ASSUME GhTypeInv
  PROVE  /\ \A i : i \in OwnDefaults <=> i \in 1 .. Len(rulesets) /\ IsOwnDefault(rulesets[i])
         /\ \A i, j \in OwnDefaults : i = j
         /\ DOMAIN rulesets = 1 .. Len(rulesets)
         /\ \A i \in DOMAIN rulesets : rulesets[i] \in Rulesets
BY KeptTypes DEF GhTypeInv, Kept, OwnDefaults, IsOwnDefault

LEMMA NextIdFree ==
  ASSUME GhTypeInv
  PROVE  NextId = 1 + Len(rulesets) + edits /\ NextId \in Nat
<1>1. Len(rulesets) \in Nat /\ DOMAIN rulesets = 1 .. Len(rulesets) /\ edits \in Nat
  <2>1. Kept(rulesets, edits) /\ edits \in Nat
    BY EditAssumption DEF GhTypeInv
  <2> QED
    BY <2>1, KeptTypes, OwnDefaultsAre
<1>2. Cardinality(1 .. Len(rulesets)) = Len(rulesets)
  <2>1. ASSUME NEW n \in Nat PROVE Cardinality(1 .. n) = n
    <3>1. Cardinality(1 .. n) = IF 1 > n THEN 0 ELSE n - 1 + 1
      BY FS_Interval
    <3> QED
      BY <3>1
  <2> QED
    BY <1>1, <2>1
<1>3. NextId = 1 + Len(rulesets) + edits
  BY <1>1, <1>2 DEF NextId
<1> QED
  BY <1>1, <1>3

LEMMA NoRulesetType ==
  /\ NoRuleset \in Rulesets /\ NoRepo \in Repos
  /\ \A id \in Nat, right \in SUBSET Leaves :
       LET r == [NoRuleset EXCEPT !.id = id, !.name = "default", !.right = right] IN
         r \in Rulesets /\ r.id = id /\ IsOwnDefault(r) /\ r.right = right
<1>1. NoRuleset \in Rulesets /\ NoRepo \in Repos
  BY EditAssumption DEF NoRuleset, NoRepo, Rulesets, Repos
<1>2. \A id \in Nat, right \in SUBSET Leaves :
       LET r == [NoRuleset EXCEPT !.id = id, !.name = "default", !.right = right] IN
         r \in Rulesets /\ r.id = id /\ IsOwnDefault(r) /\ r.right = right
  <2> TAKE id \in Nat, right \in SUBSET Leaves
  <2>1. ASSUME NEW q \in Rulesets, q.owner = "repo"
        PROVE  LET r == [q EXCEPT !.id = id, !.name = "default", !.right = right] IN
                 r \in Rulesets /\ r.id = id /\ IsOwnDefault(r) /\ r.right = right
    BY <2>1 DEF Rulesets, IsOwnDefault
  <2>2. NoRuleset.owner = "repo"
    BY DEF NoRuleset
  <2> QED
    BY <1>1, <2>1, <2>2
<1> QED
  BY <1>1, <1>2

LEMMA NoPassType ==
  /\ NoPass \in Passes /\ NoPass.pc = "idle"
  /\ NoPass.began = 0 /\ NoPass.repoAt = 0 /\ NoPass.rulesetAt = 0
<1>1. NoRuleset \in Rulesets /\ NoRepo \in Repos
  BY NoRulesetType
<1> QED
  BY <1>1 DEF NoPass, Passes

LEMMA PeopleType ==
  ASSUME GhTypeInv, People
  PROVE  /\ repo' \in Repos /\ Kept(rulesets', edits') /\ edits' = edits + 1 /\ edits' \in 0 .. MaxEdits
         /\ UNCHANGED <<pass, syncedRepo, settledAt, failures>>
<1>1. edits \in Nat /\ edits' = edits + 1 /\ edits' \in 0 .. MaxEdits /\ edits' \in Nat
  <2>1. Edited
    BY DEF People, EditSettings, EditRuleset, DeleteRuleset, AddRuleset
  <2> QED
    BY <2>1, EditAssumption DEF GhTypeInv, Edited
<1>2. Kept(rulesets, edits) /\ Kept(rulesets, edits') /\ repo \in Repos
  BY <1>1, KeptLater DEF GhTypeInv
<1>3. CASE EditSettings
  BY <1>1, <1>2, <1>3 DEF EditSettings, Repos
<1>4. CASE EditRuleset
  <2>1. PICK i \in DOMAIN rulesets, l \in EditedLeaves :
          rulesets' = [rulesets EXCEPT ![i].right = @ \ {l}, ![i].extra = edits']
    BY <1>4 DEF EditRuleset
  <2>2. i \in 1 .. Len(rulesets) /\ rulesets[i].right \in SUBSET Leaves
    BY <2>1, OwnDefaultsAre DEF Rulesets
  <2> DEFINE right == rulesets[i].right \ {l}
  <2>3. right \in SUBSET Leaves /\ rulesets' = [rulesets EXCEPT ![i].right = right, ![i].extra = edits']
    BY <2>1, <2>2
  <2> HIDE DEF right
  <2> DEFINE qs == [rulesets EXCEPT ![i].right = right, ![i].extra = edits']
  <2>4. Kept(qs, edits')
    BY <1>1, <1>2, <2>2, <2>3, KeptChange
  <2> QED
    BY <1>1, <1>2, <1>4, <2>3, <2>4 DEF EditRuleset
<1>5. CASE DeleteRuleset
  <2>1. PICK i \in 1 .. Len(rulesets) : rulesets' = RemoveAt(rulesets, i)
    BY <1>5, OwnDefaultsAre DEF DeleteRuleset
  <2> QED
    BY <1>1, <1>2, <1>5, <2>1, KeptRemove DEF DeleteRuleset
<1>6. CASE AddRuleset
  <2> DEFINE r == [NoRuleset EXCEPT !.id = NextId, !.name = "default"]
  <2>1. r \in Rulesets /\ r.id = 1 + Len(rulesets) + edits
    BY NextIdFree, NoRulesetType DEF NoRuleset, Rulesets
  <2>2. \A i \in 1 .. Len(rulesets) : ~IsOwnDefault(rulesets[i])
    BY <1>6, OwnDefaultsAre DEF AddRuleset
  <2>3. rulesets' = Append(rulesets, r)
    BY <1>6 DEF AddRuleset
  <2> HIDE DEF r
  <2>4. Kept(rulesets', edits)
    BY <1>1, <1>2, <2>1, <2>2, <2>3, KeptAppend
  <2> QED
    BY <1>1, <1>2, <1>6, <2>4, KeptLater DEF AddRuleset
<1> QED
  BY <1>3, <1>4, <1>5, <1>6 DEF People

LEMMA AppliedCases ==
  /\ Applied /\ pass.pc = "edit" => EditRepo
  /\ Applied /\ pass.pc = "create" => CreateRuleset
  /\ Applied /\ pass.pc = "update" => UpdateRuleset
BY Zenon DEF Applied

LEMMA EditType ==
  ASSUME GhTypeInv, EditRepo
  PROVE  /\ repo' \in Repos /\ repo'.flags = RepoFlags /\ repo'.about = pass.repo.about
         /\ rulesets' = rulesets
<1>1. pass.repo \in Repos
  BY DEF GhTypeInv, Passes
<1>2. FixSettings(pass.repo.flags) = RepoFlags
  BY <1>1, FixedSettings DEF Repos
<1> QED
  BY <1>1, <1>2 DEF EditRepo, Repos

LEMMA CreateType ==
  ASSUME GhTypeInv, CreateRuleset
  PROVE  /\ Kept(rulesets', edits) /\ repo' = repo /\ OwnDefaults = {}
         /\ \A i \in DOMAIN rulesets : i \in DOMAIN rulesets' /\ rulesets'[i] = rulesets[i]
         /\ \E i \in 1 .. Len(rulesets') : IsOwnDefault(rulesets'[i]) /\ rulesets'[i].right = Leaves
<1> DEFINE r == [NoRuleset EXCEPT !.id = NextId, !.name = "default", !.right = JettisonRuleset]
<1>1. r \in Rulesets /\ r.id = 1 + Len(rulesets) + edits /\ IsOwnDefault(r) /\ r.right = Leaves
  BY NextIdFree, NoRulesetType DEF JettisonRuleset
<1>2. rulesets' = Append(rulesets, r) /\ OwnDefaults = {} /\ repo' = repo
  BY DEF CreateRuleset
<1> HIDE DEF r
<1>3. \A i \in 1 .. Len(rulesets) : ~IsOwnDefault(rulesets[i])
  BY <1>2, OwnDefaultsAre
<1>4. Kept(rulesets, edits) /\ edits \in Nat /\ DOMAIN rulesets = 1 .. Len(rulesets) /\ Len(rulesets) \in Nat
  BY OwnDefaultsAre, KeptTypes, EditAssumption DEF GhTypeInv
<1>5. /\ Kept(rulesets', edits) /\ Len(rulesets') = Len(rulesets) + 1
      /\ \A i \in 1 .. Len(rulesets) : rulesets'[i] = rulesets[i]
      /\ rulesets'[Len(rulesets) + 1] = r
  BY <1>1, <1>2, <1>3, <1>4, KeptAppend
<1>6. DOMAIN rulesets' = 1 .. Len(rulesets')
  BY <1>5 DEF Kept
<1>7. Len(rulesets) + 1 \in 1 .. Len(rulesets')
  BY <1>4, <1>5
<1> QED
  BY <1>1, <1>2, <1>4, <1>5, <1>6, <1>7

LEMMA UpdateType ==
  ASSUME GhTypeInv, UpdateRuleset
  PROVE  /\ Kept(rulesets', edits) /\ repo' = repo /\ DOMAIN rulesets' = DOMAIN rulesets
         /\ \E k \in OwnDefaults :
              /\ IdOf(k) = pass.ruleset.id
              /\ \A i \in DOMAIN rulesets : i # k => rulesets'[i] = rulesets[i]
              /\ rulesets'[k].id = IdOf(k) /\ rulesets'[k].extra = pass.ruleset.extra
              /\ k \in 1 .. Len(rulesets') /\ IsOwnDefault(rulesets'[k]) /\ rulesets'[k].right = Leaves
<1>1. PICK k \in OwnDefaults :
        /\ IdOf(k) = pass.ruleset.id /\ repo' = repo
        /\ rulesets' = [rulesets EXCEPT ![k].right = FixRuleset(pass.ruleset.right),
                                        ![k].extra = pass.ruleset.extra]
  BY DEF UpdateRuleset
<1>2. /\ Kept(rulesets, edits) /\ edits \in Nat /\ DOMAIN rulesets = 1 .. Len(rulesets)
      /\ k \in 1 .. Len(rulesets) /\ rulesets[k] \in Rulesets /\ IsOwnDefault(rulesets[k])
  BY <1>1, OwnDefaultsAre, EditAssumption DEF GhTypeInv
<1>3. pass.ruleset \in Rulesets
  BY DEF GhTypeInv, Passes
<1>4. FixRuleset(pass.ruleset.right) = Leaves /\ pass.ruleset.extra \in 0 .. MaxEdits
  BY <1>3, FixedIsRight DEF Rulesets
<1> DEFINE extra == pass.ruleset.extra
           qs == [rulesets EXCEPT ![k].right = Leaves, ![k].extra = extra]
<1>5. rulesets' = qs /\ extra \in 0 .. MaxEdits /\ Leaves \in SUBSET Leaves
  BY <1>1, <1>4
<1> HIDE DEF extra
<1>6. /\ Kept(rulesets', edits) /\ Len(rulesets') = Len(rulesets)
      /\ rulesets'[k] = [rulesets[k] EXCEPT !.right = Leaves, !.extra = extra]
      /\ \A i \in 1 .. Len(rulesets) : i # k => rulesets'[i] = rulesets[i]
      /\ \A i \in 1 .. Len(rulesets) :
           rulesets'[i].id = rulesets[i].id /\ (IsOwnDefault(rulesets'[i]) <=> IsOwnDefault(rulesets[i]))
  <2>1. /\ Kept(qs, edits) /\ Len(qs) = Len(rulesets)
        /\ qs[k] = [rulesets[k] EXCEPT !.right = Leaves, !.extra = extra]
        /\ \A i \in 1 .. Len(rulesets) : i # k => qs[i] = rulesets[i]
        /\ \A i \in 1 .. Len(rulesets) :
             qs[i].id = rulesets[i].id /\ (IsOwnDefault(qs[i]) <=> IsOwnDefault(rulesets[i]))
    BY <1>2, <1>5, KeptChange
  <2> HIDE DEF qs
  <2> QED
    BY <1>5, <2>1
<1>7. rulesets'[k].right = Leaves /\ rulesets'[k].extra = extra
  BY <1>2, <1>6 DEF Rulesets
<1>8. DOMAIN rulesets' = 1 .. Len(rulesets')
  BY <1>6 DEF Kept
<1> QED
  BY <1>1, <1>2, <1>6, <1>7, <1>8 DEF IdOf, extra

-------------------------------------------------------------------------------
(***************************************************************************)
(* Types.                                                                  *)
(***************************************************************************)
LEMMA GhStartInv == GhStart => GhInv
<1> SUFFICES ASSUME NEW flags \in SUBSET RepoFlags, NEW initial, Kept(initial, 0), GhInit(flags, initial)
             PROVE  GhInv
  BY DEF GhStart
<1>1. edits = 0 /\ failures = 0 /\ settledAt = -1 /\ pass = NoPass /\ rulesets = initial /\ MaxEdits \in Nat /\ MaxFailures \in Nat
  BY EditAssumption DEF GhInit
<1>2. repo \in Repos
  BY <1>1 DEF GhInit, Repos
<1>3. GhTypeInv
  <2>1. Kept(rulesets, edits)
    BY <1>1
  <2>2. /\ pass \in Passes /\ pass.pc = "idle"
        /\ pass.began <= edits /\ pass.repoAt <= edits /\ pass.rulesetAt <= edits
    BY <1>1, NoPassType
  <2>3. edits \in 0 .. MaxEdits /\ failures \in 0 .. MaxFailures 
    BY <1>1
  <2>4. settledAt \in Int /\ -1 <= settledAt /\ settledAt <= edits
    BY <1>1
  <2>5. syncedRepo = FALSE
    BY DEF GhInit
  <2> QED
    BY <1>2, <2>1, <2>2, <2>3, <2>4, <2>5 DEF GhTypeInv
<1> QED
  BY <1>1, <1>3, NoPassType DEF GhInv, SettledInv, ReadInv

\* the ruleset whose id the list gives
LEMMA ListType ==
  ASSUME GhTypeInv, ListRulesets
  PROVE  /\ pass' \in Passes /\ pass'.repo = pass.repo /\ pass'.began = pass.began
         /\ pass'.repoAt = pass.repoAt /\ pass'.rulesetAt = pass.rulesetAt
         /\ Listed = {} => pass'.pc = "create"
         /\ Listed # {} => pass'.pc = "read"
<1>1. CASE Listed = {}
  <2>1. pass' = [pass EXCEPT !.pc = "create"]
    BY <1>1 DEF ListRulesets
  <2> QED
    BY <1>1, <2>1 DEF GhTypeInv, Passes, WriteCalls
<1>2. CASE Listed # {}
  <2> DEFINE id == FirstPage[FirstOf(Listed)].id
  <2>1. id \in Nat
    BY <1>2, FirstListed, KeptTypes DEF GhTypeInv, Kept
  <2>2. pass' = [pass EXCEPT !.pc = "read", !.ruleset.id = id]
    BY <1>2 DEF ListRulesets
  <2> HIDE DEF id
  <2>3. [pass.ruleset EXCEPT !.id = id] \in Rulesets
    BY <2>1 DEF GhTypeInv, Passes, Rulesets
  <2>4. pass' = [pass EXCEPT !.pc = "read", !.ruleset = [pass.ruleset EXCEPT !.id = id]]
    BY <2>2
  <2> QED
    BY <1>2, <2>3, <2>4 DEF GhTypeInv, Passes, ReadCalls
<1> QED
  BY <1>1, <1>2

LEMMA FinishType ==
  ASSUME GhTypeInv, Finish
  PROVE  /\ pass' = NoPass /\ syncedRepo' = TRUE
         /\ (settledAt' = edits /\ pass.began = edits) \/ settledAt' = settledAt
BY DEF Finish

LEMMA FailType ==
  ASSUME Fail
  PROVE  /\ pass' \in Passes /\ pass'.pc = "failed"
         /\ pass'.began = 0 /\ pass'.repoAt = 0 /\ pass'.rulesetAt = 0
         /\ UNCHANGED <<syncedRepo, settledAt>>
BY NoPassType DEF Fail, Passes

\* a write that took effect
LEMMA AppliedType ==
  ASSUME GhTypeInv, pass.pc \in WriteCalls, Applied
  PROVE  repo' \in Repos /\ Kept(rulesets', edits)
<1>1. repo \in Repos /\ Kept(rulesets, edits)
  BY DEF GhTypeInv
<1> QED
  BY <1>1, AppliedCases, EditType, CreateType, UpdateType DEF WriteCalls

LEMMA GhTypeStep ==
  ASSUME GhTypeInv, [GhNext]_GhVars
  PROVE  GhTypeInv'
<1>0. /\ edits \in Nat /\ edits \in Int /\ MaxEdits \in Nat /\ MaxFailures \in Nat /\ failures \in Nat
      /\ 0 <= edits /\ failures \in 0 .. MaxFailures
  BY EditAssumption DEF GhTypeInv
<1>1. CASE People
  BY <1>0, <1>1, PeopleType DEF GhTypeInv, Passes
<1>2. CASE BeginPass
  <2>1. pass' \in Passes /\ pass'.pc = "installation" /\ pass'.began = edits /\ pass'.repoAt = 0 /\ pass'.rulesetAt = 0
    BY <1>0, <1>2, NoPassType DEF BeginPass, Passes, ReadCalls
  <2> QED
    BY <1>0, <1>2, <2>1 DEF BeginPass, GhTypeInv
<1>3. CASE FindInstallation
  BY <1>3 DEF FindInstallation, GhTypeInv, Passes, ReadCalls
<1>4. CASE GetRepo
  <2>1. /\ pass' \in Passes /\ pass'.pc \in {"list", "edit"} /\ pass'.began = pass.began
        /\ pass'.repoAt = edits /\ pass'.rulesetAt = pass.rulesetAt
    BY <1>0, <1>4 DEF GetRepo, GhTypeInv, Passes, ReadCalls, WriteCalls
  <2> QED
    BY <1>0, <1>4, <2>1 DEF GetRepo, GhTypeInv
<1>5. CASE ListRulesets
  <2>1. pass'.pc \in {"create", "read"}
    BY <1>5, ListType
  <2> QED
    BY <1>5, <2>1, ListType DEF ListRulesets, GhTypeInv
<1>6. CASE pass' = NoPass /\ settledAt' \in {edits, settledAt} /\ syncedRepo' \in BOOLEAN
           /\ repo' \in Repos /\ Kept(rulesets', edits) /\ edits' = edits /\ failures' \in 0 .. MaxFailures
  BY <1>0, <1>6, NoPassType DEF GhTypeInv
<1>7. CASE Fail /\ repo' \in Repos /\ Kept(rulesets', edits) /\ edits' = edits /\ failures' \in 0 .. MaxFailures
           /\ pass.pc # "idle"
  BY <1>0, <1>7, FailType DEF GhTypeInv
<1>8. CASE ReadRuleset
  <2>1. CASE Finish \/ Fail
    BY <1>0, <1>6, <1>7, <1>8, <2>1, FinishType DEF ReadRuleset, GhTypeInv
  <2>2. ASSUME NEW i \in OwnDefaults, UNCHANGED <<syncedRepo, settledAt>>,
               pass' = [pass EXCEPT !.pc = "update", !.ruleset = rulesets[i], !.rulesetAt = edits]
        PROVE  GhTypeInv'
    <3>1. rulesets[i] \in Rulesets /\ IsOwnDefault(rulesets[i])
      BY OwnDefaultsAre
    <3>2. /\ pass' \in Passes /\ pass'.pc = "update" /\ pass'.ruleset = rulesets[i] /\ pass'.began = pass.began
          /\ pass'.repoAt = pass.repoAt /\ pass'.rulesetAt = edits
      BY <1>0, <2>2, <3>1 DEF GhTypeInv, Passes, WriteCalls
    <3>3. pass.pc = "read" /\ UNCHANGED <<repo, rulesets, edits, failures, syncedRepo, settledAt>>
      BY <1>8, <2>2 DEF ReadRuleset
    <3> QED
      BY <1>0, <3>1, <3>2, <3>3 DEF GhTypeInv
  <2> QED
    BY <1>8, <2>1, <2>2 DEF ReadRuleset
<1>9. CASE Write
  <2>1. CASE Fail
    <3>1. repo' \in Repos /\ Kept(rulesets', edits)
      BY <1>9, AppliedType DEF Write, GhTypeInv
    <3>2. edits' = edits /\ failures' = failures /\ pass.pc # "idle"
      BY <1>9 DEF Write, WriteCalls
    <3> QED
      BY <1>0, <1>7, <2>1, <3>1, <3>2
  <2>2. CASE Finish /\ Applied
    BY <1>0, <1>6, <1>9, <2>2, FinishType, AppliedType DEF Write
  <2>3. CASE Applied /\ pass.pc = "edit" /\ pass' = [pass EXCEPT !.pc = "list"] /\ UNCHANGED <<syncedRepo, settledAt>>
    <3>1. /\ pass' \in Passes /\ pass'.pc = "list" /\ pass'.began = pass.began
          /\ pass'.repoAt = pass.repoAt /\ pass'.rulesetAt = pass.rulesetAt
      BY <2>3 DEF GhTypeInv, Passes, ReadCalls
    <3> QED
      BY <1>0, <1>9, <2>3, <3>1, AppliedType DEF Write, GhTypeInv
  <2> QED
    BY <1>9, <2>1, <2>2, <2>3 DEF Write
<1>10. CASE CallFails
  <2>1. failures' \in 0 .. MaxFailures
    BY <1>0, <1>10 DEF CallFails
  <2>2. repo' \in Repos /\ Kept(rulesets', edits)
    BY <1>10, AppliedType DEF CallFails, GhTypeInv
  <2> QED
    BY <1>7, <1>10, <2>1, <2>2 DEF CallFails, ReadCalls, WriteCalls
<1>11. CASE Requeue
  BY <1>0, <1>6, <1>11 DEF Requeue, GhTypeInv
<1>12. CASE Restart
  <2>1. failures' \in 0 .. MaxFailures
    BY <1>0, <1>12 DEF Restart
  <2> QED
    BY <1>6, <1>12, <2>1 DEF Restart, GhTypeInv
<1>13. CASE UNCHANGED GhVars
  BY <1>13 DEF GhVars, GhTypeInv
<1> QED
  BY <1>1, <1>2, <1>3, <1>4, <1>5, <1>8, <1>9, <1>10, <1>11, <1>12, <1>13 DEF GhNext, PassStep

LEMMA GhTypeInvTypeOK == GhTypeInv => GhTypeOK
<1> SUFFICES ASSUME GhTypeInv PROVE GhTypeOK
  OBVIOUS
<1>0. edits \in Nat
  BY EditAssumption DEF GhTypeInv
<1>1. IdsDistinct
  BY OwnDefaultsAre DEF GhTypeInv, Kept, IdsDistinct, IdOf
<1>2. Cardinality(OwnDefaults) <= 1
  <2>1. CASE OwnDefaults = {}
    BY <2>1, FS_EmptySet
  <2>2. CASE OwnDefaults # {}
    <3>1. PICK x \in OwnDefaults : OwnDefaults = {x}
      BY <2>2, OwnDefaultsAre
    <3> QED
      BY <3>1, FS_Singleton
  <2> QED
    BY <2>1, <2>2
<1>3. /\ pass.pc \in {"idle", "failed"} \cup ReadCalls \cup WriteCalls
      /\ pass.repo \in Repos /\ pass.ruleset \in Rulesets
      /\ pass.began \in Nat /\ pass.repoAt \in Nat /\ pass.rulesetAt \in Nat
  BY DEF GhTypeInv, Passes
<1>4. {pass.began, pass.repoAt, pass.rulesetAt} \subseteq 0 .. edits
  BY <1>0, <1>3 DEF GhTypeInv
<1>5. settledAt \in -1 .. edits
  BY <1>0 DEF GhTypeInv
<1> QED
  BY <1>1, <1>2, <1>3, <1>4, <1>5, OwnDefaultsAre DEF GhTypeInv, GhTypeOK, IsOwnDefault

\* Every state that passes, people and failures can bring about is of the types of the
\* model: GitHub never has two rulesets of one id, nor two defaults of one repository.
THEOREM GhTypes == GhSpec => []GhTypeOK
<1>1. GhTypeInv /\ [GhNext]_GhVars => GhTypeInv'
  BY GhTypeStep
<1>2. GhStart => GhTypeInv
  BY GhStartInv DEF GhInv
<1> QED
  BY <1>1, <1>2, GhTypeInvTypeOK, PTL DEF GhSpec

-------------------------------------------------------------------------------
(***************************************************************************)
(* What a completed pass leaves.                                           *)
(***************************************************************************)
Wanted(rs) == \E i \in 1 .. Len(rs) : IsOwnDefault(rs[i]) /\ rs[i].right = Leaves

LEMMA WantedNow == ASSUME GhTypeInv PROVE AsWanted <=> repo.flags = RepoFlags /\ Wanted(rulesets)
BY OwnDefaultsAre DEF AsWanted, Wanted

LEMMA WantedNext == ASSUME GhTypeInv' PROVE AsWanted' <=> repo'.flags = RepoFlags /\ Wanted(rulesets')
<1>1. DOMAIN rulesets' = 1 .. Len(rulesets')
  BY DEF GhTypeInv, Kept
<1> QED
  BY <1>1 DEF AsWanted, Wanted, OwnDefaults, IsOwnDefault

LEMMA AppliedWanted ==
  ASSUME GhTypeInv, pass.pc \in WriteCalls, Applied
  PROVE  /\ repo.flags = RepoFlags => repo'.flags = RepoFlags
         /\ pass.pc = "edit" => repo'.flags = RepoFlags /\ rulesets' = rulesets
         /\ pass.pc # "edit" => Wanted(rulesets')
         /\ pass.pc = "create" => OwnDefaults = {}
<1>1. CASE pass.pc = "edit"
  BY <1>1, AppliedCases, EditType
<1>2. CASE pass.pc = "create"
  BY <1>2, AppliedCases, CreateType DEF Wanted
<1>3. CASE pass.pc = "update"
  BY <1>3, AppliedCases, UpdateType DEF Wanted
<1> QED
  BY <1>1, <1>2, <1>3 DEF WriteCalls

\* nothing is written once the repository is settled
LEMMA SettledUnwritten ==
  ASSUME GhTypeInv, SettledInv, settledAt = edits, pass.pc \in WriteCalls
  PROVE  ~Applied
<1>1. pass.pc = "create" /\ Wanted(rulesets)
  BY WantedNow DEF SettledInv, WriteCalls
<1>2. OwnDefaults # {}
  BY <1>1, OwnDefaultsAre DEF Wanted
<1> QED
  BY <1>1, <1>2, AppliedWanted

LEMMA SettledStep ==
  ASSUME GhTypeInv, SettledInv, [GhNext]_GhVars
  PROVE  SettledInv'
<1>0. GhTypeInv' /\ edits \in Nat /\ (settledAt = edits => AsWanted)
  BY GhTypeStep, EditAssumption DEF GhTypeInv, SettledInv
<1>1. ASSUME repo' = repo, rulesets' = rulesets
      PROVE  (AsWanted' <=> AsWanted) /\ Listed' = Listed
  BY <1>1 DEF AsWanted, OwnDefaults, Listed, FirstPage
<1>2. ASSUME UNCHANGED <<repo, rulesets, edits, settledAt>>, pass'.pc \notin {"list", "create", "read", "update", "edit"}
      PROVE  SettledInv'
  BY <1>0, <1>1, <1>2 DEF SettledInv
<1>3. CASE People
  <2>1. edits' = edits + 1 /\ pass' = pass /\ settledAt' = settledAt
    BY <1>3, PeopleType
  <2>2. pass.began \in Nat /\ pass.began <= edits /\ settledAt \in Int /\ settledAt <= edits
    BY DEF GhTypeInv, Passes
  <2>3. pass'.began # edits' /\ settledAt' # edits'
    BY <1>0, <2>1, <2>2
  <2> QED
    BY <2>3 DEF SettledInv
<1>4. CASE BeginPass \/ FindInstallation \/ Requeue \/ Restart
  <2>1. pass'.pc \in {"idle", "installation", "get"}
    BY <1>4, NoPassType DEF BeginPass, FindInstallation, Requeue, Restart, Passes, GhTypeInv
  <2> QED
    BY <1>2, <1>4, <2>1 DEF BeginPass, FindInstallation, Requeue, Restart
<1>5. CASE GetRepo
  <2>1. /\ pass'.pc = (IF FixSettings(repo.flags) = repo.flags THEN "list" ELSE "edit")
        /\ pass'.began = pass.began /\ UNCHANGED <<repo, rulesets, edits, settledAt>>
    BY <1>5 DEF GetRepo, Passes, GhTypeInv
  <2>2. FixSettings(repo.flags) = RepoFlags
    BY FixedSettings DEF GhTypeInv, Repos
  <2>3. AsWanted => repo.flags = RepoFlags
    BY DEF AsWanted
  <2> QED
    BY <1>0, <1>1, <2>1, <2>2, <2>3 DEF SettledInv
<1>6. CASE ListRulesets
  <2>1. /\ pass.pc = "list" /\ pass'.began = pass.began /\ UNCHANGED <<repo, rulesets, edits, settledAt>>
        /\ pass'.pc = "create" => Listed = {}
        /\ pass'.pc \in {"create", "read"}
    BY <1>6, ListType DEF ListRulesets
  <2> QED
    BY <1>0, <1>1, <2>1 DEF SettledInv
<1>7. ASSUME Finish, edits' = edits, Wanted(rulesets'), repo.flags = RepoFlags => repo'.flags = RepoFlags,
             pass.pc \in {"read", "create", "update"}
      PROVE  SettledInv'
  <2>1. pass'.pc = "idle" /\ ((settledAt' = edits /\ pass.began = edits) \/ settledAt' = settledAt)
    BY <1>7, NoPassType, FinishType
  <2>2. settledAt' = edits => repo.flags = RepoFlags
    BY <1>0, <1>7, <2>1 DEF SettledInv, AsWanted
  <2>3. settledAt' = edits' => AsWanted'
    BY <1>0, <1>7, <2>2, WantedNext
  <2> QED
    BY <2>1, <2>3 DEF SettledInv
<1>8. CASE ReadRuleset
  <2>1. pass.pc = "read" /\ UNCHANGED <<repo, rulesets, edits>>
    BY <1>8 DEF ReadRuleset
  <2>2. CASE Fail
    BY <1>2, <2>1, <2>2, FailType
  <2>3. ASSUME NEW i \in OwnDefaults
        PROVE  /\ i \in 1 .. Len(rulesets) /\ IsOwnDefault(rulesets[i])
               /\ FixRuleset(rulesets[i].right) = Leaves
               /\ AsWanted => rulesets[i].right = Leaves
    <3>1. rulesets[i].right \in SUBSET Leaves /\ i \in 1 .. Len(rulesets) /\ IsOwnDefault(rulesets[i])
      BY OwnDefaultsAre DEF Rulesets
    <3> QED
      BY <3>1, FixedIsRight, OwnDefaultsAre DEF AsWanted
  <2>4. ASSUME NEW i \in OwnDefaults, FixRuleset(rulesets[i].right) = rulesets[i].right, Finish
        PROVE  SettledInv'
    BY <1>7, <2>1, <2>3, <2>4 DEF Wanted
  <2>5. ASSUME NEW i \in OwnDefaults, FixRuleset(rulesets[i].right) # rulesets[i].right,
               pass' = [pass EXCEPT !.pc = "update", !.ruleset = rulesets[i], !.rulesetAt = edits],
               UNCHANGED <<syncedRepo, settledAt>>
        PROVE  SettledInv'
    <3>1. pass'.pc = "update" /\ pass'.began = pass.began
      BY <2>5 DEF GhTypeInv, Passes
    <3>2. settledAt' # edits'
      BY <1>0, <2>1, <2>3, <2>5
    <3> QED
      BY <2>1, <3>1, <3>2 DEF SettledInv
  <2> QED
    BY <1>8, <2>2, <2>4, <2>5 DEF ReadRuleset
<1>9. CASE Write
  <2>1. pass.pc \in WriteCalls /\ edits' = edits
    BY <1>9 DEF Write
  <2>2. CASE Applied /\ pass.pc = "edit"
    <3>1. pass'.pc = "list" /\ pass'.began = pass.began /\ settledAt' = settledAt
      BY <1>9, <2>2 DEF Write, GhTypeInv, Passes, WriteRefused
    <3>2. settledAt' # edits'
      BY <2>1, <2>2, <3>1, SettledUnwritten
    <3> QED
      BY <2>1, <2>2, <3>1, <3>2, AppliedWanted DEF SettledInv
  <2>3. CASE Applied /\ pass.pc # "edit" /\ Finish
    BY <1>7, <2>1, <2>3, AppliedWanted DEF WriteCalls
  <2>4. CASE Fail /\ UNCHANGED <<repo, rulesets>>
    BY <1>2, <2>1, <2>4, FailType
  <2> QED
    BY <1>9, <2>2, <2>3, <2>4 DEF Write
<1>10. CASE CallFails
  <2>1. pass'.pc = "failed" /\ settledAt' = settledAt /\ edits' = edits
    BY <1>10, FailType DEF CallFails
  <2>2. settledAt = edits => UNCHANGED <<repo, rulesets>>
    BY <1>10, SettledUnwritten DEF CallFails
  <2> QED
    BY <1>0, <1>1, <2>1, <2>2 DEF SettledInv
<1>11. CASE UNCHANGED GhVars
  BY <1>1, <1>11 DEF GhVars, SettledInv
<1> QED
  BY <1>3, <1>4, <1>5, <1>6, <1>8, <1>9, <1>10, <1>11 DEF GhNext, PassStep

LEMMA ReadStep ==
  ASSUME GhTypeInv, ReadInv, [GhNext]_GhVars
  PROVE  ReadInv'
<1>0. edits \in Nat
  BY EditAssumption DEF GhTypeInv
<1>1. CASE People
  <2>1. edits' = edits + 1 /\ pass' = pass
    BY <1>1, PeopleType
  <2>2. pass.repoAt \in Nat /\ pass.repoAt <= edits /\ pass.rulesetAt \in Nat /\ pass.rulesetAt <= edits
    BY DEF GhTypeInv, Passes
  <2>3. pass'.repoAt # edits' /\ pass'.rulesetAt # edits'
    BY <1>0, <2>1, <2>2
  <2> QED
    BY <2>3 DEF ReadInv
<1>2. CASE pass'.pc \notin {"edit", "update"}
  BY <1>2 DEF ReadInv
<1>3. CASE BeginPass \/ FindInstallation \/ Requeue \/ Restart
  BY <1>2, <1>3, NoPassType DEF BeginPass, FindInstallation, Requeue, Restart, Passes, GhTypeInv
<1>4. CASE GetRepo
  <2>1. pass'.pc # "update" /\ pass'.repo = repo /\ repo' = repo
    BY <1>4 DEF GetRepo, Passes, GhTypeInv
  <2> QED
    BY <2>1 DEF ReadInv
<1>5. CASE ListRulesets
  BY <1>2, <1>5, ListType
<1>6. CASE Finish \/ Fail
  BY <1>2, <1>6, FinishType, FailType, NoPassType
<1>7. CASE ReadRuleset /\ ~Finish /\ ~Fail
  <2>1. PICK i \in OwnDefaults : pass' = [pass EXCEPT !.pc = "update", !.ruleset = rulesets[i], !.rulesetAt = edits]
    BY <1>7 DEF ReadRuleset
  <2>2. pass'.pc = "update" /\ pass'.ruleset = rulesets[i] /\ rulesets' = rulesets
    BY <1>7, <2>1 DEF ReadRuleset, GhTypeInv, Passes
  <2>3. \A j \in OwnDefaults : j = i
    BY OwnDefaultsAre
  <2>4. OwnDefaults' = OwnDefaults
    BY <2>2 DEF OwnDefaults
  <2> QED
    BY <2>2, <2>3, <2>4 DEF ReadInv
<1>8. CASE Write /\ ~Finish /\ ~Fail
  BY <1>2, <1>8 DEF Write, GhTypeInv, Passes
<1>9. CASE CallFails
  BY <1>6, <1>9 DEF CallFails
<1>10. CASE UNCHANGED GhVars
  BY <1>10 DEF GhVars, ReadInv, OwnDefaults, IdOf
<1> QED
  BY <1>1, <1>3, <1>4, <1>5, <1>6, <1>7, <1>8, <1>9, <1>10 DEF GhNext, PassStep

LEMMA GhInvStep == GhInv /\ [GhNext]_GhVars => GhInv'
BY GhTypeStep, SettledStep, ReadStep DEF GhInv

\* A pass whose writes went through leaves the repository as wanted, if nobody edited
\* it during the pass: whatever was there before, whatever call failed, and whichever
\* answer of a write was lost.
THEOREM SyncedRepositoriesAreRight == GhSpec => []SyncedMeansRight
<1>1. GhInv => SyncedMeansRight
  BY DEF GhInv, SettledInv, SyncedMeansRight
<1> QED
  BY <1>1, GhStartInv, GhInvStep, PTL DEF GhSpec

\* A pass that follows a completed one, with no edit in between, writes nothing: what
\* is created and what is written satisfies every check of the next pass, as long as
\* the default ruleset is not hidden from it.
THEOREM SecondPassWritesNothing == GhSpec => []SecondPassQuiet
<1>1. ASSUME GhInv, settledAt = edits, ~DefaultHidden PROVE pass.pc \notin {"edit", "create", "update"}
  <2>1. OwnDefaults # {} /\ pass.pc \notin {"edit", "update"} /\ (pass.pc = "create" => Listed = {})
    BY <1>1 DEF GhInv, SettledInv, AsWanted
  <2> QED
    BY <1>1, <2>1 DEF DefaultHidden
<1>2. GhInv => SecondPassQuiet
  BY <1>1 DEF SecondPassQuiet
<1> QED
  BY <1>2, GhStartInv, GhInvStep, PTL DEF GhSpec

LEMMA KeepsOthersStep ==
  ASSUME GhInv, [GhNext]_GhVars, edits' = edits
  PROVE  /\ repo'.about = repo.about \/ pass.repoAt < edits
         /\ \A i \in DOMAIN rulesets :
              /\ i \in DOMAIN rulesets'
              /\ Sameness(i) \/ (i \in OwnDefaults /\ pass.rulesetAt < edits)
              /\ i \in OwnDefaults \/ rulesets'[i] = rulesets[i]
<1> USE DEF GhInv
<1>0. /\ edits \in Nat /\ pass.repoAt \in Nat /\ pass.repoAt <= edits
      /\ pass.rulesetAt \in Nat /\ pass.rulesetAt <= edits
  BY EditAssumption DEF GhTypeInv, Passes
<1>1. UNCHANGED <<repo, rulesets>> \/ (pass.pc \in WriteCalls /\ Applied)
  <2>1. ~People
    BY <1>0, PeopleType
  <2> QED
    BY <2>1 DEF GhNext, PassStep, BeginPass, FindInstallation, GetRepo, ListRulesets, ReadRuleset, Write,
       CallFails, Requeue, Restart, GhVars
<1>2. CASE UNCHANGED <<repo, rulesets>>
  BY <1>2 DEF Sameness, IdOf
<1>3. CASE pass.pc = "edit" /\ Applied
  <2>1. rulesets' = rulesets /\ repo'.about = pass.repo.about
    BY <1>3, AppliedCases, EditType
  <2>2. repo'.about = repo.about \/ pass.repoAt < edits
    BY <1>0, <1>3, <2>1 DEF ReadInv
  <2> QED
    BY <2>1, <2>2 DEF Sameness, IdOf
<1>4. CASE pass.pc = "create" /\ Applied
  BY <1>4, AppliedCases, CreateType DEF Sameness, IdOf
<1>5. CASE pass.pc = "update" /\ Applied
  <2>1. PICK k \in OwnDefaults :
          /\ repo' = repo /\ DOMAIN rulesets' = DOMAIN rulesets /\ IdOf(k) = pass.ruleset.id
          /\ \A i \in DOMAIN rulesets : i # k => rulesets'[i] = rulesets[i]
          /\ rulesets'[k].id = IdOf(k) /\ rulesets'[k].extra = pass.ruleset.extra
    BY <1>5, AppliedCases, UpdateType
  <2>2. Sameness(k) \/ pass.rulesetAt < edits
    BY <1>0, <1>5, <2>1 DEF ReadInv, Sameness
  <2> QED
    BY <2>1, <2>2 DEF Sameness, IdOf
<1> QED
  BY <1>1, <1>2, <1>3, <1>4, <1>5 DEF WriteCalls

\* A write of a pass does not undo what people set outside its concern, in the
\* repository, in the default ruleset or in another, unless they did so after the pass
\* had read the object that it writes back whole.
THEOREM OthersSettingsKept == GhSpec => KeepsOthers
<1>1. GhInv /\ [GhNext]_GhVars =>
        [edits' = edits =>
           /\ repo'.about = repo.about \/ pass.repoAt < edits
           /\ \A i \in DOMAIN rulesets :
                /\ i \in DOMAIN rulesets'
                /\ Sameness(i) \/ (i \in OwnDefaults /\ pass.rulesetAt < edits)
                /\ i \in OwnDefaults \/ rulesets'[i] = rulesets[i]]_GhVars
  BY KeepsOthersStep
<1> QED
  BY <1>1, GhStartInv, GhInvStep, PTL DEF GhSpec, KeepsOthers
===============================================================================
