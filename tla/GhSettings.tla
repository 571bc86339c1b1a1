------------------------------- MODULE GhSettings -------------------------------
(***************************************************************************)
(* SyncGitHubSettingsForRepo (internal/controller/ghsettings): one pass    *)
(* reads the settings and the rulesets of a repository at GitHub and       *)
(* writes back whole objects in which what is not as wanted is corrected.  *)
(* A pass is a sequence of calls: each may fail, the answer of a write may *)
(* be lost, the process may restart between any two, and people edit the   *)
(* same repository meanwhile.  The reconciler repeats a failed pass, and   *)
(* never repeats one that succeeded (SyncedRepos) in the same process.     *)
(*                                                                         *)
(* Abstracted: a setting is in the set of those at their wanted value or   *)
(* not, and an unset (nil) parent is all of its settings not as wanted;    *)
(* everything the code does not look at is one version number (about,      *)
(* extra).  Ghosts of the model are the stamps of a pass: the number of    *)
(* edits at the time it began and at the time it read each object.         *)
(* Bounds: MaxEdits edits by people, MaxFailures failures and restarts.    *)
(***************************************************************************)
EXTENDS Integers, Sequences, FiniteSets, SequencesExt

CONSTANTS PageSize,      \* the rulesets in the first page of the list
          MaxEdits, MaxFailures,
          EditedFlags,   \* the repository settings people change
          EditedLeaves   \* the ruleset settings people change

--------------------------------------------------------------------------------
(* What is wanted.                                                            *)

RepoFlags == {"allowMergeCommit", "allowSquashMerge", "allowRebaseMerge",
              "allowUpdateBranch", "allowAutoMerge", "deleteBranchOnMerge"}

HeadLeaves == {"target", "sourceType", "enforcement"}
ConditionLeaves == {"include", "exclude"}
RuleLeaves == {"requiredLinearHistory", "deletion", "nonFastForward"}
PullRequestLeaves == {"allowedMergeMethods", "dismissStaleReviewsOnPush",
                      "requireCodeOwnerReview", "requireLastPushApproval",
                      "requiredApprovingReviewCount", "requiredReviewThreadResolution"}
StatusCheckLeaves == {"doNotEnforceOnCreate", "requiredStatusChecks",
                      "strictRequiredStatusChecksPolicy"}
Leaves == HeadLeaves \cup ConditionLeaves \cup RuleLeaves \cup PullRequestLeaves
            \cup StatusCheckLeaves

ASSUME EditAssumption ==
  /\ PageSize \in Nat \ {0} /\ MaxEdits \in Nat /\ MaxFailures \in Nat
  /\ EditedFlags \subseteq RepoFlags /\ EditedLeaves \subseteq Leaves

\* Each setting that is not as wanted is corrected; the object is written back
\* only if there was one (hasDiff).
FixSettings(flags) == flags \cup RepoFlags

FixHead(right) == right \cup HeadLeaves
FixConditions(right) == right \cup ConditionLeaves
\* One of the rules is not looked at.
FixRules_noForce(right) == right \cup (RuleLeaves \ {"nonFastForward"})
FixRules(right) == right \cup RuleLeaves
FixPullRequest(right) == right \cup PullRequestLeaves
FixStatusChecks(right) == right \cup StatusCheckLeaves
FixRuleset(right) ==
  FixStatusChecks(FixPullRequest(FixRules(FixConditions(FixHead(right)))))

\* The ruleset that is created when there is none.
JettisonRuleset_partial == Leaves \ {"sourceType"}
JettisonRuleset == Leaves

--------------------------------------------------------------------------------
VARIABLES
  repo,       \* GitHub: the settings as wanted, the rest of the object
  rulesets,   \* GitHub: the rulesets of the repository and of its organisation
  pass,       \* the call in progress and what it has read
  syncedRepo, \* is the repository in SyncedRepos?
  settledAt,  \* ghost: the edits that a pass without any edit in it came after
  edits,      \* how often people have edited the repository
  failures    \* calls that failed, and restarts

GhVars == <<repo, rulesets, pass, syncedRepo, settledAt, edits, failures>>

Repos == [flags : SUBSET RepoFlags, about : 0 .. MaxEdits]
Rulesets == [id : Nat, name : {"default", "other"}, owner : {"repo", "org"},
             right : SUBSET Leaves, extra : 0 .. MaxEdits]
ReadCalls == {"installation", "get", "list", "read"}
WriteCalls == {"edit", "create", "update"}

NoRepo == [flags |-> {}, about |-> 0]
NoRuleset == [id |-> 0, name |-> "other", owner |-> "repo", right |-> {}, extra |-> 0]
NoPass == [pc |-> "idle", repo |-> NoRepo, ruleset |-> NoRuleset,
           began |-> 0, repoAt |-> 0, rulesetAt |-> 0]

IdOf(i) == rulesets[i].id
IdsDistinct == \A i, j \in DOMAIN rulesets : IdOf(i) = IdOf(j) => i = j
OwnDefaults == {i \in DOMAIN rulesets : rulesets[i].name = "default" /\ rulesets[i].owner = "repo"}

GhTypeOK ==
  /\ repo \in Repos
  /\ \A i \in DOMAIN rulesets : rulesets[i] \in Rulesets
  /\ IdsDistinct
  /\ Cardinality(OwnDefaults) <= 1
  /\ pass.pc \in {"idle", "failed"} \cup ReadCalls \cup WriteCalls
  /\ pass.repo \in Repos /\ pass.ruleset \in Rulesets
  /\ pass.pc = "update" => pass.ruleset.name = "default" /\ pass.ruleset.owner = "repo"
  /\ {pass.began, pass.repoAt, pass.rulesetAt} \subseteq 0 .. edits
  /\ settledAt \in -1 .. edits
  /\ syncedRepo \in BOOLEAN /\ (syncedRepo => pass.pc = "idle")
  /\ edits \in 0 .. MaxEdits /\ failures \in 0 .. MaxFailures

GhInit(flags, initial) ==
  /\ repo = [flags |-> flags, about |-> 0]
  /\ rulesets = initial
  /\ pass = NoPass
  /\ syncedRepo = FALSE
  /\ settledAt = -1
  /\ edits = 0
  /\ failures = 0

NextId == 1 + Cardinality(DOMAIN rulesets) + edits
FirstPage == SubSeq(rulesets, 1, IF PageSize < Len(rulesets) THEN PageSize ELSE Len(rulesets))
Listed == {i \in DOMAIN FirstPage : FirstPage[i].name = "default"}
FirstOf(S) == CHOOSE i \in S : \A j \in S : i <= j

--------------------------------------------------------------------------------
(* People.                                                                    *)

Edited == edits < MaxEdits /\ edits' = edits + 1

EditSettings ==
  /\ Edited
  /\ \E f \in EditedFlags : repo' = [flags |-> repo.flags \ {f}, about |-> edits']
  /\ UNCHANGED <<rulesets, pass, syncedRepo, settledAt, failures>>

EditRuleset ==
  /\ Edited
  /\ \E i \in DOMAIN rulesets, l \in EditedLeaves :
       rulesets' = [rulesets EXCEPT ![i].right = @ \ {l}, ![i].extra = edits']
  /\ UNCHANGED <<repo, pass, syncedRepo, settledAt, failures>>

DeleteRuleset ==
  /\ Edited
  /\ \E i \in DOMAIN rulesets : rulesets' = RemoveAt(rulesets, i)
  /\ UNCHANGED <<repo, pass, syncedRepo, settledAt, failures>>

AddRuleset ==
  /\ Edited /\ OwnDefaults = {}
  /\ rulesets' = Append(rulesets, [NoRuleset EXCEPT !.id = NextId, !.name = "default"])
  /\ UNCHANGED <<repo, pass, syncedRepo, settledAt, failures>>

People == EditSettings \/ EditRuleset \/ DeleteRuleset \/ AddRuleset

--------------------------------------------------------------------------------
(* A pass: the reconciler's call, and the calls of GitHub it makes in turn.   *)

BeginPass ==
  /\ pass.pc = "idle" /\ ~syncedRepo
  /\ pass' = [NoPass EXCEPT !.pc = "installation", !.began = edits]
  /\ UNCHANGED <<repo, rulesets, syncedRepo, settledAt, edits, failures>>

FindInstallation ==
  /\ pass.pc = "installation"
  /\ pass' = [pass EXCEPT !.pc = "get"]
  /\ UNCHANGED <<repo, rulesets, syncedRepo, settledAt, edits, failures>>

GetRepo ==
  /\ pass.pc = "get"
  /\ pass' = [pass EXCEPT !.pc = IF FixSettings(repo.flags) = repo.flags THEN "list" ELSE "edit",
                          !.repo = repo, !.repoAt = edits]
  /\ UNCHANGED <<repo, rulesets, syncedRepo, settledAt, edits, failures>>

\* The ruleset in the list is taken for the full one: what the list omits is lost.
ListRulesets_summary ==
  /\ pass.pc = "list"
  /\ IF Listed = {}
       THEN pass' = [pass EXCEPT !.pc = "create"]
       ELSE LET r == FirstPage[FirstOf(Listed)]
            IN pass' = [pass EXCEPT !.pc = IF r.right = Leaves THEN "read" ELSE "update",
                                    !.ruleset = [r EXCEPT !.extra = 0], !.rulesetAt = edits]
  /\ UNCHANGED <<repo, rulesets, syncedRepo, settledAt, edits, failures>>

\* Only the first page is read, and it has the organisation's rulesets as well.
ListRulesets ==
  /\ pass.pc = "list"
  /\ pass' = IF Listed = {}
               THEN [pass EXCEPT !.pc = "create"]
               ELSE [pass EXCEPT !.pc = "read", !.ruleset.id = FirstPage[FirstOf(Listed)].id]
  /\ UNCHANGED <<repo, rulesets, syncedRepo, settledAt, edits, failures>>

\* The pass goes on from where it was.
Finish_again ==
  /\ syncedRepo' = TRUE
  /\ settledAt' = IF pass.began = edits THEN edits ELSE settledAt
  /\ UNCHANGED pass

Finish ==
  /\ syncedRepo' = TRUE
  /\ settledAt' = IF pass.began = edits THEN edits ELSE settledAt
  /\ pass' = NoPass

Fail == pass' = [NoPass EXCEPT !.pc = "failed"] /\ UNCHANGED <<syncedRepo, settledAt>>

\* GetRuleset with includesParents false does not find one of the organisation,
\* nor one that was deleted since.
ReadRuleset ==
  /\ pass.pc = "read"
  /\ \/ \E i \in OwnDefaults :
          /\ IdOf(i) = pass.ruleset.id
          /\ IF FixRuleset(rulesets[i].right) = rulesets[i].right
               THEN Finish
               ELSE /\ pass' = [pass EXCEPT !.pc = "update", !.ruleset = rulesets[i],
                                            !.rulesetAt = edits]
                    /\ UNCHANGED <<syncedRepo, settledAt>>
     \/ (\A i \in OwnDefaults : IdOf(i) # pass.ruleset.id) /\ Fail
  /\ UNCHANGED <<repo, rulesets, edits, failures>>

\* The effect of a write at GitHub, for the object that was read.
EditRepo ==
  repo' = [flags |-> FixSettings(pass.repo.flags), about |-> pass.repo.about] /\ UNCHANGED rulesets

CreateRuleset ==
  /\ OwnDefaults = {}
  /\ rulesets' = Append(rulesets, [NoRuleset EXCEPT !.id = NextId, !.name = "default",
                                                    !.right = JettisonRuleset])
  /\ UNCHANGED repo

UpdateRuleset ==
  \E i \in OwnDefaults :
    /\ IdOf(i) = pass.ruleset.id
    /\ rulesets' = [rulesets EXCEPT ![i].right = FixRuleset(pass.ruleset.right),
                                    ![i].extra = pass.ruleset.extra]
    /\ UNCHANGED repo

Applied == CASE pass.pc = "edit" -> EditRepo
             [] pass.pc = "create" -> CreateRuleset
             [] pass.pc = "update" -> UpdateRuleset

\* GitHub has one ruleset of a name per repository, and none of an id once deleted.
WriteRefused ==
  \/ pass.pc = "create" /\ OwnDefaults # {}
  \/ pass.pc = "update" /\ \A i \in OwnDefaults : IdOf(i) # pass.ruleset.id

Write ==
  /\ pass.pc \in WriteCalls
  /\ \/ /\ Applied
        /\ IF pass.pc = "edit"
             THEN pass' = [pass EXCEPT !.pc = "list"] /\ UNCHANGED <<syncedRepo, settledAt>>
             ELSE Finish
     \/ WriteRefused /\ Fail /\ UNCHANGED <<repo, rulesets>>
  /\ UNCHANGED <<edits, failures>>

\* The call fails, or it was a write and only its answer is lost.
CallFails ==
  /\ pass.pc \in ReadCalls \cup WriteCalls /\ failures < MaxFailures
  /\ failures' = failures + 1
  /\ Fail
  /\ \/ UNCHANGED <<repo, rulesets>>
     \/ pass.pc \in WriteCalls /\ Applied
  /\ UNCHANGED edits

\* A failed pass is not repeated.
Requeue_never == FALSE /\ UNCHANGED GhVars

\* Reconcile returns the error: it is called again.
Requeue ==
  /\ pass.pc = "failed"
  /\ pass' = NoPass
  /\ UNCHANGED <<repo, rulesets, syncedRepo, settledAt, edits, failures>>

\* A new process: SyncedRepos is empty.
Restart ==
  /\ failures < MaxFailures
  /\ failures' = failures + 1
  /\ syncedRepo' = FALSE
  /\ pass' = NoPass
  /\ UNCHANGED <<repo, rulesets, settledAt, edits>>

PassStep == BeginPass \/ FindInstallation \/ GetRepo \/ ListRulesets \/ ReadRuleset \/ Write

GhNext == People \/ PassStep \/ CallFails \/ Requeue \/ Restart

\* The reconciler's worker runs, its requests return, and a failed reconcile is
\* queued again; nobody has to edit anything.
GhFairness == WF_GhVars(PassStep) /\ WF_GhVars(Requeue)

--------------------------------------------------------------------------------
(* Properties.                                                                *)

\* A pass whose writes went through leaves the repository as wanted, if nobody
\* edited it during the pass: every setting and a "default" ruleset of its own
\* with every rule (ghsettings.go:98-563), whatever was there before.
AsWanted ==
  /\ repo.flags = RepoFlags
  /\ \E i \in OwnDefaults : rulesets[i].right = Leaves
SyncedMeansRight == settledAt = edits => AsWanted

\* The ruleset of the repository is behind one of the organisation with its name,
\* or beyond the first page of the list.
DefaultHidden ==
  \/ Listed # {} /\ FirstOf(Listed) \notin OwnDefaults
  \/ Listed = {} /\ OwnDefaults # {}

\* A pass that follows a completed one, with no edit in between, writes nothing:
\* what is created and what is written satisfies every check of the next pass
\* (ghsettings.go:237, 542: "already in sync").  Not so once the ruleset is hidden.
SecondPassQuiet ==
  settledAt = edits /\ ~DefaultHidden => pass.pc \notin {"edit", "create", "update"}

\* A write of the pass does not undo what people set outside its concern, in the
\* repository, in the default ruleset or in another ruleset, unless they did so
\* after the pass read the object (ghsettings.go:233, 538 write whole objects).
Sameness(i) == rulesets'[i].id = IdOf(i) /\ rulesets'[i].extra = rulesets[i].extra
KeepsOthers ==
  [][edits' = edits =>
       /\ repo'.about = repo.about \/ pass.repoAt < edits
       /\ \A i \in DOMAIN rulesets :
            /\ i \in DOMAIN rulesets'
            /\ Sameness(i) \/ (i \in OwnDefaults /\ pass.rulesetAt < edits)
            /\ i \in OwnDefaults \/ rulesets'[i] = rulesets[i]]_GhVars

\* Failures, lost answers and restarts do not keep the repository from being
\* synced, unless its default ruleset is hidden from the pass, whose call of
\* GetRuleset or CreateRuleset then fails every time (ghsettings.go:246-271).
GhSettles == []<>(syncedRepo \/ DefaultHidden)
================================================================================
