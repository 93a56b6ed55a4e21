------------------------------ MODULE Branching ------------------------------
(***************************************************************************)
(* ContextBranchingStrategy: the dialogue of an agent as a set of branches,*)
(* one of them current, kept as one value in the agent's context row.      *)
(* Turns and commands read the value, make a new one of it and write it    *)
(* back; between a turn's first read and its save the LLM answers.         *)
(*                                                                         *)
(* A branch is the sequence of the turns saved in it (a turn stands for    *)
(* its prompt, tool calls and answer).  The agent has the strategy from    *)
(* the start: setup_branches was given once, for an agent with no history. *)
(*                                                                         *)
(* (The parts of the specification have names of their own: the theorems   *)
(* are proved beside those about the registry of agents.)                  *)
(***************************************************************************)
EXTENDS Naturals, Sequences, SequencesExt

CONSTANTS
    Turns,      \* messages to the agent
    Commands,   \* commands given by the user
    Branches,   \* names of branches
    NoBranch    \* what containsKey does not find

ASSUME BranchAssumption ==
    /\ NoBranch \notin Seq(Turns)
    /\ Turns \cap Commands = {}

VARIABLES
    overlapping, \* may one begin while another runs?  Fixed at the start
    row,         \* the AContextState.Branching in the context row
    main,        \* AContextParams.Branching.defaultBranchId in its settings
    where,       \* where[p]: where turn or command p is
    snapshot,    \* snapshot[t]: the history t's request was made with
    toSave,      \* toSave[p]: the state p is about to write
    command      \* command[c]: the command c gives

branchVars == <<overlapping, row, main, where, snapshot, toSave, command>>

Doers == Turns \cup Commands

State == [branches : [Branches -> Seq(Turns) \cup {NoBranch}],
          currentBranchId : Branches,
          defaultBranchId : Branches]

Verbs == {"new_branch", "switch_branch", "delete_branch", "setup_branches"}

CommandOf == [verb : Verbs, id : Branches]

(* The one branch of createInitialState.                                   *)
OneBranch(b) ==
    [branches |-> [x \in Branches |-> IF x = b THEN <<>> ELSE NoBranch],
     currentBranchId |-> b, defaultBranchId |-> b]

BranchTypeOK ==
    /\ overlapping \in BOOLEAN
    /\ row \in State
    /\ main \in Branches
    /\ where \in [Doers -> {"new", "asking", "saving", "done"}]
    /\ snapshot \in [Turns -> Seq(Turns)]
    /\ toSave \in [Doers -> State]
    /\ command \in [Commands -> CommandOf]

BranchInit ==
    \E b \in Branches :
      /\ overlapping \in BOOLEAN
      /\ row = OneBranch(b)
      /\ main = b
      /\ where = [p \in Doers |-> "new"]
      /\ snapshot = [t \in Turns |-> <<>>]
      /\ toSave = [p \in Doers |-> OneBranch(b)]
      /\ command \in [Commands -> CommandOf]

-----------------------------------------------------------------------------
Has(state, b) == state.branches[b] # NoBranch

MessagesOf(state, b) == IF Has(state, b) THEN state.branches[b] ELSE <<>>

CurrentMessages(state) == MessagesOf(state, state.currentBranchId)

WithBranch(state, b, ms) ==
    [branches |-> [x \in Branches |-> IF x = b THEN ms ELSE state.branches[x]],
     currentBranchId |-> state.currentBranchId,
     defaultBranchId |-> state.defaultBranchId]

WithCurrent(state, b) ==
    [branches |-> state.branches, currentBranchId |-> b,
     defaultBranchId |-> state.defaultBranchId]

MayStart(p) ==
    where[p] = "new" /\ (overlapping \/ \A q \in Doers : where[q] \in {"new", "done"})

(* process                                                                 *)
Ask(t) ==
    /\ MayStart(t)
    /\ snapshot' = [snapshot EXCEPT ![t] = CurrentMessages(row)]
    /\ where' = [where EXCEPT ![t] = "asking"]
    /\ UNCHANGED <<overlapping, row, main, toSave, command>>

RequestFails(t) ==
    /\ where[t] = "asking"
    /\ where' = [where EXCEPT ![t] = "done"]
    /\ UNCHANGED <<overlapping, row, main, snapshot, toSave, command>>

(* Mutant of Target: the turn goes to the main branch.                     *)
DefaultTarget(state) == state.defaultBranchId

Target(state) == state.currentBranchId

(* Mutant of AfterResponse: the turn is added to the branch as it is now.  *)
AfterResponseAdds(t) ==
    /\ where[t] = "asking"
    /\ toSave' = [toSave EXCEPT ![t] =
         WithBranch(row, Target(row), Append(CurrentMessages(row), t))]
    /\ where' = [where EXCEPT ![t] = "saving"]
    /\ UNCHANGED <<overlapping, row, main, snapshot, command>>

(* afterResponse: the state and the current branch are read again.         *)
AfterResponse(t) ==
    /\ where[t] = "asking"
    /\ toSave' = [toSave EXCEPT ![t] =
         WithBranch(row, Target(row), Append(snapshot[t], t))]
    /\ where' = [where EXCEPT ![t] = "saving"]
    /\ UNCHANGED <<overlapping, row, main, snapshot, command>>

(* Mutant of MayDelete: the current branch may be deleted.                 *)
MayDeleteAny(state, b) == Has(state, b)

MayDelete(state, b) == b # state.currentBranchId /\ Has(state, b)

(* createBranch, switchBranch and deleteBranch: what they would write, if  *)
(* they write at all.                                                      *)
CreateBranch(b) ==
    IF Has(row, b) THEN {}
    ELSE {WithCurrent(WithBranch(row, b, CurrentMessages(row)), b)}

SwitchBranch(b) == IF Has(row, b) THEN {WithCurrent(row, b)} ELSE {}

DeleteBranch(b) ==
    IF MayDelete(row, b) THEN {WithBranch(row, b, NoBranch)} ELSE {}

Written(c) ==
    CASE command[c].verb = "new_branch"     -> CreateBranch(command[c].id)
      [] command[c].verb = "switch_branch"  -> SwitchBranch(command[c].id)
      [] command[c].verb = "delete_branch"  -> DeleteBranch(command[c].id)
      [] command[c].verb = "setup_branches" -> {}

Accept(c) ==
    /\ MayStart(c)
    /\ \E s \in Written(c) :
         /\ toSave' = [toSave EXCEPT ![c] = s]
         /\ where' = [where EXCEPT ![c] = "saving"]
    /\ UNCHANGED <<overlapping, row, main, snapshot, command>>

Refuse(c) ==
    /\ MayStart(c)
    /\ command[c].verb # "setup_branches" /\ Written(c) = {}
    /\ where' = [where EXCEPT ![c] = "done"]
    /\ UNCHANGED <<overlapping, row, main, snapshot, toSave, command>>

(* setup_branches for an agent that has the strategy already: the params   *)
(* are saved and nothing else.                                             *)
SetupBranches(c) ==
    /\ MayStart(c)
    /\ command[c].verb = "setup_branches"
    /\ main' = command[c].id
    /\ where' = [where EXCEPT ![c] = "done"]
    /\ UNCHANGED <<overlapping, row, snapshot, toSave, command>>

Save(p) ==
    /\ where[p] = "saving"
    /\ row' = toSave[p]
    /\ where' = [where EXCEPT ![p] = "done"]
    /\ UNCHANGED <<overlapping, main, snapshot, toSave, command>>

BranchNext ==
    \/ \E t \in Turns : Ask(t) \/ RequestFails(t) \/ AfterResponse(t)
    \/ \E c \in Commands : Accept(c) \/ Refuse(c) \/ SetupBranches(c)
    \/ \E p \in Doers : Save(p)

BranchSpec == BranchInit /\ [][BranchNext]_branchVars

-----------------------------------------------------------------------------
(* The current branch exists: the next turn has a history to go on from.   *)
CurrentExists == Has(row, row.currentBranchId)

(* Every turn in ms was answered with the turns before it as its history.  *)
Dialogue(ms) == \A i \in 1..Len(ms) : snapshot[ms[i]] = SubSeq(ms, 1, i - 1)

(* Whatever is written over what, the current branch exists, and every     *)
(* branch is a dialogue (the values that afterResponse and the commands    *)
(* save).                                                                  *)
BranchesAreDialogues ==
    /\ CurrentExists
    /\ \A b \in Branches : Has(row, b) => Dialogue(row.branches[b])

(* One after another, a turn changes the history of one branch, the one it *)
(* was asked in: the branch whose history it was answered with.            *)
TurnsStayInBranch ==
    [][~overlapping => \A t \in Turns, b \in Branches :
         Save(t) /\ row'.branches[b] # row.branches[b] =>
           MessagesOf(row, b) = snapshot[t]]_branchVars

=============================================================================
