------------------------------ MODULE Stashing ------------------------------
(***************************************************************************)
(* Checking out a branch with changes in the working directory, and the    *)
(* stash entries of this program: _checkoutBranch with its strategies,     *)
(* _createStashForCurrentBranch, _popStashEntry and _dropStashEntry, over  *)
(* git/stash.ts.                                                           *)
(*                                                                         *)
(* git names entries by their place on the stack, and this program by      *)
(* their commit: it lists the stack, and then gives git a name.  Between   *)
(* the two, and between what the user is asked and what is done, another   *)
(* operation, a save in an editor, or a stash made by hand may come in.    *)
(***************************************************************************)
EXTENDS Naturals, Sequences, SequencesExt

CONSTANTS Target,     \* of two or more
          Unmarked,   \* the branch of an entry this program did not make
          MaxEntries, \* bound: entries made
          MaxOps      \* operations at a time there is room for

StashingConstants ==
  /\ Unmarked \notin Target
  /\ MaxEntries \in Nat /\ MaxOps \in Nat

VARIABLES
  head, dirty, stack, \* of the repository: whether there are changes, and the
                      \* entries, the latest first
  made,      \* how many entries there were
  strategy,  \* uncommittedChangesStrategy, of the preferences
  known,     \* what the store last read
  question,    \* the question on the screen
  op,        \* the operations under way
  spent,     \* history: the entries that were applied, or replaced by a newer
             \* one of their branch
  shifted    \* history: git was given the name of another entry

repository == <<head, dirty, stack, made>>
stVars == <<repository, strategy, known, question, op, spent, shifted>>

Slot == 1 .. MaxOps
NoDialog == [kind |-> "none", to |-> Unmarked]
\* kind: what is done; to: the branch that is checked out; sha: the entry that
\* is dropped or popped; from: the branch that is stashed for; place: the name
\* git is given; agreed: whether a dialog is open until it ends, one that asked
\* for a strategy ("how") or one that asked whether an entry may go ("yes").
Operation(kind, at, to, sha, agreed) ==
  [kind |-> kind, at |-> at, to |-> to, sha |-> sha, from |-> Unmarked,
   place |-> 0, agreed |-> agreed]
NoOperation == Operation("none", "idle", Unmarked, 0, "no")

\* getLastDesktopStashEntryForBranch, and getStashEntryMatchingSha: a place.
LatestOf(b) == SelectInSeq(stack, LAMBDA e : e.branch = b)
Place(id) == SelectInSeq(stack, LAMBDA e : e.id = id)
IdAt(i) == IF i = 0 THEN 0 ELSE stack[i].id

\* loadStatus and loadStashEntries.
Status == [known EXCEPT !.head = head, !.changed = dirty]
Loaded(k) == [k EXCEPT !.entry = [b \in Target |-> IdAt(LatestOf(b))]]

StashingInit ==
  /\ head \in Target /\ dirty = FALSE /\ stack = <<>> /\ made = 0
  /\ strategy \in {"ask", "leave", "bring"}
  /\ known = [head |-> head, changed |-> FALSE, entry |-> [b \in Target |-> 0]]
  /\ question = NoDialog /\ op = [i \in Slot |-> NoOperation] /\ spent = {}
  /\ shifted = FALSE

-----------------------------------------------------------------------------
(* What the user asks for.  A dialog that waits for its operation lets him *)
(* ask for nothing else.                                                   *)

Unasked == question = NoDialog /\ \A i \in Slot : op[i].agreed = "no"
Start(i, o) == /\ op[i] = NoOperation
               /\ \A j \in Slot : j < i => op[j] # NoOperation
               /\ op' = [op EXCEPT ![i] = o]
Entry == known.entry[known.head]

Ask(kind, b) == question' = [kind |-> kind, to |-> b] /\ UNCHANGED op
\* The changes on a protected branch are brought along.
Chosen(how, protected) == IF protected THEN "bring" ELSE how

\* _checkoutBranch, without an explicit strategy, up to its first await.
CheckoutBranch(i, b, protected) ==
  /\ Unasked /\ known.head # b
  /\ IF strategy = "leave" /\ known.changed /\ Entry # 0
     THEN Ask("overwrite", b)
     ELSE IF Chosen(strategy, protected) = "ask" /\ known.changed
     THEN Ask("switch", b)
     ELSE /\ Start(i, Operation(Chosen(strategy, protected), "refresh", b, 0,
                             "no"))
          /\ UNCHANGED question
  /\ UNCHANGED <<repository, strategy, known, spent, shifted>>

StashFor(b, agreed) ==
  [Operation("stash", "latest", Unmarked, 0, agreed) EXCEPT !.from = b]

\* The dialog that asks for a strategy, answered; the one that asks whether a
\* stash may be overwritten, answered yes.
AnswerSwitch(i, how) ==
  /\ question.kind = "switch"
  /\ IF how = "leave" /\ Entry # 0
     THEN Ask("overwrite", question.to)
     ELSE /\ question' = NoDialog
          /\ Start(i, Operation(how, "refresh", question.to, 0, "how"))
  /\ UNCHANGED <<repository, strategy, known, spent, shifted>>

AnswerOverwrite(i, protected) ==
  /\ question.kind = "overwrite" /\ question' = NoDialog
  /\ Start(i, IF question.to = Unmarked THEN StashFor(known.head, "yes")
              ELSE Operation(Chosen("leave", protected), "refresh",
                             question.to, 0, "yes"))
  /\ UNCHANGED <<repository, strategy, known, spent, shifted>>

Dismiss ==
  /\ question # NoDialog /\ question' = NoDialog
  /\ UNCHANGED <<repository, strategy, known, op, spent, shifted>>

\* _createStashForCurrentBranch
CreateStash(i) ==
  /\ Unasked
  /\ IF Entry # 0
     THEN Ask("overwrite", Unmarked)
     ELSE Start(i, StashFor(known.head, "no")) /\ UNCHANGED question
  /\ UNCHANGED <<repository, strategy, known, spent, shifted>>

\* _popStashEntry, and _dropStashEntry with or without a question, of the entry
\* that is shown.
PopStash(i) ==
  /\ Unasked /\ Entry # 0
  /\ Start(i, Operation("pop", "find", Unmarked, Entry, "no"))
  /\ UNCHANGED <<repository, strategy, known, question, spent, shifted>>
DropStash(i, agreed) ==
  /\ Unasked /\ Entry # 0
  /\ Start(i, Operation("drop", "list", Unmarked, Entry, agreed))
  /\ UNCHANGED <<repository, strategy, known, question, spent, shifted>>

-----------------------------------------------------------------------------
(* What is done.                                                           *)

GoOn(i, at) == op' = [op EXCEPT ![i].at = at]
Names(i, at) ==
  op' = [op EXCEPT ![i].place = Place(op[i].sha), ![i].at = at]
Ends(i) == op' = [op EXCEPT ![i] = NoOperation]
Misnames(i) == shifted' = (shifted \/ Place(op[i].sha) # op[i].place)
\* What follows the stash entry an operation made and the one it dropped.
Then(i) == IF op[i].kind = "leave" THEN "checkout" ELSE "load"
\* An error leaves the operation; only a checkout refreshes all the same.
Throws(i) == IF op[i].kind = "bring" THEN GoOn(i, "load") ELSE Ends(i)

\* withRefreshedGitHubRepository is over: checkoutImplementation.
Refreshed(i) ==
  /\ op[i].at = "refresh"
  /\ IF op[i].kind = "leave" /\ known.changed
     THEN op' = [op EXCEPT ![i].at = "latest", ![i].from = known.head]
     ELSE GoOn(i, "checkout")
  /\ UNCHANGED <<repository, strategy, known, question, spent, shifted>>

\* createStashAndDropPreviousEntry up to its first await.
FindPrevious(i) ==
  /\ op[i].at = "latest"
  /\ op' = [op EXCEPT ![i].sha = IdAt(LatestOf(op[i].from)), ![i].at = "push"]
  /\ UNCHANGED <<repository, strategy, known, question, spent, shifted>>

\* git stash push, which is not done when there is nothing to stash.
Pushed(b) ==
  /\ dirty /\ made < MaxEntries /\ made' = made + 1 /\ dirty' = FALSE
  /\ stack' = <<[id |-> made', branch |-> b]>> \o stack /\ head' = head

Replaced(b) ==
  spent' = spent \cup {e.id : e \in {f \in Range(stack) : f.branch = b}}
DropsPrevious(i) == GoOn(i, IF op[i].sha # 0 THEN "list" ELSE Then(i))

\* Mutant: the previous entry goes when nothing was stashed, too.
MutantPush(i) ==
  /\ op[i].at = "push" /\ DropsPrevious(i)
  /\ \/ Pushed(op[i].from) /\ Replaced(op[i].from)
     \/ ~dirty /\ UNCHANGED <<repository, spent>>
  /\ UNCHANGED <<strategy, known, question, shifted>>
\* The previous entry only goes when git said that there is a new one.  A push
\* that fails, or that git warns of, is an error on the screen and no more; a
\* checkout goes on.
Push(i) ==
  /\ op[i].at = "push"
  /\ \/ Pushed(op[i].from) /\ Replaced(op[i].from) /\ DropsPrevious(i)
     \/ /\ \/ Pushed(op[i].from) /\ Replaced(op[i].from)
           \/ UNCHANGED <<repository, spent>>
        /\ IF op[i].kind = "stash" THEN Ends(i) ELSE GoOn(i, "checkout")
  /\ UNCHANGED <<strategy, known, question, shifted>>

\* dropDesktopStashEntry lists the entries, and finds the one it is to drop.
List(i) ==
  /\ op[i].at = "list"
  /\ IF Place(op[i].sha) = 0 THEN GoOn(i, Then(i)) ELSE Names(i, "drop")
  /\ UNCHANGED <<repository, strategy, known, question, spent, shifted>>

\* git stash drop; most operations go on when it fails.
Drop(i) ==
  /\ op[i].at = "drop"
  /\ \/ /\ op[i].place \in DOMAIN stack
        /\ stack' = RemoveAt(stack, op[i].place) /\ GoOn(i, Then(i))
     \/ /\ stack' = stack
        /\ IF op[i].kind \in {"bring", "pop"} THEN Throws(i)
           ELSE GoOn(i, Then(i))
  /\ Misnames(i)
  /\ UNCHANGED <<head, dirty, made, strategy, known, question, spent>>

\* git checkout, which may fail after it has moved HEAD, too; with changes in
\* the way, a branch that is to bring them along stashes them for a while.
CheckOut(i) ==
  /\ op[i].at = "checkout"
  /\ \/ head' = op[i].to /\ GoOn(i, "load")
     \/ head' = head /\ GoOn(i, "load")
     \/ /\ dirty /\ op[i].kind = "bring" /\ head' = head
        /\ GoOn(i, "put away")
  /\ UNCHANGED <<dirty, stack, made, strategy, known, question, spent,
                 shifted>>

\* createStashEntry, for the branch that is checked out.
PutAway(i) ==
  /\ op[i].at = "put away"
  /\ \/ Pushed(op[i].to) /\ GoOn(i, "newest")
     \/ (UNCHANGED repository \/ Pushed(op[i].to)) /\ GoOn(i, "load")
  /\ UNCHANGED <<strategy, known, question, spent, shifted>>

FindNewest(i) ==
  /\ op[i].at = "newest"
  /\ LET id == IdAt(LatestOf(op[i].to)) IN
       op' = [op EXCEPT ![i].sha = id,
                        ![i].at = IF id = 0 THEN "load" ELSE "again"]
  /\ UNCHANGED <<repository, strategy, known, question, spent, shifted>>

CheckoutAgain(i) ==
  /\ op[i].at = "again"
  /\ \/ head' = op[i].to /\ (GoOn(i, "find") \/ GoOn(i, "load"))
     \/ head' = head /\ GoOn(i, "load")
  /\ UNCHANGED <<dirty, stack, made, strategy, known, question, spent,
                 shifted>>

\* popStashEntry lists the entries, and finds the one it is to pop.
Find(i) ==
  /\ op[i].at = "find"
  /\ IF Place(op[i].sha) = 0 THEN GoOn(i, "load") ELSE Names(i, "pop")
  /\ UNCHANGED <<repository, strategy, known, question, spent, shifted>>

\* git stash pop: it drops what it applied; with conflicts it does not, and
\* this program does; or it refuses.
Pop(i) ==
  /\ op[i].at = "pop"
  /\ \/ LET e == stack[op[i].place] IN
          /\ op[i].place \in DOMAIN stack
          /\ dirty' = TRUE /\ spent' = spent \cup {e.id}
          /\ \/ stack' = RemoveAt(stack, op[i].place) /\ GoOn(i, "load")
             \/ stack' = stack /\ GoOn(i, "list")
     \/ UNCHANGED <<dirty, stack, spent>> /\ Throws(i)
  /\ Misnames(i)
  /\ UNCHANGED <<head, made, strategy, known, question>>

\* The refresh at the end, of the entries alone after one was dropped.
Reload(i) ==
  /\ op[i].at = "load" /\ Ends(i)
  /\ known' = Loaded(IF op[i].kind = "drop" THEN known ELSE Status)
  /\ UNCHANGED <<repository, strategy, question, spent, shifted>>

-----------------------------------------------------------------------------
(* What goes on meanwhile.                                                 *)

\* The store reads the repository, when the window gets the focus, say.
Load ==
  /\ known' \in {Status, Loaded(known)}
  /\ UNCHANGED <<repository, strategy, question, op, spent, shifted>>

\* The user changes a file, or commits what there is; stashes it by hand.
EditOrCommit ==
  /\ dirty' = ~dirty
  /\ UNCHANGED <<head, stack, made, strategy, known, question, op, spent,
                 shifted>>
StashByHand ==
  /\ Pushed(Unmarked)
  /\ UNCHANGED <<strategy, known, question, op, spent, shifted>>

Goes(i) ==
  \/ Refreshed(i) \/ FindPrevious(i) \/ Push(i) \/ List(i) \/ Drop(i)
  \/ CheckOut(i) \/ PutAway(i) \/ FindNewest(i) \/ CheckoutAgain(i)
  \/ Find(i) \/ Pop(i) \/ Reload(i)

StashingNext ==
  \/ \E i \in Slot :
       \/ \E protected \in BOOLEAN :
            \/ \E b \in Target : CheckoutBranch(i, b, protected)
            \/ AnswerOverwrite(i, protected)
       \/ \E how \in {"leave", "bring"} : AnswerSwitch(i, how)
       \/ CreateStash(i) \/ PopStash(i)
       \/ \E agreed \in {"no", "yes"} : DropStash(i, agreed)
       \/ Goes(i)
  \/ Dismiss \/ Load \/ EditOrCommit \/ StashByHand

StashingSpec == StashingInit /\ [][StashingNext]_stVars

-----------------------------------------------------------------------------
\* A checkout knows its branch; only a branch that is left, or that the user
\* stashes for, has changes stashed under its name.
Whither == {"refresh", "checkout", "put away", "newest", "again"}
WellFormed(o) ==
  /\ o.kind \in {"ask", "leave", "bring"} => o.to \in Target
  /\ o.at \in Whither => o.kind \in {"ask", "leave", "bring"}
  /\ o.at \in {"latest", "push"} => o.kind \in {"leave", "stash"}

StashingTypeOK ==
  /\ head \in Target /\ dirty \in BOOLEAN /\ made \in 0 .. MaxEntries
  /\ stack \in Seq([id : 1 .. made, branch : Target \cup {Unmarked}])
  /\ strategy \in {"ask", "leave", "bring"}
  /\ known \in [head : Target, changed : BOOLEAN,
               entry : [Target -> 0 .. made]]
  /\ question \in [kind : {"none", "switch", "overwrite"},
                   to : Target \cup {Unmarked}]
  /\ question.kind = "switch" => question.to \in Target
  /\ op \in [Slot ->
       [kind : {"none", "ask", "leave", "bring", "stash", "pop", "drop"},
        at : Whither \cup {"idle", "latest", "push", "list", "drop", "find",
                           "pop", "load"},
        to : Target \cup {Unmarked}, sha : 0 .. made,
        from : Target \cup {Unmarked}, place : Nat,
        agreed : {"no", "how", "yes"}]]
  /\ \A i \in Slot : WellFormed(op[i])
  /\ spent \in SUBSET (1 .. made) /\ shifted \in BOOLEAN

Gives(i) == op[i].at \in {"drop", "pop"} /\ op'[i] # op[i]

LeavesForCause(e) ==
  \/ e.id \in spent' \/ shifted'
  \/ \E i \in Slot : Gives(i) /\ op[i].kind = "drop" /\ op[i].sha = e.id
EntriesLeaveForCause ==
  \A e \in Range(stack) : e \notin Range(stack') => LeavesForCause(e)

\* An entry only leaves the stack when it was applied, when a newer one was
\* made for its branch, or when the user discards it; unless the stack changed
\* after this program named an entry and before git was told.
StashesAreKept == [][EntriesLeaveForCause]_stVars

\* "we still want to let them know changes might be lost": no entry is replaced
\* by a newer one that the user was not asked about.
OverwritingIsAsked ==
  [][\A i \in Slot :
       Gives(i) /\ stack' # stack /\ op[i].kind = "leave"
         => op[i].agreed = "yes"]_stVars
=============================================================================
