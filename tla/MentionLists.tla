---------------------------- MODULE MentionLists ----------------------------
(***************************************************************************)
(* The mention lists of a chat: one MongoDB document with an array of      *)
(* named lists, edited by commands that run at once.  Each edit is one     *)
(* atomic update whose filter carries the check, but creating a list may   *)
(* upsert the document, and leaving one by position reads it first.        *)
(***************************************************************************)
EXTENDS Naturals, Sequences, FiniteSets

CONSTANTS Names, People, MaxEdits       \* the last a bound on the edits

VARIABLES hasLists,         \* whether the chat has a document
          lists,            \* its groups: a sequence of [name, participants]
          edits,            \* the creates and exits under way
          made              \* edits started so far

vars == <<hasLists, lists, edits, made>>

Lists == [name: Names, participants: SUBSET People]
Edits == [step: {"update", "insert", "retry", "pull"}, list: Lists]

TypeOK == /\ hasLists \in BOOLEAN
          /\ lists \in Seq(Lists)
          /\ edits \subseteq Edits
          /\ made \in 0..MaxEdits

Init == hasLists = FALSE /\ lists = <<>> /\ edits = {} /\ made = 0

Edit == made < MaxEdits /\ made' = made + 1
Taken(name) == \E i \in DOMAIN lists : lists[i].name = name

\* The first list the filter finds, as the positional operator does.
IndexOf(name) == CHOOSE i \in DOMAIN lists :
    lists[i].name = name /\ \A j \in DOMAIN lists : lists[j].name = name => i <= j

GoOn(e, step) == edits' = (edits \ {e}) \cup {[e EXCEPT !.step = step]}
Finish(e) == edits' = edits \ {e}

\* The sender and whom they mentioned.
Create(name, people) ==
    /\ Edit
    /\ people # {}
    /\ edits' = edits \cup {[step |-> "update",
                             list |-> [name |-> name, participants |-> people]]}
    /\ UNCHANGED <<hasLists, lists>>

\* Mutant: the retry pushes whether or not the name is taken.
RefusesNever(name) == FALSE

\* 'groups.name': {'$ne': name}
Refuses(name) == Taken(name)

\* The upsert pushes, or goes on to insert when its filter matched nothing.
CreateUpdate(e) ==
    /\ e.step = "update"
    /\ IF hasLists /\ ~Taken(e.list.name)
       THEN lists' = Append(lists, e.list) /\ Finish(e)
       ELSE GoOn(e, "insert") /\ UNCHANGED lists
    /\ UNCHANGED <<hasLists, made>>

CreateInsert(e) ==
    /\ e.step = "insert"
    /\ hasLists' = TRUE
    /\ IF hasLists THEN GoOn(e, "retry") /\ UNCHANGED lists
                 ELSE lists' = <<e.list>> /\ Finish(e)
    /\ UNCHANGED made

CreateRetry(e) ==
    /\ e.step = "retry"
    /\ lists' = IF Refuses(e.list.name) THEN lists ELSE Append(lists, e.list)
    /\ Finish(e)
    /\ UNCHANGED <<hasLists, made>>

Rename(old, new) ==
    /\ Edit
    /\ Taken(old) /\ ~Taken(new)
    /\ lists' = [i \in DOMAIN lists |->
         IF lists[i].name = old THEN [lists[i] EXCEPT !.name = new] ELSE lists[i]]
    /\ UNCHANGED <<hasLists, edits>>

Others(name) == {i \in DOMAIN lists : lists[i].name # name}

\* $pull: the lists with another name close ranks.
Delete(name) ==
    /\ Edit
    /\ Taken(name)
    /\ lists' = [n \in 1..Cardinality(Others(name)) |->
         lists[CHOOSE i \in Others(name) : Cardinality(Others(name) \cap 1..i) = n]]
    /\ UNCHANGED <<hasLists, edits>>

Add(name, people) ==
    /\ Edit
    /\ Taken(name) /\ people # {}
    /\ lists' = [lists EXCEPT ![IndexOf(name)].participants = @ \cup people]
    /\ UNCHANGED <<hasLists, edits>>

\* The sender, or the participants at some positions of the list as it is read.
ExitRead(name, people) ==
    /\ Edit
    /\ Taken(name)
    /\ people # {} /\ people \subseteq lists[IndexOf(name)].participants
    /\ edits' = edits \cup {[step |-> "pull",
                             list |-> [name |-> name, participants |-> people]]}
    /\ UNCHANGED <<hasLists, lists>>

\* The list may have been renamed, deleted or replaced since; what was read is
\* pulled by name from whatever has that name now.
ExitPull(e) ==
    /\ e.step = "pull"
    /\ lists' = IF Taken(e.list.name)
                THEN [lists EXCEPT ![IndexOf(e.list.name)].participants =
                         @ \ e.list.participants]
                ELSE lists
    /\ Finish(e)
    /\ UNCHANGED <<hasLists, made>>

\* MongoDB cannot be reached: the sender is told, nothing changes.
Fail(e) == Finish(e) /\ UNCHANGED <<hasLists, lists, made>>

Next == \/ \E name \in Names, people \in SUBSET People :
              Create(name, people) \/ Add(name, people) \/ ExitRead(name, people)
        \/ \E old, new \in Names : Rename(old, new)
        \/ \E name \in Names : Delete(name)
        \/ \E e \in edits : \/ CreateUpdate(e) \/ CreateInsert(e) \/ CreateRetry(e)
                            \/ ExitPull(e) \/ Fail(e)

Spec == Init /\ [][Next]_vars

-----------------------------------------------------------------------------
\* Whatever is created, renamed and deleted at once, also by the upserts that create
\* the document, no two lists of a chat ever have the same name.
NamesUnique == \A i, j \in DOMAIN lists : lists[i].name = lists[j].name => i = j
=============================================================================
