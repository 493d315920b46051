------------------------------- MODULE Memory -------------------------------
(***************************************************************************)
(* The transcript of a conversation: AppendTurn of src/internal/memory,    *)
(* the PostgreSQL store of store.go.                                       *)
(*                                                                         *)
(* A transaction takes the advisory lock of the conversation, inserts its  *)
(* turn with the next number of those it can see, and commits; a number    *)
(* that is taken is refused by the primary key.  The store in memory does  *)
(* the three under one mutex, which is one of these behaviours.            *)
(***************************************************************************)
EXTENDS Naturals, Sequences, FiniteSets

CONSTANTS
  Writer,        \* requests that append
  Conversation   \* (tenant, conversation) pairs; the empty id is none of them

NoConversation == "no conversation"
Unlocked == "unlocked"

VARIABLES
  turns,    \* conversation |-> the committed turns: a set of [seq, role, by]
  lock,     \* conversation |-> the transaction that holds the advisory lock, or Unlocked
  draft     \* writer |-> [step, conv, role, seq]; step "idle", "begun", "locked", "inserted", "ok", "failed"

memoryVars == <<turns, lock, draft>>

Idle == [step |-> "idle", conv |-> NoConversation, role |-> "user", seq |-> 0]

MemoryInit ==
  /\ turns = [c \in Conversation |-> {}]
  /\ lock = [c \in Conversation |-> Unlocked]
  /\ draft = [w \in Writer |-> Idle]

Begun(c, role) == [step |-> "begun", conv |-> c, role |-> role, seq |-> 0]

\* ValidateTurn, and the transaction begins.
BeginTurn(w, c, role) ==
  /\ draft[w].step \in {"idle", "ok", "failed"} /\ c \in Conversation
  /\ draft' = [draft EXCEPT ![w] = Begun(c, role)]
  /\ UNCHANGED <<turns, lock>>

\* mutant: the advisory lock is not asked for
LockNothing(w) ==
  /\ draft[w].step = "begun"
  /\ draft' = [draft EXCEPT ![w].step = "locked"]
  /\ UNCHANGED <<turns, lock>>

LockConversation(w) ==
  /\ draft[w].step = "begun" /\ lock[draft[w].conv] = Unlocked
  /\ lock' = [lock EXCEPT ![draft[w].conv] = w]
  /\ draft' = [draft EXCEPT ![w].step = "locked"]
  /\ UNCHANGED turns

\* COALESCE(MAX(seq), 0) + 1 of what is committed when the statement starts.
NextSeq(c) ==
  LET seen == {t.seq : t \in turns[c]} \cup {0} IN
  (CHOOSE m \in seen : \A n \in seen : n <= m) + 1

InsertTurn(w) ==
  /\ draft[w].step = "locked"
  /\ draft' = [draft EXCEPT ![w].step = "inserted", ![w].seq = NextSeq(draft[w].conv)]
  /\ UNCHANGED <<turns, lock>>

\* The lock goes with its transaction.
Released(w) == [c \in Conversation |-> IF lock[c] = w THEN Unlocked ELSE lock[c]]

\* Two rows never have one number: the second is refused when the first is there.
CommitTurn(w) ==
  LET d == draft[w]  taken == \E t \in turns[d.conv] : t.seq = d.seq IN
  /\ d.step = "inserted"
  /\ turns' = IF taken THEN turns
              ELSE [turns EXCEPT ![d.conv] = @ \cup {[seq |-> d.seq, role |-> d.role, by |-> w]}]
  /\ draft' = [draft EXCEPT ![w].step = IF taken THEN "failed" ELSE "ok"]
  /\ lock' = Released(w)

\* The database fails the transaction, at whatever statement: nothing of it stays.
FailTurn(w) ==
  /\ draft[w].step \in {"begun", "locked", "inserted"}
  /\ draft' = [draft EXCEPT ![w].step = "failed"]
  /\ lock' = Released(w)
  /\ UNCHANGED turns

\* The writers are gone with their process; the database rolls their transactions back.
LoseWriters ==
  /\ draft' = [w \in Writer |-> Idle]
  /\ lock' = [c \in Conversation |-> Unlocked]
  /\ UNCHANGED turns

AppendStep(w) == LockConversation(w) \/ InsertTurn(w) \/ CommitTurn(w)
=============================================================================
