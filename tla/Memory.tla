------------------------------- MODULE Memory -------------------------------
(***************************************************************************)
(* Long-term memory: the sqlite store with its search index and embeddings *)
(* (memory/sqlite.rs, behind the adapter of agent/memory_loader.rs and the *)
(* memory tools) and the dream thread that condenses it while the system   *)
(* is idle (dream.rs).                                                     *)
(*                                                                         *)
(* A text is a value; a query is the value it finds.  Importance, times    *)
(* and scores only order answers and are left out: an answer that is cut   *)
(* to a limit is any part of that size.                                    *)
(***************************************************************************)
EXTENDS Naturals, Sequences, FiniteSets, SequencesExt

CONSTANTS
  Keys,       \* memory keys
  AutoKeys,   \* those that begin with autosave_
  LearnKeys,  \* learning_<nanoseconds> keys of the dream thread
  Texts,      \* contents
  Owners,     \* session keys of the callers
  Tasks,      \* turns that call memory_store side by side
  NoRow,
  MaxStores   \* bound of the model: rows inserted

ASSUME MemoryAssumption ==
  /\ AutoKeys \subseteq Keys /\ LearnKeys \cap Keys = {}
  /\ MaxStores \in Nat
  /\ IsFiniteSet(Keys) /\ IsFiniteSet(LearnKeys)
  /\ "" \notin Texts
  /\ NoRow \notin [id : Nat, text : Texts, owner : Owners \cup {NoRow}, learning : BOOLEAN]

AllKeys == Keys \cup LearnKeys

VARIABLES
  rows,      \* table memories: key -> [id, text, owner, learning], NoRow if absent
  index,     \* memories_fts: what it has for each rowid (told by the key)
  vectors,   \* table embeddings: memory id -> text embedded
  embedding, \* what each task has still to embed, or NoRow
  nextId,    \* nano_id
  dream      \* what the dreaming model was shown: key, id and text

memVars == <<rows, index, vectors, embedding, nextId, dream>>

MemoryInit ==
    /\ rows = [k \in AllKeys |-> NoRow] /\ index = {} /\ vectors = {}
    /\ embedding = [t \in Tasks |-> NoRow] /\ nextId = 0
    /\ dream = {}

Present == {k \in AllKeys : rows[k] # NoRow}
-----------------------------------------------------------------------------
(* The triggers of the schema keep the index beside the table.             *)
OnInsert(idx, k, new) == idx \cup {<<k, new.text>>}
OnDelete(idx, k, old) == idx \ {<<k, old.text>>}
(* A slip: the old text stays. *)
OnUpdateInsert(idx, k, old, new) == OnInsert(idx, k, new)
OnUpdate(idx, k, old, new) == OnInsert(OnDelete(idx, k, old), k, new)

\* INSERT ... ON CONFLICT(key) DO UPDATE: a row that is there keeps its id.
Upsert(k, text, owner, learning) ==
    LET old == rows[k]
        new == [id |-> IF old = NoRow THEN nextId ELSE old.id,
                text |-> text, owner |-> owner, learning |-> learning]
    IN  /\ rows' = [rows EXCEPT ![k] = new]
        /\ index' = IF old = NoRow THEN OnInsert(index, k, new)
                    ELSE OnUpdate(index, k, old, new)

(* store: the row under the lock, then the embedding of its text, which is *)
(* asked of a server and filed under the id this call has made up.         *)
Store(t, k, text, owner) ==
    /\ nextId < MaxStores /\ embedding[t] = NoRow
    /\ Upsert(k, text, owner, FALSE)
    /\ nextId' = nextId + 1
    /\ embedding' = IF k \in AutoKeys THEN embedding
                    ELSE [embedding EXCEPT ![t] = [id |-> nextId, text |-> text]]
    /\ UNCHANGED <<vectors, dream>>

Embed(t) ==
    /\ embedding[t] # NoRow
    /\ \/ vectors' = {v \in vectors : v.id # embedding[t].id} \cup {embedding[t]}
       \/ UNCHANGED vectors                          \* the server failed
    /\ embedding' = [embedding EXCEPT ![t] = NoRow]
    /\ UNCHANGED <<rows, index, nextId, dream>>

Drop(ks) ==
    /\ rows' = [k \in AllKeys |-> IF k \in ks THEN NoRow ELSE rows[k]]
    /\ index' = {e \in index : e[1] \notin ks \/ e[2] # rows[e[1]].text}

\* memory_forget; the embedding stays.
Forget(k) ==
    /\ rows[k] # NoRow
    /\ Drop({k})
    /\ UNCHANGED <<vectors, embedding, nextId, dream>>

\* clear_autosaved of one session.
ClearAutosaved(owner) ==
    /\ Drop({k \in Present \cap AutoKeys : rows[k].owner = owner})
    /\ UNCHANGED <<vectors, embedding, nextId, dream>>

Find(q) == {k \in Present : rows[k].text = q}
FindIndexed(q) == {e[1] : e \in {e \in index : e[2] = q}}
AtMost(n, S) ==
    {T \in SUBSET S : Cardinality(T) = IF Cardinality(S) < n THEN Cardinality(S) ELSE n}

(* A slip: the LIKE search only when the index has no match at all. *)
RecallIndexed(q, limit, owner) ==
    IF q = "" THEN {{}}
    ELSE {{k \in S : rows[k].owner = owner} :
            S \in AtMost(limit, IF FindIndexed(q) # {} THEN FindIndexed(q) ELSE Find(q))}

(* recall: the best matches of the index, cut to the limit and only then   *)
(* to the session; when none is left the LIKE search, cut after the        *)
(* session.  An empty query finds nothing.                                 *)
Recall(q, limit, owner) ==
    IF q = "" THEN {{}}
    ELSE LET own(S) == {k \in S : rows[k].owner = owner}
             first  == {own(S) : S \in AtMost(limit, FindIndexed(q))}
         IN  (first \ {{}}) \cup
             (IF {} \in first THEN AtMost(limit, own(Find(q))) ELSE {})

(* semantic_recall: the nearest embeddings, cut to the limit; those whose  *)
(* row is gone fall out afterwards.                                        *)
SemanticRecall(limit) ==
    {{k \in Present : rows[k].id \in {v.id : v \in S}} : S \in AtMost(limit, vectors)}

-----------------------------------------------------------------------------
(* dream_thread, idle long enough: it reads the memories that are not      *)
(* learnings, asks the model, and only later deletes the ids it names and  *)
(* stores what was learnt.                                                 *)
DreamBegin ==
    /\ dream = {}
    /\ dream' = {[key |-> k, id |-> rows[k].id, text |-> rows[k].text] :
                   k \in {k \in Present : ~rows[k].learning}}
    /\ dream' # {}
    /\ UNCHANGED <<rows, index, vectors, embedding, nextId>>

DreamEnd ==
    /\ dream # {}
    /\ \E named \in SUBSET dream :
         Drop({k \in Present : \E d \in named : rows[k].id = d.id})
    /\ dream' = {}
    /\ UNCHANGED <<vectors, embedding, nextId>>

DreamLearn(k) ==
    /\ k \in LearnKeys /\ rows[k] = NoRow /\ nextId < MaxStores
    /\ \E text \in Texts : Upsert(k, text, NoRow, TRUE)
    /\ nextId' = nextId + 1
    /\ UNCHANGED <<vectors, embedding, dream>>

MemoryNext ==
    \/ \E t \in Tasks, k \in Keys, x \in Texts, o \in Owners : Store(t, k, x, o)
    \/ \E t \in Tasks : Embed(t)
    \/ \E k \in Keys : Forget(k)
    \/ \E o \in Owners : ClearAutosaved(o)
    \/ DreamBegin \/ DreamEnd \/ \E k \in LearnKeys : DreamLearn(k)

MemorySpec == MemoryInit /\ [][MemoryNext]_memVars
-----------------------------------------------------------------------------
(* The search index has exactly the texts of the table (the triggers in    *)
(* SqliteMemory::new).                                                     *)
IndexMatches == index = {<<k, rows[k].text>> : k \in Present}

(* A session that has a memory of the text it asks for is given one of its *)
(* own, however many other sessions match better (recall).                 *)
RecallFindsOwn ==
    \A q \in Texts, o \in Owners :
        (\E k \in Find(q) : rows[k].owner = o) =>
            \A S \in Recall(q, 1, o) : S # {} /\ \A k \in S : rows[k].owner = o

(* What is in the table can be found, by the session that owns it and by   *)
(* it alone (the triggers of SqliteMemory::new, recall).                   *)
MemoryFindable == IndexMatches /\ RecallFindsOwn
=============================================================================
