-------------------------- MODULE WorkspaceProofs --------------------------
(***************************************************************************)
(* The workspace keeps every answer in the session it was asked from and   *)
(* every context with the answer it came from, and it refines the steps of *)
(* the shell, for any numbers of sessions, questions, reloads and faults.  *)
(*                                                                         *)
(* The invariant speaks of a store, and holds of the one on screen and of  *)
(* its copy in local storage alike: that is what a reload needs.  It       *)
(* bounds the replies either may hold, so that a reply just received is    *)
(* newer than any context it finds there.                                  *)
(***************************************************************************)
EXTENDS Workspace, SequenceTheorems, TLAPS

\* What holds of one session's messages and context, when no reply after the
\* m-th has got there; the contexts of the sessions in behind may lag.
SessionOK(s, seq, ctx, behind, m) ==
    /\ seq \in Seq(Messages) /\ ctx \in Replies
    /\ ctx.n \in 0 .. m
    /\ \A i \in 1 .. Len(seq) :
        seq[i].kind = "answer" => seq[i].home = s /\ seq[i].whole /\ seq[i].reply.n \in 0 .. m
    /\ FollowsAnswer(seq, ctx, s \in behind)

\* What holds of a list of sessions numbered up to n and the one that is active.
ListOK(n, list, id) ==
    /\ list \in Seq(1 .. n) /\ list # <<>>
    /\ \A i, j \in 1 .. Len(list) : list[i] = list[j] => i = j
    /\ id \in Sessions

HeldOnly(list, msgs, ctx) ==
    \A s \in Sessions :
        (\A i \in 1 .. Len(list) : list[i] # s) => msgs[s] = <<>> /\ ctx[s] = NoContext

SessionsOK(msgs, ctx, behind, m) ==
    /\ DOMAIN msgs = Sessions /\ DOMAIN ctx = Sessions
    /\ msgs = [s \in Sessions |-> msgs[s]] /\ ctx = [s \in Sessions |-> ctx[s]]
    /\ \A s \in Sessions : SessionOK(s, msgs[s], ctx[s], behind, m)

\* What holds of a store, when the contexts of the sessions in behind may lag.
StoreOK(n, list, id, msgs, ctx, behind, m) ==
    ListOK(n, list, id) /\ HeldOnly(list, msgs, ctx) /\ SessionsOK(msgs, ctx, behind, m)

SavedOK(n, copy, behind, m) ==
    \/ copy = NeverSaved
    \/ /\ StoreOK(n, copy.sessions, copy.activeId, copy.messages, copy.context, behind, m)
       /\ Len(copy.sessions) <= MaxSaved

\* The sessions whose last answer is stored in part, and the last reply that
\* may be in the store: not that of a question still pending.
Behind == {s \in Sessions : InPart(s)}
Last == IF run.phase \in {"idle", "storing", "failing"} THEN asked ELSE asked - 1

\* The last answer of a session is this reply.
EndsWith(seq, reply) ==
    \E k \in 1 .. Len(seq) :
        /\ seq[k].kind = "answer" /\ seq[k].reply = reply
        /\ \A i \in 1 .. Len(seq) : i > k => seq[i].kind # "answer"

\* The run's record, and the session on screen while it lasts.
RunOK ==
    /\ run \in Runs
    /\ Pending => run.home = Shown /\ asked > 0
    /\ ~Pending => run.home = 0

\* The reply in the run's hands, until it is stored.
ReplyOK ==
    /\ run.phase \in {"answered", "storing"} => run.reply.n = asked
    /\ run.phase = "answered" => demo \/ run.heard = {"result", "done"}
    /\ run.phase = "storing" /\ activeId \in Listed => EndsWith(messages[activeId], run.reply)

CountsOK ==
    /\ demo \in BOOLEAN /\ known \in BOOLEAN
    /\ made \in Sessions
    /\ asked \in 0 .. MaxAsks
    /\ mistakes \in [Sessions -> SUBSET Examples]
    /\ torn \subseteq Sessions
    /\ reloads \in 0 .. MaxReloads /\ faults \in 0 .. MaxFaults

\* What a change of the store has to keep.
Stored ==
    /\ StoreOK(made, sessions, activeId, messages, context, Behind, Last)
    /\ SavedOK(made, saved, Behind, Last)

\* The inductive invariant.
Inv == CountsOK /\ RunOK /\ ReplyOK /\ Stored

-----------------------------------------------------------------------------
(* Messages and the context they leave.                                    *)

LEMMA NoContextTyped == NoContext \in Replies
BY WorkspaceAssumption DEF NoContext, Reply, Replies, Levels

\* A session without messages is in order.
LEMMA EmptySession ==
    ASSUME NEW s \in Sessions, NEW behind, NEW m \in Nat
    PROVE  SessionOK(s, <<>>, NoContext, behind, m)
<1>1. <<>> \in Seq(Messages) /\ Len(<<>>) = 0
  BY EmptySeq
<1>2. DOMAIN <<>> = {}
  OBVIOUS
<1>3. NoContext.n \in 0 .. m
  BY DEF NoContext, Reply
<1>. QED  BY <1>1, <1>2, <1>3, NoContextTyped DEF SessionOK, FollowsAnswer

\* A session in order stays so when more replies are allowed for, or a lag.
LEMMA LooserSession ==
    ASSUME NEW s \in Sessions, NEW seq, NEW ctx, NEW behind, NEW m \in Int,
           NEW behind2, NEW m2 \in Int, s \in behind => s \in behind2, m <= m2,
           SessionOK(s, seq, ctx, behind, m)
    PROVE  SessionOK(s, seq, ctx, behind2, m2)
<1>1. 0 .. m \subseteq 0 .. m2
  OBVIOUS
<1>2. FollowsAnswer(seq, ctx, s \in behind2)
  BY DEF SessionOK, FollowsAnswer
<1>. QED  BY <1>1, <1>2 DEF SessionOK

\* A message of any kind but an answer can be added to a session.
LEMMA QuietMessage ==
    ASSUME NEW s \in Sessions, NEW seq, NEW ctx, NEW behind, NEW top \in Int,
           SessionOK(s, seq, ctx, behind, top),
           NEW m \in Messages, m.kind # "answer"
    PROVE  SessionOK(s, seq \o <<m>>, ctx, behind, top)
<1>. DEFINE new == seq \o <<m>>
<1>1. seq \in Seq(Messages) /\ <<m>> \in Seq(Messages) /\ Len(<<m>>) = 1 /\ <<m>>[1] = m
  BY DEF SessionOK
<1>2. Len(seq) \in Nat /\ DOMAIN seq = 1 .. Len(seq)
  BY <1>1, LenProperties
<1>3. /\ new \in Seq(Messages) /\ Len(new) = Len(seq) + 1
      /\ \A i \in 1 .. Len(seq) : new[i] = seq[i]
      /\ new[Len(seq) + 1] = m
  BY <1>1, <1>2, ConcatProperties
<1>4. DOMAIN new = 1 .. Len(seq) + 1
  BY <1>3, LenProperties
<1>. HIDE DEF new
<1>5. \A i \in 1 .. Len(new) : new[i].kind = "answer" => i \in 1 .. Len(seq)
  BY <1>2, <1>3
<1>6. FollowsAnswer(new, ctx, s \in behind)
  <2>1. \A i \in DOMAIN new : LastAnswer(new, i) => i \in DOMAIN seq /\ LastAnswer(seq, i)
    BY <1>2, <1>3, <1>4, <1>5 DEF LastAnswer
  <2>2. (\A i \in DOMAIN new : new[i].kind # "answer") => \A i \in DOMAIN seq : seq[i].kind # "answer"
    BY <1>2, <1>3, <1>4
  <2>. QED  BY <2>1, <2>2, <1>2, <1>3 DEF SessionOK, FollowsAnswer
<1>7. \A i \in 1 .. Len(new) :
        new[i].kind = "answer" => new[i].home = s /\ new[i].whole /\ new[i].reply.n \in 0 .. top
  BY <1>2, <1>3, <1>5 DEF SessionOK
<1>. QED  BY <1>3, <1>6, <1>7 DEF SessionOK, new

\* The answer a reply becomes.
Given(reply, home) == Answer(reply, home, TRUE)

LEMMA GivenTyped ==
    ASSUME NEW reply \in Replies, NEW s \in Sessions
    PROVE  /\ Given(reply, s) \in Messages
           /\ Given(reply, s).kind = "answer"
           /\ Given(reply, s).home = s
           /\ Given(reply, s).whole
           /\ Given(reply, s).reply = reply
<1>. DEFINE answers ==
              {Answer(given, home, whole) :
                 given \in Replies, home \in Sessions, whole \in BOOLEAN}
<1>1. TRUE \in BOOLEAN
  OBVIOUS
<1>2. Given(reply, s) \in answers
  <2>1. \E given \in Replies, home \in Sessions, whole \in BOOLEAN :
          Given(reply, s) = Answer(given, home, whole)
    BY <1>1 DEF Given
  <2>. QED  BY <2>1, SMT
<1>3. answers \subseteq Messages
  BY SMT DEF Messages
<1>4. Given(reply, s) \in Messages
  BY <1>2, <1>3
<1>. QED  BY <1>4 DEF Given, Answer

\* A sequence that ends with the newest reply, its other answers being in
\* order, is a session whose context, an older one, lags.
LEMMA LastOneCounts ==
    ASSUME NEW s \in Sessions, NEW seq \in Seq(Messages), NEW ctx \in Replies,
           NEW reply \in Replies, NEW m \in Nat, reply.n = m, ctx.n \in 0 .. m - 1,
           NEW behind, s \in behind,
           NEW k \in 1 .. Len(seq), seq[k] = Given(reply, s),
           \A i \in 1 .. Len(seq) : i > k => seq[i].kind # "answer",
           \A i \in 1 .. Len(seq) : i < k => (seq[i].kind = "answer" =>
              seq[i].home = s /\ seq[i].whole /\ seq[i].reply.n \in 0 .. m - 1)
    PROVE  SessionOK(s, seq, ctx, behind, m) /\ EndsWith(seq, reply)
<1>1. Len(seq) \in Nat /\ DOMAIN seq = 1 .. Len(seq)
  BY LenProperties
<1>2. seq[k].kind = "answer" /\ seq[k].home = s /\ seq[k].whole /\ seq[k].reply = reply
  BY GivenTyped
<1>3. \A i \in DOMAIN seq : LastAnswer(seq, i) => i = k
  BY <1>1, <1>2 DEF LastAnswer
<1>4. ctx.n < reply.n /\ ctx.n \in 0 .. m /\ reply.n \in 0 .. m /\ 0 .. m - 1 \subseteq 0 .. m
  OBVIOUS
<1>5. FollowsAnswer(seq, ctx, s \in behind)
  BY <1>1, <1>2, <1>3, <1>4 DEF FollowsAnswer
<1>6. \A i \in 1 .. Len(seq) :
        seq[i].kind = "answer" => seq[i].home = s /\ seq[i].whole /\ seq[i].reply.n \in 0 .. m
  BY <1>1, <1>2, <1>4
<1>. QED  BY <1>2, <1>4, <1>5, <1>6 DEF SessionOK, EndsWith

\* The newest answer can be added; the context lags until it is applied.
LEMMA AnswerAdded ==
    ASSUME NEW s \in Sessions, NEW seq, NEW ctx, NEW behind, NEW m \in Nat,
           SessionOK(s, seq, ctx, behind, m - 1),
           NEW reply \in Replies, reply.n = m, NEW behind2, s \in behind2
    PROVE  /\ SessionOK(s, seq \o <<Given(reply, s)>>, ctx, behind2, m)
           /\ EndsWith(seq \o <<Given(reply, s)>>, reply)
<1>. DEFINE answer == Given(reply, s)
            one == seq \o <<answer>>
<1>1. answer \in Messages
  BY GivenTyped
<1>. HIDE DEF answer
<1>2. <<answer>> \in Seq(Messages) /\ Len(<<answer>>) = 1 /\ <<answer>>[1] = answer
  BY <1>1
<1>3. seq \in Seq(Messages) /\ Len(seq) \in Nat /\ ctx \in Replies /\ ctx.n \in 0 .. m - 1
  BY LenProperties DEF SessionOK
<1>4. /\ one \in Seq(Messages) /\ Len(one) = Len(seq) + 1
      /\ \A i \in 1 .. Len(seq) : one[i] = seq[i]
      /\ one[Len(seq) + 1] = answer
  BY <1>2, <1>3, ConcatProperties
<1>. DEFINE k == Len(seq) + 1
<1>. HIDE DEF one
<1>5. \A i \in 1 .. Len(one) : i < k => (one[i].kind = "answer" =>
        one[i].home = s /\ one[i].whole /\ one[i].reply.n \in 0 .. m - 1)
  BY <1>3, <1>4 DEF SessionOK
<1>6. k \in 1 .. Len(one) /\ one[k] = Given(reply, s)
  BY <1>3, <1>4 DEF answer
<1>7. \A i \in 1 .. Len(one) : i > k => one[i].kind # "answer"
  BY <1>3, <1>4
<1>8. SessionOK(s, one, ctx, behind2, m) /\ EndsWith(one, reply)
  BY <1>3, <1>4, <1>5, <1>6, <1>7, LastOneCounts
<1>. QED  BY <1>8 DEF one, answer

\* So can a regenerated answer, wherever the one it replaces stands.
LEMMA AnswerReplaced ==
    ASSUME NEW s \in Sessions, NEW seq, NEW ctx, NEW behind, NEW m \in Nat,
           SessionOK(s, seq, ctx, behind, m - 1),
           NEW reply \in Replies, reply.n = m, NEW behind2, s \in behind2
    PROVE  /\ SessionOK(s, Replaced(seq, Given(reply, s)), ctx, behind2, m)
           /\ EndsWith(Replaced(seq, Given(reply, s)), reply)
<1>. DEFINE answer == Given(reply, s)
<1>1. answer \in Messages
  BY GivenTyped
<1>2. /\ seq \in Seq(Messages) /\ Len(seq) \in Nat /\ DOMAIN seq = 1 .. Len(seq)
      /\ ctx \in Replies /\ ctx.n \in 0 .. m - 1
  BY LenProperties DEF SessionOK
<1>. HIDE DEF answer
<1>3. CASE ~ \E i \in DOMAIN seq : LastSaid(seq, i)
  <2>1. Append(seq, answer) = seq \o <<answer>>
    BY <1>1, <1>2, AppendIsConcat
  <2>2. Replaced(seq, answer) = seq \o <<Given(reply, s)>>
    BY <1>3, <2>1 DEF Replaced, answer
  <2>. QED  BY <2>2, AnswerAdded DEF answer
<1>4. ASSUME NEW k \in DOMAIN seq, LastSaid(seq, k)
      PROVE  SessionOK(s, Replaced(seq, answer), ctx, behind2, m) /\ EndsWith(Replaced(seq, answer), reply)
  <2>. DEFINE new == [i \in DOMAIN seq |-> IF LastSaid(seq, i) THEN answer ELSE seq[i]]
  <2>1. Replaced(seq, answer) = new
    BY <1>4 DEF Replaced
  <2>2. \A i \in DOMAIN seq : LastSaid(seq, i) => i = k
    BY <1>2, <1>4 DEF LastSaid
  <2>3. new = [seq EXCEPT ![k] = answer]
    BY <1>2, <1>4, <2>2
  <2>4. new \in Seq(Messages) /\ Len(new) = Len(seq)
    BY <1>1, <1>2, <2>3, ExceptSeq
  <2>5. /\ new[k] = answer
        /\ \A i \in 1 .. Len(new) : i # k => new[i] = seq[i]
    BY <1>2, <2>3, <2>4
  <2>6. \A i \in 1 .. Len(new) : i > k => new[i].kind # "answer"
    BY <1>2, <1>4, <2>4, <2>5 DEF LastSaid
  <2>. HIDE DEF new
  <2>7. \A i \in 1 .. Len(new) : i < k => (new[i].kind = "answer" =>
          new[i].home = s /\ new[i].whole /\ new[i].reply.n \in 0 .. m - 1)
    BY <1>2, <2>4, <2>5 DEF SessionOK
  <2>8. k \in 1 .. Len(new) /\ new[k] = Given(reply, s)
    BY <1>2, <2>4, <2>5 DEF answer
  <2>9. SessionOK(s, new, ctx, behind2, m) /\ EndsWith(new, reply)
    <3>1. ctx \in Replies /\ ctx.n \in 0 .. m - 1 /\ new \in Seq(Messages) /\ k \in 1 .. Len(new)
      BY <1>2, <2>4, <2>8
    <3>. QED  BY <3>1, <2>6, <2>7, <2>8, LastOneCounts
  <2>. QED  BY <2>1, <2>9
<1>. QED  BY <1>3, <1>4 DEF answer

\* With the context of its last answer a session does not lag.
LEMMA ContextApplied ==
    ASSUME NEW s \in Sessions, NEW seq, NEW old, NEW behind, NEW m \in Nat,
           SessionOK(s, seq, old, behind, m),
           NEW reply \in Replies, reply.n = m, EndsWith(seq, reply),
           NEW behind2
    PROVE  SessionOK(s, seq, reply, behind2, m)
<1>1. Len(seq) \in Nat /\ DOMAIN seq = 1 .. Len(seq)
  BY LenProperties DEF SessionOK
<1>2. PICK k \in 1 .. Len(seq) :
        /\ seq[k].kind = "answer" /\ seq[k].reply = reply
        /\ \A i \in 1 .. Len(seq) : i > k => seq[i].kind # "answer"
  BY DEF EndsWith
<1>3. \A i \in DOMAIN seq : LastAnswer(seq, i) => i = k
  BY <1>1, <1>2 DEF LastAnswer
<1>4. FollowsAnswer(seq, reply, s \in behind2)
  BY <1>1, <1>2, <1>3 DEF FollowsAnswer
<1>5. reply.n \in 0 .. m
  OBVIOUS
<1>. QED  BY <1>4, <1>5 DEF SessionOK

-----------------------------------------------------------------------------
(* Stores.                                                                 *)

LEMMA EmptyStore ==
    ASSUME NEW behind, NEW m \in Nat
    PROVE  /\ SessionsOK([s \in Sessions |-> <<>>], [s \in Sessions |-> NoContext], behind, m)
           /\ \A list : HeldOnly(list, [s \in Sessions |-> <<>>], [s \in Sessions |-> NoContext])
BY EmptySession DEF SessionsOK, HeldOnly

\* A store with one, empty, session.
LEMMA NewStore ==
    ASSUME NEW n \in Sessions, NEW behind, NEW m \in Nat
    PROVE  StoreOK(n, <<n>>, n, [s \in Sessions |-> <<>>], [s \in Sessions |-> NoContext], behind, m)
<1>1. n \in Nat /\ n \in 1 .. n
  BY WorkspaceAssumption DEF Sessions
<1>2. <<n>> \in Seq(1 .. n) /\ Len(<<n>>) = 1 /\ <<n>> # <<>>
  BY <1>1
<1>3. ListOK(n, <<n>>, n)
  BY <1>2 DEF ListOK
<1>. QED  BY <1>3, EmptyStore DEF StoreOK

\* Nothing disturbs a store by creating further sessions, asking further
\* questions or letting contexts lag.
LEMMA Looser ==
    ASSUME NEW n \in Sessions, NEW n2 \in Sessions, n <= n2,
           NEW behind, NEW behind2, behind \subseteq behind2,
           NEW m \in Nat, NEW m2 \in Nat, m <= m2
    PROVE  /\ \A msgs, ctx : SessionsOK(msgs, ctx, behind, m) => SessionsOK(msgs, ctx, behind2, m2)
           /\ \A list, id, msgs, ctx : StoreOK(n, list, id, msgs, ctx, behind, m)
                                        => StoreOK(n2, list, id, msgs, ctx, behind2, m2)
           /\ \A copy : SavedOK(n, copy, behind, m) => SavedOK(n2, copy, behind2, m2)
<1>1. 1 .. n \subseteq 1 .. n2
  BY WorkspaceAssumption DEF Sessions
<1>2. \A list, id : ListOK(n, list, id) => ListOK(n2, list, id)
  BY <1>1, SeqMonotonic DEF ListOK
<1>3. ASSUME NEW msgs, NEW ctx, SessionsOK(msgs, ctx, behind, m)
      PROVE  SessionsOK(msgs, ctx, behind2, m2)
  <2>1. ASSUME NEW s \in Sessions
        PROVE  SessionOK(s, msgs[s], ctx[s], behind2, m2)
    <3>1. SessionOK(s, msgs[s], ctx[s], behind, m)
      BY <1>3 DEF SessionsOK
    <3>. QED  BY <3>1, LooserSession
  <2>. QED  BY <1>3, <2>1 DEF SessionsOK
<1>4. \A list, id, msgs, ctx : StoreOK(n, list, id, msgs, ctx, behind, m)
                               => StoreOK(n2, list, id, msgs, ctx, behind2, m2)
  BY <1>2, <1>3 DEF StoreOK
<1>5. \A copy : SavedOK(n, copy, behind, m) => SavedOK(n2, copy, behind2, m2)
  BY <1>4 DEF SavedOK
<1>. QED  BY <1>3, <1>4, <1>5

\* What local storage keeps of a store in order is in order.
LEMMA SnapshotInOrder ==
    ASSUME NEW n \in Sessions, NEW list, NEW id, NEW msgs, NEW ctx,
           NEW behind, NEW m \in Nat, StoreOK(n, list, id, msgs, ctx, behind, m)
    PROVE  SavedOK(n, Snapshot(list, id, msgs, ctx), behind, m)
<1>. DEFINE top == IF Len(list) < MaxSaved THEN Len(list) ELSE MaxSaved
            kept == SubSeq(list, 1, top)
            Keeps(s) == \E i \in DOMAIN kept : kept[i] = s
            held == [s \in Sessions |-> IF Keeps(s) THEN msgs[s] ELSE <<>>]
            sent == [s \in Sessions |-> IF Keeps(s) THEN ctx[s] ELSE NoContext]
<1>1. /\ list \in Seq(1 .. n) /\ list # <<>>
      /\ \A i, j \in 1 .. Len(list) : list[i] = list[j] => i = j
      /\ id \in Sessions
  BY DEF StoreOK, ListOK
<1>2. Len(list) \in Nat \ {0} /\ MaxSaved \in Nat \ {0}
  BY <1>1, EmptySeq, WorkspaceAssumption
<1>3. top \in 1 .. Len(list) /\ top <= MaxSaved
  BY <1>2
<1>4. \A i \in 1 .. top : list[i] \in 1 .. n
  <2>1. \A i \in 1 .. Len(list) : list[i] \in 1 .. n
    BY <1>1, ElementOfSeq
  <2>. QED  BY <1>2, <1>3, <2>1
<1>5. /\ kept \in Seq(1 .. n) /\ Len(kept) = top
      /\ \A i \in 1 .. top : kept[i] = list[i]
  BY <1>2, <1>3, <1>4, SubSeqProperties
<1>. HIDE DEF top
<1>6. DOMAIN kept = 1 .. top
  BY <1>5, LenProperties
<1>. HIDE DEF kept
<1>7. ListOK(n, kept, id)
  <2>1. kept # <<>>
    BY <1>2, <1>3, <1>5
  <2>2. \A i, j \in 1 .. Len(kept) : kept[i] = kept[j] => i = j
    BY <1>1, <1>2, <1>3, <1>5
  <2>. QED  BY <1>1, <1>5, <2>1, <2>2 DEF ListOK
<1>8. HeldOnly(kept, held, sent)
  BY <1>5, <1>6 DEF HeldOnly
<1>9. SessionsOK(held, sent, behind, m)
  <2>1. ASSUME NEW s \in Sessions
        PROVE  SessionOK(s, held[s], sent[s], behind, m)
    <3>1. /\ SessionOK(s, msgs[s], ctx[s], behind, m)
          /\ SessionOK(s, <<>>, NoContext, behind, m)
      BY EmptySession DEF StoreOK, SessionsOK
    <3>2. CASE Keeps(s)
      BY <3>1, <3>2
    <3>3. CASE ~Keeps(s)
      BY <3>1, <3>3
    <3>. QED  BY <3>2, <3>3
  <2>. QED  BY <2>1 DEF SessionsOK
<1>. DEFINE copy == [sessions |-> kept, activeId |-> id, messages |-> held, context |-> sent]
<1>10. Snapshot(list, id, msgs, ctx) = copy
  BY DEF Snapshot, kept, top
<1>11. /\ copy.sessions = kept /\ copy.activeId = id
       /\ copy.messages = held /\ copy.context = sent
  OBVIOUS
<1>. HIDE DEF copy, held, sent
<1>12. SavedOK(n, copy, behind, m)
  BY <1>3, <1>5, <1>7, <1>8, <1>9, <1>11 DEF SavedOK, StoreOK
<1>. QED  BY <1>10, <1>12

LEMMA LastTyped ==
    ASSUME CountsOK, RunOK
    PROVE  /\ Last \in Nat /\ Last <= asked /\ asked \in Nat
           /\ run.phase \in {"answered", "streaming", "connecting", "identity", "paused"}
                => Last = asked - 1
BY WorkspaceAssumption DEF CountsOK, RunOK, Last, Pending

\* Writing local storage, or failing to, keeps the copy in order.
LEMMA PersistKeeps ==
    ASSUME made \in Sessions, made' \in Sessions, made <= made',
           NEW behind, NEW m \in Nat, SavedOK(made, saved, behind, m),
           NEW behind2, NEW m2 \in Nat,
           StoreOK(made', sessions', activeId', messages', context', behind2, m2),
           NEW refused \in BOOLEAN, Persist(refused),
           refused => behind \subseteq behind2 /\ m <= m2
    PROVE  SavedOK(made', saved', behind2, m2)
<1>1. CASE refused
  <2>1. SavedOK(made', saved, behind2, m2)
    BY <1>1, Looser
  <2>2. saved' = saved
    BY <1>1 DEF Persist
  <2>. QED  BY <2>1, <2>2
<1>2. CASE ~refused
  <2>1. SavedOK(made', Snapshot(sessions', activeId', messages', context'), behind2, m2)
    BY SnapshotInOrder
  <2>2. saved' = Snapshot(sessions', activeId', messages', context')
    BY <1>2 DEF Persist
  <2>. QED  BY <2>1, <2>2
<1>. QED  BY <1>1, <1>2

\* Writing local storage counts the refusals.
LEMMA PersistCounts ==
    ASSUME NEW refused \in BOOLEAN, Persist(refused), faults \in 0 .. MaxFaults
    PROVE  faults' \in 0 .. MaxFaults
BY WorkspaceAssumption DEF Persist, Refused

\* Adding a message other than an answer keeps the sessions in order.
LEMMA AddingQuietly ==
    ASSUME NEW behind, NEW top \in Nat,
           StoreOK(made, sessions, activeId, messages, context, behind, top),
           NEW m \in Messages, m.kind # "answer"
    PROVE  StoreOK(made, sessions, activeId, Added(<<m>>), context, behind, top)
<1>. DEFINE new == [messages EXCEPT ![activeId] = @ \o <<m>>]
<1>1. CASE activeId \notin Listed
  BY <1>1 DEF Added
<1>2. CASE activeId \in Listed
  <2>1. activeId \in Sessions /\ messages = [s \in Sessions |-> messages[s]]
    BY DEF StoreOK, ListOK, SessionsOK
  <2>2. /\ DOMAIN new = Sessions /\ new = [s \in Sessions |-> new[s]]
        /\ new[activeId] = messages[activeId] \o <<m>>
        /\ \A s \in Sessions : s # activeId => new[s] = messages[s]
    BY <2>1
  <2>3. SessionOK(activeId, new[activeId], context[activeId], behind, top)
    <3>1. SessionOK(activeId, messages[activeId], context[activeId], behind, top)
      BY <2>1 DEF StoreOK, SessionsOK
    <3>. QED  BY <2>1, <2>2, <3>1, QuietMessage
  <2>. HIDE DEF new
  <2>4. SessionsOK(new, context, behind, top)
    BY <2>2, <2>3 DEF StoreOK, SessionsOK
  <2>5. DOMAIN sessions = 1 .. Len(sessions)
    BY LenProperties DEF StoreOK, ListOK
  <2>6. HeldOnly(sessions, new, context)
    BY <1>2, <2>2, <2>5 DEF StoreOK, HeldOnly, Listed
  <2>7. Added(<<m>>) = new
    BY <1>2 DEF Added, new
  <2>. QED  BY <2>4, <2>6, <2>7 DEF StoreOK
<1>. QED  BY <1>1, <1>2

\* Storing the newest answer in the session on screen keeps it in order, its
\* context behind, whether the answer is added or replaces one.
LEMMA StoringAnswer ==
    ASSUME NEW behind, NEW m \in Nat \ {0},
           StoreOK(made, sessions, activeId, messages, context, behind, m - 1), activeId \in Listed,
           NEW reply \in Replies, reply.n = m,
           NEW seq,
           seq \in {Replaced(messages[activeId], Given(reply, activeId)),
                    messages[activeId] \o <<Given(reply, activeId)>>}
    PROVE  /\ StoreOK(made, sessions, activeId, [messages EXCEPT ![activeId] = seq], context,
                      behind \cup {activeId}, m)
           /\ EndsWith([messages EXCEPT ![activeId] = seq][activeId], reply)
<1>. DEFINE new == [messages EXCEPT ![activeId] = seq]
            later == behind \cup {activeId}
<1>1. /\ activeId \in Sessions
      /\ messages = [s \in Sessions |-> messages[s]] /\ context = [s \in Sessions |-> context[s]]
      /\ DOMAIN messages = Sessions /\ DOMAIN context = Sessions
      /\ \A s \in Sessions : SessionOK(s, messages[s], context[s], behind, m - 1)
  BY DEF StoreOK, ListOK, SessionsOK
<1>2. /\ DOMAIN new = Sessions /\ new = [s \in Sessions |-> new[s]]
      /\ new[activeId] = seq
      /\ \A s \in Sessions : s # activeId => new[s] = messages[s]
  BY <1>1
<1>. HIDE DEF new
<1>3. activeId \in later /\ behind \subseteq later
  OBVIOUS
<1>. HIDE DEF later
<1>4. SessionOK(activeId, seq, context[activeId], later, m) /\ EndsWith(seq, reply)
  <2>1. SessionOK(activeId, messages[activeId], context[activeId], behind, m - 1) /\ m \in Nat
    BY <1>1
  <2>2. /\ SessionOK(activeId, Replaced(messages[activeId], Given(reply, activeId)), context[activeId], later, m)
        /\ EndsWith(Replaced(messages[activeId], Given(reply, activeId)), reply)
    BY <1>1, <1>3, <2>1, AnswerReplaced
  <2>3. /\ SessionOK(activeId, messages[activeId] \o <<Given(reply, activeId)>>, context[activeId], later, m)
        /\ EndsWith(messages[activeId] \o <<Given(reply, activeId)>>, reply)
    BY <1>1, <1>3, <2>1, AnswerAdded
  <2>. QED  BY <2>2, <2>3
<1>5. \A s \in Sessions : s # activeId => SessionOK(s, messages[s], context[s], later, m)
  <2>1. m - 1 \in Int /\ m \in Int /\ m - 1 <= m
    OBVIOUS
  <2>. QED  BY <1>1, <1>3, <2>1, LooserSession
<1>6. \A s \in Sessions : SessionOK(s, new[s], context[s], later, m)
  BY <1>2, <1>4, <1>5
<1>7. SessionsOK(new, context, later, m)
  BY <1>1, <1>2, <1>6 DEF SessionsOK
<1>8. DOMAIN sessions = 1 .. Len(sessions)
  BY LenProperties DEF StoreOK, ListOK
<1>9. HeldOnly(sessions, new, context)
  BY <1>2, <1>8 DEF StoreOK, HeldOnly, Listed
<1>. QED  BY <1>2, <1>4, <1>7, <1>9 DEF StoreOK, new, later

\* Applying its context takes the session on screen out of those behind.
LEMMA ApplyingContext ==
    ASSUME NEW behind, NEW m \in Nat,
           StoreOK(made, sessions, activeId, messages, context, behind, m), activeId \in Listed,
           NEW reply \in Replies, reply.n = m, EndsWith(messages[activeId], reply)
    PROVE  StoreOK(made, sessions, activeId, messages, [context EXCEPT ![activeId] = reply],
                   behind \ {activeId}, m)
<1>. DEFINE ctx == [context EXCEPT ![activeId] = reply]
            later == behind \ {activeId}
<1>1. /\ activeId \in Sessions
      /\ messages = [s \in Sessions |-> messages[s]] /\ context = [s \in Sessions |-> context[s]]
      /\ DOMAIN messages = Sessions /\ DOMAIN context = Sessions
      /\ \A s \in Sessions : SessionOK(s, messages[s], context[s], behind, m)
  BY DEF StoreOK, ListOK, SessionsOK
<1>2. /\ DOMAIN ctx = Sessions /\ ctx = [s \in Sessions |-> ctx[s]]
      /\ ctx[activeId] = reply
      /\ \A s \in Sessions : s # activeId => ctx[s] = context[s]
  BY <1>1
<1>3. \A s \in Sessions : s # activeId => (s \in behind => s \in later)
  OBVIOUS
<1>. HIDE DEF ctx, later
<1>4. SessionOK(activeId, messages[activeId], reply, later, m)
  BY <1>1, ContextApplied
<1>5. \A s \in Sessions : SessionOK(s, messages[s], ctx[s], later, m)
  BY <1>1, <1>2, <1>3, <1>4, LooserSession
<1>6. SessionsOK(messages, ctx, later, m)
  BY <1>1, <1>2, <1>5 DEF SessionsOK
<1>7. DOMAIN sessions = 1 .. Len(sessions)
  BY LenProperties DEF StoreOK, ListOK
<1>8. HeldOnly(sessions, messages, ctx)
  BY <1>2, <1>7 DEF StoreOK, HeldOnly, Listed
<1>. QED  BY <1>6, <1>8 DEF StoreOK, ctx, later

\* With no session on screen in the list there is nothing to be behind.
LEMMA NothingOnScreen ==
    ASSUME NEW behind, NEW behind2, NEW m \in Nat,
           StoreOK(made, sessions, activeId, messages, context, behind, m), activeId \notin Listed,
           behind \ {activeId} \subseteq behind2
    PROVE  StoreOK(made, sessions, activeId, messages, context, behind2, m)
<1>1. /\ activeId \in Sessions /\ DOMAIN sessions = 1 .. Len(sessions)
      /\ \A s \in Sessions : SessionOK(s, messages[s], context[s], behind, m)
  BY LenProperties DEF StoreOK, ListOK, SessionsOK
<1>2. messages[activeId] = <<>> /\ context[activeId] = NoContext
  BY <1>1 DEF StoreOK, HeldOnly, Listed
<1>3. ASSUME NEW s \in Sessions
      PROVE  SessionOK(s, messages[s], context[s], behind2, m)
  <2>1. CASE s = activeId
    BY <1>2, <2>1, EmptySession
  <2>2. CASE s # activeId
    <3>1. s \in behind => s \in behind2
      BY <2>2
    <3>. QED  BY <1>1, <3>1, LooserSession
  <2>. QED  BY <2>1, <2>2
<1>. QED  BY <1>3 DEF StoreOK, SessionsOK

-----------------------------------------------------------------------------
(* The list of sessions.                                                   *)

\* The session on screen is one of the list.
LEMMA ShownListed ==
    ASSUME ListOK(made, sessions, activeId), made \in Sessions
    PROVE  Shown \in Listed /\ Listed \subseteq Sessions
<1>1. sessions \in Seq(1 .. made) /\ Len(sessions) \in Nat \ {0} /\ DOMAIN sessions = 1 .. Len(sessions)
  BY EmptySeq, LenProperties DEF ListOK
<1>2. 1 .. made \subseteq Sessions
  BY WorkspaceAssumption DEF Sessions
<1>3. Listed \subseteq Sessions
  <2>1. \A i \in 1 .. Len(sessions) : sessions[i] \in 1 .. made
    BY <1>1, ElementOfSeq
  <2>. QED  BY <1>1, <1>2, <2>1 DEF Listed
<1>4. sessions[1] \in Listed
  BY <1>1 DEF Listed
<1>. QED  BY <1>3, <1>4 DEF Shown

\* A new session in front of the list.
LEMMA ListGrows ==
    ASSUME NEW n \in Sessions, NEW m \in Sessions, m = n + 1, NEW list, NEW id, ListOK(n, list, id)
    PROVE  /\ ListOK(m, <<m>> \o list, m)
           /\ \A s \in Sessions :
                (\A i \in 1 .. Len(<<m>> \o list) : (<<m>> \o list)[i] # s)
                    => \A i \in 1 .. Len(list) : list[i] # s
<1>. DEFINE longer == <<m>> \o list
<1>1. n \in Nat /\ m \in 1 .. m /\ 1 .. n \subseteq 1 .. m
  BY WorkspaceAssumption DEF Sessions
<1>2. list \in Seq(1 .. n) /\ list \in Seq(1 .. m) /\ Len(list) \in Nat
  BY <1>1, SeqMonotonic, LenProperties DEF ListOK
<1>3. <<m>> \in Seq(1 .. m) /\ Len(<<m>>) = 1 /\ <<m>>[1] = m
  BY <1>1
<1>4. /\ longer \in Seq(1 .. m) /\ Len(longer) = Len(list) + 1
      /\ longer[1] = m
      /\ \A i \in 2 .. Len(longer) : longer[i] = list[i - 1]
  BY <1>2, <1>3, ConcatProperties
<1>5. \A i \in 1 .. Len(list) : list[i] \in 1 .. n /\ list[i] # m
  BY <1>1, <1>2, ElementOfSeq
<1>. HIDE DEF longer
<1>6. \A i \in 1 .. Len(list) : longer[i + 1] = list[i]
  BY <1>2, <1>4
<1>7. \A i, j \in 1 .. Len(longer) : longer[i] = longer[j] => i = j
  <2>1. ASSUME NEW i \in 1 .. Len(longer), NEW j \in 1 .. Len(longer), longer[i] = longer[j]
        PROVE  i = j
    <3>1. CASE i = 1
      BY <3>1, <2>1, <1>2, <1>4, <1>5
    <3>2. CASE j = 1
      BY <3>2, <2>1, <1>2, <1>4, <1>5
    <3>3. CASE i # 1 /\ j # 1
      <4>1. i - 1 \in 1 .. Len(list) /\ j - 1 \in 1 .. Len(list) /\ list[i - 1] = list[j - 1]
        BY <3>3, <2>1, <1>2, <1>4
      <4>2. i - 1 = j - 1
        BY <4>1 DEF ListOK
      <4>. QED  BY <4>2
    <3>. QED  BY <3>1, <3>2, <3>3
  <2>. QED  BY <2>1
<1>8. longer # <<>>
  BY <1>2, <1>4
<1>9. \A i \in 1 .. Len(list) : i + 1 \in 1 .. Len(longer)
  BY <1>2, <1>4
<1>10. ListOK(m, longer, m)
  BY <1>4, <1>7, <1>8 DEF ListOK
<1>11. ASSUME NEW s \in Sessions, \A i \in 1 .. Len(longer) : longer[i] # s
       PROVE  \A i \in 1 .. Len(list) : list[i] # s
  BY <1>6, <1>9, <1>11
<1>. QED  BY <1>10, <1>11 DEF longer

\* The list without one of several sessions.
LEMMA ListShrinks ==
    ASSUME ListOK(made, sessions, activeId), made \in Sessions, Len(sessions) > 1,
           NEW i \in 1 .. Len(sessions), NEW id \in Sessions
    PROVE  /\ ListOK(made, Without(i), id)
           /\ Without(i)[1] \in Sessions
           /\ \A s \in Sessions :
                (\A j \in 1 .. Len(Without(i)) : Without(i)[j] # s)
                    => s = sessions[i] \/ \A j \in 1 .. Len(sessions) : sessions[j] # s
<1>. DEFINE n == Len(sessions)
            left == SubSeq(sessions, 1, i - 1)
            right == SubSeq(sessions, i + 1, n)
            rest == left \o right
<1>1. /\ sessions \in Seq(1 .. made) /\ n \in Nat /\ n > 1 /\ i \in 1 .. n
      /\ \A j, k \in 1 .. n : sessions[j] = sessions[k] => j = k
  BY LenProperties DEF ListOK
<1>2. \A j \in 1 .. n : sessions[j] \in 1 .. made
  BY <1>1, ElementOfSeq
<1>3. 1 .. made \subseteq Sessions
  BY WorkspaceAssumption DEF Sessions
<1>4. rest = Without(i)
  BY DEF Without
<1>. HIDE DEF n
<1>5. /\ left \in Seq(1 .. made) /\ Len(left) = i - 1
      /\ \A j \in 1 .. i - 1 : left[j] = sessions[j]
  <2>1. \A j \in 1 .. i - 1 : sessions[j] \in 1 .. made
    BY <1>1, <1>2
  <2>2. 1 \in Int /\ i - 1 \in Int /\ (IF 1 <= i - 1 THEN i - 1 - 1 + 1 ELSE 0) = i - 1
    BY <1>1
  <2>3. /\ left \in Seq(1 .. made) /\ Len(left) = i - 1
        /\ \A j \in 1 .. i - 1 - 1 + 1 : left[j] = sessions[1 + j - 1]
    BY <2>1, <2>2, SubSeqProperties
  <2>. HIDE DEF left
  <2>. QED  BY <1>1, <2>3
<1>6. /\ right \in Seq(1 .. made) /\ Len(right) = n - i
      /\ \A j \in 1 .. n - i : right[j] = sessions[j + i]
  <2>1. \A j \in i + 1 .. n : sessions[j] \in 1 .. made
    BY <1>1, <1>2
  <2>2. n \in Int /\ i + 1 \in Int /\ (IF i + 1 <= n THEN n - (i + 1) + 1 ELSE 0) = n - i
    BY <1>1
  <2>3. /\ right \in Seq(1 .. made) /\ Len(right) = n - i
        /\ \A j \in 1 .. n - (i + 1) + 1 : right[j] = sessions[(i + 1) + j - 1]
    BY <2>1, <2>2, SubSeqProperties
  <2>. HIDE DEF right
  <2>. QED  BY <1>1, <2>3
<1>. HIDE DEF left, right
<1>7. /\ rest \in Seq(1 .. made) /\ Len(rest) = n - 1
      /\ \A j \in 1 .. n - 1 : rest[j] = IF j < i THEN sessions[j] ELSE sessions[j + 1]
  <2>1. /\ rest \in Seq(1 .. made) /\ Len(rest) = (i - 1) + (n - i)
        /\ \A j \in 1 .. (i - 1) + (n - i) :
             rest[j] = IF j <= i - 1 THEN left[j] ELSE right[j - (i - 1)]
    <3>1. /\ rest \in Seq(1 .. made) /\ Len(rest) = Len(left) + Len(right)
          /\ \A j \in 1 .. Len(left) + Len(right) :
               rest[j] = IF j <= Len(left) THEN left[j] ELSE right[j - Len(left)]
      BY <1>5, <1>6, ConcatProperties
    <3>. HIDE DEF rest
    <3>. QED  BY <3>1, <1>5, <1>6
  <2>. HIDE DEF rest
  <2>2. ASSUME NEW j \in 1 .. n - 1
        PROVE  rest[j] = IF j < i THEN sessions[j] ELSE sessions[j + 1]
    <3>1. CASE j < i
      BY <3>1, <2>1, <1>1, <1>5
    <3>2. CASE ~(j < i)
      <4>1. j - (i - 1) \in 1 .. n - i /\ (j - (i - 1)) + i = j + 1
        BY <3>2, <1>1
      <4>. QED  BY <3>2, <4>1, <2>1, <1>1, <1>6
    <3>. QED  BY <3>1, <3>2
  <2>. QED  BY <1>1, <2>1, <2>2
<1>. HIDE DEF rest
<1>8. ASSUME NEW j \in 1 .. Len(rest), NEW k \in 1 .. Len(rest), rest[j] = rest[k]
      PROVE  j = k
  <2>. DEFINE At(x) == IF x < i THEN x ELSE x + 1
  <2>1. At(j) \in 1 .. n /\ At(k) \in 1 .. n
    BY <1>1, <1>7
  <2>2. rest[j] = sessions[At(j)] /\ rest[k] = sessions[At(k)]
    BY <1>7
  <2>3. At(j) = At(k)
    BY <1>1, <1>8, <2>1, <2>2
  <2>. QED  BY <1>1, <1>7, <2>3
<1>9. rest # <<>> /\ rest[1] \in Sessions
  <2>1. Len(rest) \in Nat /\ 1 \in 1 .. Len(rest)
    BY <1>1, <1>7
  <2>2. rest[1] \in 1 .. made
    BY <1>7, <2>1, ElementOfSeq
  <2>3. rest # <<>>
    BY <2>1
  <2>. QED  BY <1>3, <2>2, <2>3
<1>10. ASSUME NEW s \in Sessions, \A j \in 1 .. Len(rest) : rest[j] # s,
              NEW j \in 1 .. n, sessions[j] = s
       PROVE  j = i
  <2>1. CASE j < i
    BY <2>1, <1>1, <1>7, <1>10
  <2>2. CASE j > i
    <3>1. j - 1 \in 1 .. Len(rest) /\ rest[j - 1] = sessions[j]
      BY <2>2, <1>1, <1>7
    <3>. QED  BY <3>1, <1>10
  <2>. QED  BY <2>1, <2>2, <1>1
<1>11. ListOK(made, rest, id)
  BY <1>7, <1>8, <1>9 DEF ListOK
<1>. QED  BY <1>4, <1>9, <1>10, <1>11 DEF n

\* Deleting a session empties what is kept for it.
LEMMA DeletedStore ==
    ASSUME NEW behind, NEW m \in Nat,
           StoreOK(made, sessions, activeId, messages, context, behind, m), NEW s \in Sessions,
           NEW n, NEW list, NEW id, ListOK(n, list, id),
           \A t \in Sessions :
              (\A j \in 1 .. Len(list) : list[j] # t)
                  => t = s \/ \A j \in 1 .. Len(sessions) : sessions[j] # t
    PROVE  StoreOK(n, list, id, [messages EXCEPT ![s] = <<>>], [context EXCEPT ![s] = NoContext], behind, m)
<1>. DEFINE msgs == [messages EXCEPT ![s] = <<>>]
            ctx == [context EXCEPT ![s] = NoContext]
<1>1. /\ messages = [t \in Sessions |-> messages[t]] /\ context = [t \in Sessions |-> context[t]]
      /\ \A t \in Sessions : SessionOK(t, messages[t], context[t], behind, m)
  BY DEF StoreOK, SessionsOK
<1>2. /\ DOMAIN msgs = Sessions /\ DOMAIN ctx = Sessions
      /\ msgs = [t \in Sessions |-> msgs[t]] /\ ctx = [t \in Sessions |-> ctx[t]]
      /\ msgs[s] = <<>> /\ ctx[s] = NoContext
      /\ \A t \in Sessions : t # s => msgs[t] = messages[t] /\ ctx[t] = context[t]
  BY <1>1
<1>. HIDE DEF msgs, ctx
<1>3. \A t \in Sessions : SessionOK(t, msgs[t], ctx[t], behind, m)
  BY <1>1, <1>2, EmptySession
<1>4. SessionsOK(msgs, ctx, behind, m)
  BY <1>2, <1>3 DEF SessionsOK
<1>5. HeldOnly(list, msgs, ctx)
  BY <1>2 DEF StoreOK, HeldOnly
<1>. QED  BY <1>4, <1>5 DEF StoreOK, msgs, ctx

-----------------------------------------------------------------------------
(* The invariant is inductive.                                             *)

LEMMA IdleTyped == Idle \in Runs
BY NoContextTyped, WorkspaceAssumption DEF Idle, Runs, Free

LEMMA InitInv == Init => Inv
<1>. SUFFICES ASSUME Init PROVE Inv
  OBVIOUS
<1>1. 1 \in Sessions /\ made = 1
  BY WorkspaceAssumption DEF Init, Sessions
<1>2. CountsOK
  <2>1. demo \in BOOLEAN /\ known = FALSE /\ torn = {}
    BY DEF Init
  <2>2. asked \in 0 .. MaxAsks /\ reloads \in 0 .. MaxReloads /\ faults \in 0 .. MaxFaults
    BY WorkspaceAssumption DEF Init
  <2>3. mistakes \in [Sessions -> SUBSET Examples]
    BY DEF Init
  <2>. QED  BY <1>1, <2>1, <2>2, <2>3 DEF CountsOK
<1>3. RunOK /\ ReplyOK
  BY IdleTyped DEF Init, RunOK, ReplyOK, Pending, Idle
<1>4. Last \in Nat
  BY <1>2, <1>3, LastTyped
<1>5. StoreOK(made, sessions, activeId, messages, context, Behind, Last)
  BY <1>1, <1>4, NewStore DEF Init
<1>6. SavedOK(made, saved, Behind, Last)
  BY DEF Init, SavedOK
<1>. QED  BY <1>2, <1>3, <1>5, <1>6 DEF Inv, Stored

\* Outside the moment between the two writes the sessions behind are known.
LEMMA BehindIsTorn ==
    /\ CountsOK /\ run.phase # "storing" => Behind = torn
    /\ CountsOK /\ run.phase = "storing" /\ activeId \in Sessions => Behind = torn \cup {activeId}
BY DEF Behind, InPart, CountsOK

LEMMA NextBehindIsTorn ==
    /\ CountsOK' /\ run'.phase # "storing" => Behind' = torn'
    /\ CountsOK' /\ run'.phase = "storing" /\ activeId' \in Sessions => Behind' = torn' \cup {activeId'}
BY DEF Behind, InPart, CountsOK

\* A change of the store that leaves it in order leaves its copy in order.
LEMMA ChangeKeeps ==
    ASSUME Inv, made' \in Sessions, made <= made', Change,
           Behind \subseteq Behind', Last' \in Nat, Last <= Last',
           StoreOK(made', sessions', activeId', messages', context', Behind', Last')
    PROVE  Stored' /\ faults' \in 0 .. MaxFaults
<1>1. made \in Sessions /\ faults \in 0 .. MaxFaults /\ SavedOK(made, saved, Behind, Last) /\ Last \in Nat
  BY LastTyped DEF Inv, CountsOK, Stored
<1>2. PICK refused \in BOOLEAN : Persist(refused)
  BY DEF Change
<1>3. SavedOK(made', saved', Behind', Last')
  BY <1>1, <1>2, PersistKeeps
<1>. QED  BY <1>1, <1>2, <1>3, PersistCounts DEF Stored

\* While nothing is pending the sidebar changes neither bound.
LEMMA SameBounds ==
    ASSUME Inv, ~Pending, UNCHANGED <<run, torn, asked>>
    PROVE  Behind' = Behind /\ Last' = Last /\ Last \in Nat
<1>1. Last' = Last /\ Last \in Nat
  BY LastTyped DEF Last, Inv
<1>2. run.phase = "idle"
  BY DEF Pending
<1>. QED  BY <1>1, <1>2 DEF Behind, InPart

LEMMA NewChatKeeps ==
    ASSUME Inv, NewChat
    PROVE  Stored' /\ made' \in Sessions /\ faults' \in 0 .. MaxFaults
<1>1. made \in Sessions /\ made' \in Sessions /\ made' = made + 1 /\ made <= made'
  BY WorkspaceAssumption DEF Inv, CountsOK, NewChat, Sessions
<1>2. /\ ListOK(made, sessions, activeId) /\ HeldOnly(sessions, messages, context)
      /\ SessionsOK(messages, context, Behind, Last)
  BY DEF Inv, Stored, StoreOK
<1>3. /\ ListOK(made', <<made'>> \o sessions, made')
      /\ HeldOnly(<<made'>> \o sessions, messages, context)
  BY <1>1, <1>2, ListGrows DEF HeldOnly
<1>4. /\ sessions' = <<made'>> \o sessions /\ activeId' = made' /\ UNCHANGED <<messages, context>>
      /\ Change /\ ~Pending /\ UNCHANGED <<run, torn, asked>>
  BY DEF NewChat, SidebarEnabled
<1>5. Behind' = Behind /\ Last' = Last /\ Last \in Nat
  BY <1>4, SameBounds
<1>6. StoreOK(made', sessions', activeId', messages', context', Behind', Last')
  BY <1>2, <1>3, <1>4, <1>5 DEF StoreOK
<1>. QED  BY <1>1, <1>4, <1>5, <1>6, ChangeKeeps

LEMMA SelectKeeps ==
    ASSUME Inv, NEW s \in Sessions, Select(s)
    PROVE  Stored' /\ made' \in Sessions /\ faults' \in 0 .. MaxFaults
<1>1. made \in Sessions /\ made' = made /\ made <= made'
  BY DEF Inv, CountsOK, Select, Sessions
<1>2. ~Pending /\ UNCHANGED <<run, torn, asked>> /\ Change
  BY DEF Select, SidebarEnabled
<1>3. Behind' = Behind /\ Last' = Last /\ Last \in Nat
  BY <1>2, SameBounds
<1>4. StoreOK(made', sessions', activeId', messages', context', Behind', Last')
  BY <1>1, <1>3 DEF Inv, Stored, StoreOK, ListOK, Select
<1>. QED  BY <1>1, <1>2, <1>3, <1>4, ChangeKeeps

LEMMA DeleteKeeps ==
    ASSUME Inv, NEW s \in Sessions, Delete(s)
    PROVE  Stored' /\ made' \in Sessions /\ faults' \in 0 .. MaxFaults
<1>1. /\ made \in Sessions /\ ListOK(made, sessions, activeId)
      /\ StoreOK(made, sessions, activeId, messages, context, Behind, Last)
      /\ activeId \in Sessions
  BY DEF Inv, CountsOK, Stored, StoreOK, ListOK
<1>2. sessions \in Seq(1 .. made) /\ Len(sessions) \in Nat \ {0} /\ DOMAIN sessions = 1 .. Len(sessions)
  BY <1>1, EmptySeq, LenProperties DEF ListOK
<1>3. /\ messages' = [messages EXCEPT ![s] = <<>>] /\ context' = [context EXCEPT ![s] = NoContext]
      /\ activeId' = (IF activeId = s THEN sessions'[1] ELSE activeId)
      /\ Change /\ ~Pending /\ UNCHANGED <<run, torn, asked>>
  BY DEF Delete, SidebarEnabled
<1>. DEFINE Emptied ==
              /\ made' \in Sessions /\ made <= made'
              /\ ListOK(made', sessions', activeId')
              /\ \A t \in Sessions :
                   (\A j \in 1 .. Len(sessions') : sessions'[j] # t)
                       => t = s \/ \A j \in 1 .. Len(sessions) : sessions[j] # t
<1>4. PICK i \in 1 .. Len(sessions) :
          /\ sessions[i] = s
          /\ IF Len(sessions) > 1
             THEN sessions' = Without(i) /\ made' = made
             ELSE /\ made < MaxSessions
                  /\ made' = made + 1
                  /\ sessions' = <<made'>>
  BY <1>2 DEF Delete
<1>5. ASSUME Len(sessions) > 1 PROVE Emptied
  <2>1. sessions' = Without(i) /\ made' = made
    BY <1>4, <1>5
  <2>2. Without(i)[1] \in Sessions
    BY <1>1, <1>5, ListShrinks
  <2>3. activeId' \in Sessions
    BY <1>1, <1>3, <2>1, <2>2
  <2>4. ListOK(made, Without(i), activeId')
    BY <1>1, <1>5, <2>3, ListShrinks
  <2>5. \A t \in Sessions :
          (\A j \in 1 .. Len(Without(i)) : Without(i)[j] # t)
              => t = sessions[i] \/ \A j \in 1 .. Len(sessions) : sessions[j] # t
    BY <1>1, <1>5, ListShrinks
  <2>6. made <= made'
    BY <1>1, <2>1, WorkspaceAssumption DEF Sessions
  <2>. QED  BY <1>1, <1>4, <2>1, <2>4, <2>5, <2>6
<1>6. ASSUME ~(Len(sessions) > 1) PROVE Emptied
  <2>1. Len(sessions) = 1 /\ i = 1
    BY <1>2, <1>6
  <2>2. sessions' = <<made'>> /\ made' = made + 1 /\ made < MaxSessions
    BY <1>4, <1>6
  <2>3. made' \in Sessions /\ made <= made'
    BY <1>1, <2>2, WorkspaceAssumption DEF Sessions
  <2>4. activeId' \in Sessions
    BY <1>1, <1>3, <2>2, <2>3
  <2>5. ListOK(made', sessions', activeId')
    <3>1. \E m : m = 0 /\ m \in Nat
      OBVIOUS
    <3>. QED  BY <2>2, <2>3, <2>4, <3>1, NewStore DEF StoreOK, ListOK
  <2>. QED  BY <1>4, <2>1, <2>2, <2>3, <2>5
<1>7. Emptied
  BY <1>5, <1>6
<1>8. Behind' = Behind /\ Last' = Last /\ Last \in Nat
  BY <1>3, SameBounds
<1>9. StoreOK(made', sessions', activeId', messages', context', Behind', Last')
  BY <1>1, <1>3, <1>7, <1>8, DeletedStore
<1>. QED  BY <1>3, <1>7, <1>8, <1>9, ChangeKeeps

\* A message other than an answer is added, as Send and Fail do.
LEMMA QuietKeeps ==
    ASSUME Inv, NEW m \in Messages, m.kind # "answer", messages' = Added(<<m>>),
           UNCHANGED <<made, sessions, activeId, context>>, Change,
           Behind \subseteq Behind', Last' \in Nat, Last <= Last'
    PROVE  Stored' /\ faults' \in 0 .. MaxFaults
<1>1. made \in Sessions /\ made' = made /\ made <= made' /\ Last \in Nat
  BY LastTyped DEF Inv, CountsOK, Sessions
<1>2. StoreOK(made, sessions, activeId, Added(<<m>>), context, Behind, Last)
  BY <1>1, AddingQuietly DEF Inv, Stored
<1>3. StoreOK(made', sessions', activeId', messages', context', Behind', Last')
  BY <1>1, <1>2, Looser
<1>. QED  BY <1>1, <1>3, ChangeKeeps

\* The store and its copy stay, and so does their order.
LEMMA StoreStays ==
    ASSUME Inv, UNCHANGED storeVars, UNCHANGED made,
           Behind \subseteq Behind', Last' \in Nat, Last <= Last'
    PROVE  Stored'
<1>1. made \in Sessions /\ made' = made /\ made <= made' /\ Last \in Nat
  BY LastTyped DEF Inv, CountsOK, Sessions
<1>2. /\ StoreOK(made, sessions, activeId, messages, context, Behind', Last')
      /\ SavedOK(made, saved, Behind', Last')
  BY <1>1, Looser DEF Inv, Stored
<1>. QED  BY <1>1, <1>2 DEF Stored, storeVars

LEMMA FailKeeps ==
    ASSUME Inv, NEW m \in {Stopped, Failed}, Fail(m), UNCHANGED <<made, asked, torn>>,
           run.phase # "storing"
    PROVE  Stored' /\ run' = Idle /\ UNCHANGED <<sessions, activeId>> /\ faults' \in 0 .. MaxFaults
<1>1. m \in Messages /\ m.kind # "answer"
  BY DEF Messages, Stopped, Failed
<1>2. run' = Idle /\ run'.phase = "idle"
  BY DEF Fail, Idle
<1>3. Behind = torn /\ Behind \subseteq Behind'
  BY <1>2, BehindIsTorn DEF Inv, CountsOK, Behind, InPart
<1>4. Last' \in Nat /\ Last <= Last'
  BY <1>2, LastTyped DEF Inv, Last
<1>5. CASE run.replace
  BY <1>2, <1>3, <1>4, <1>5, StoreStays DEF Fail, storeVars, Inv, CountsOK
<1>6. CASE ~run.replace
  BY <1>1, <1>2, <1>3, <1>4, <1>6, QuietKeeps DEF Fail
<1>. QED  BY <1>5, <1>6

\* The store's list alone says what is on screen.
LEMMA SameScreen ==
    ASSUME UNCHANGED <<sessions, activeId>>
    PROVE  Shown' = Shown
BY DEF Shown, Listed

LEMMA ScreenTyped ==
    ASSUME Inv
    PROVE  Shown \in Sessions /\ Shown # 0 /\ (Pending => run.home \in Sessions)
<1>1. Shown \in Sessions
  BY ShownListed DEF Inv, CountsOK, Stored, StoreOK
<1>2. 0 \notin Sessions
  BY DEF Sessions
<1>. QED  BY <1>1, <1>2 DEF Inv, RunOK

LEMMA ScreenInv == Inv => Shown \in Sessions
BY ScreenTyped

LEMMA NextScreenTyped == Inv' => (Shown \in Sessions)'
BY ScreenInv, PTL

\* A step of the page and the step of the shell it is.
Good ==
    /\ Inv'
    /\ [Shell!ShellNext]_(Shell!shellVars)

LEMMA SidebarGood ==
    ASSUME Inv, SidebarStep
    PROVE  Good
<1>1. Stored' /\ made' \in Sessions /\ faults' \in 0 .. MaxFaults
  BY NewChatKeeps, SelectKeeps, DeleteKeeps DEF SidebarStep
<1>2. ~Pending /\ UNCHANGED <<demo, run, asked, known, mistakes, torn, reloads>>
  BY DEF SidebarStep, NewChat, Select, Delete, SidebarEnabled
<1>3. Inv'
  BY <1>1, <1>2 DEF Inv, CountsOK, RunOK, ReplyOK, Pending
<1>4. Shown' \in Sessions
  BY <1>3, NextScreenTyped DEF Sessions
<1>5. Shell!Show(Shown')
  BY <1>2 DEF Shell!Show, Shell!Busy, Inv, RunOK
<1>. QED  BY <1>3, <1>4, <1>5 DEF Good, Shell!ShellNext

\* A question is asked from the session on screen, or not at all.
Texts == {Free} \cup Bar \cup Curated

LEMMA BeginGood ==
    ASSUME Inv, ~Pending, NEW q \in Texts, NEW wrong \in BOOLEAN, NEW replace \in BOOLEAN,
           Begin(q, wrong, replace), Stored', CountsOK', asked' > 0, UNCHANGED <<sessions, activeId>>
    PROVE  Good
<1>1. Shown' = Shown /\ Shown \in Sessions /\ Shown # 0
  BY SameScreen, ScreenTyped
<1>2. Shown \in 0 .. MaxSessions
  BY <1>1 DEF Sessions
<1>3. /\ run' \in Runs /\ run'.home = Shown
      /\ run'.phase \in {"paused", "identity", "connecting"}
  <2>1. PICK phase \in {FirstAwait, "paused"} :
          run' = [phase |-> phase, home |-> Shown, q |-> q, wrong |-> wrong,
                  replace |-> replace, aborted |-> FALSE, heard |-> {}, reply |-> NoContext]
    BY DEF Begin
  <2>2. phase \in {"paused", "identity", "connecting"}
    BY DEF FirstAwait
  <2>. QED  BY <1>2, <2>1, <2>2, NoContextTyped DEF Runs, Texts
<1>4. RunOK' /\ ReplyOK'
  BY <1>1, <1>3 DEF RunOK, ReplyOK, Pending
<1>5. Shell!Ask
  BY <1>1, <1>3 DEF Shell!Ask, Shell!Busy, Inv, RunOK
<1>. QED  BY <1>4, <1>5 DEF Good, Inv, Shell!ShellNext

\* A question asked when nothing is pending leaves the bounds in place.
LEMMA AskBounds ==
    ASSUME Inv, ~Pending, asked' = asked + 1, UNCHANGED torn,
           run' = run \/ \E q, wrong, replace : Begin(q, wrong, replace)
    PROVE  Behind \subseteq Behind' /\ Last' \in Nat /\ Last <= Last' /\ asked' > 0
<1>1. run.phase = "idle" /\ asked \in Nat /\ Last = asked
  BY WorkspaceAssumption DEF Pending, Inv, CountsOK, Last
<1>2. run'.phase \in {"idle", "paused", "identity", "connecting"}
  <2>1. CASE run' = run
    BY <1>1, <2>1
  <2>2. CASE \E q, wrong, replace : Begin(q, wrong, replace)
    BY <2>2 DEF Begin, FirstAwait
  <2>. QED  BY <2>1, <2>2
<1>3. Behind \subseteq Behind'
  BY <1>1, <1>2 DEF Behind, InPart
<1>4. Last' \in {asked + 1, asked}
  BY <1>1 DEF Last
<1>. QED  BY <1>1, <1>3, <1>4

LEMMA SendGood ==
    ASSUME Inv, NEW q \in Texts, NEW wrong \in BOOLEAN, Send(q, wrong)
    PROVE  Good
<1>. DEFINE m == Question(q, wrong)
<1>1. m \in Messages /\ m.kind # "answer"
  <2>1. m \in {Question(text, w) : text \in {Free} \cup Bar \cup Curated, w \in BOOLEAN}
    BY DEF Texts
  <2>. QED  BY <2>1 DEF Messages, Question
<1>2. /\ messages' = Added(<<m>>) /\ ~Pending
      /\ UNCHANGED <<made, sessions, activeId, context>>
      /\ UNCHANGED <<demo, known, mistakes, torn, reloads>>
      /\ asked' = asked + 1 /\ asked < MaxAsks
  BY DEF Send
<1>3. PICK refused \in BOOLEAN :
        /\ Persist(refused)
        /\ IF refused THEN UNCHANGED run ELSE Begin(q, wrong, FALSE)
  BY DEF Send
<1>. HIDE DEF m
<1>4. Change
  BY <1>3 DEF Change
<1>5. Behind \subseteq Behind' /\ Last' \in Nat /\ Last <= Last' /\ asked' > 0
  BY <1>2, <1>3, AskBounds
<1>6. Stored' /\ faults' \in 0 .. MaxFaults
  BY <1>1, <1>2, <1>4, <1>5, QuietKeeps
<1>7. CountsOK'
  BY <1>2, <1>6, WorkspaceAssumption DEF Inv, CountsOK
<1>8. CASE refused
  <2>1. Shown' = Shown /\ run' = run
    BY <1>2, <1>3, <1>8, SameScreen
  <2>2. RunOK' /\ ReplyOK'
    BY <1>2, <2>1 DEF Inv, RunOK, ReplyOK, Pending
  <2>. QED  BY <1>6, <1>7, <2>1, <2>2 DEF Good, Inv, Shell!shellVars
<1>9. CASE ~refused
  <2>1. Begin(q, wrong, FALSE) /\ FALSE \in BOOLEAN
    BY <1>3, <1>9
  <2>. QED  BY <1>2, <1>5, <1>6, <1>7, <2>1, BeginGood
<1>. QED  BY <1>8, <1>9

LEMMA RetryGood ==
    ASSUME Inv, NEW i \in DOMAIN messages[Shown], Retry(i)
    PROVE  Good
<1>1. messages[Shown] \in Seq(Messages)
  BY ScreenTyped DEF Inv, Stored, StoreOK, SessionsOK, SessionOK
<1>2. PICK k \in DOMAIN messages[Shown] :
          /\ messages[Shown][k].kind = "question"
          /\ Begin(messages[Shown][k].q, messages[Shown][k].wrong, TRUE)
  BY DEF Retry, AskedBefore
<1>. DEFINE m == messages[Shown][k]
<1>3. m \in Messages
  BY <1>1, LenProperties, ElementOfSeq
<1>4. PICK q \in Texts, wrong \in BOOLEAN : m = Question(q, wrong)
  BY <1>2, <1>3 DEF Messages, Answer, Stopped, Failed, Texts
<1>5. m.q = q /\ m.wrong = wrong
  BY <1>4 DEF Question
<1>6. /\ ~Pending /\ asked' = asked + 1 /\ asked < MaxAsks
      /\ UNCHANGED storeVars
      /\ UNCHANGED <<demo, made, known, mistakes, torn, reloads, faults>>
  BY DEF Retry
<1>7. Begin(q, wrong, TRUE) /\ TRUE \in BOOLEAN
  BY <1>2, <1>5
<1>8. Behind \subseteq Behind' /\ Last' \in Nat /\ Last <= Last' /\ asked' > 0
  BY <1>6, <1>7, AskBounds
<1>9. Stored'
  BY <1>6, <1>8, StoreStays
<1>10. CountsOK'
  BY <1>6, WorkspaceAssumption DEF Inv, CountsOK
<1>. QED  BY <1>6, <1>7, <1>8, <1>9, <1>10, BeginGood DEF storeVars

\* The run ends and leaves the store in order.
LEMMA EndGood ==
    ASSUME Inv, Pending, run' = Idle, Stored', CountsOK', UNCHANGED <<sessions, activeId>>
    PROVE  Good
<1>1. Shown' = Shown
  BY SameScreen
<1>2. run.home # 0 /\ run'.home = 0 /\ run'.phase = "idle"
  BY ScreenTyped DEF Idle, Inv, RunOK
<1>3. RunOK' /\ ReplyOK'
  BY <1>2, IdleTyped DEF RunOK, ReplyOK, Pending
<1>4. Shell!Settle
  BY <1>1, <1>2 DEF Shell!Settle, Shell!Busy
<1>. QED  BY <1>3, <1>4 DEF Good, Inv, Shell!ShellNext

\* The run goes on and leaves the store in order.
LEMMA ProgressGood ==
    ASSUME Inv, Pending, Stored', CountsOK', ReplyOK', UNCHANGED <<sessions, activeId, asked>>,
           run' \in Runs, run'.home = run.home, run'.phase # "idle"
    PROVE  Good
<1>1. Shown' = Shown
  BY SameScreen
<1>2. RunOK'
  BY <1>1 DEF Inv, RunOK, Pending
<1>. QED  BY <1>1, <1>2 DEF Good, Inv, Shell!shellVars

\* The phases before the reply is there.
Awaiting == {"paused", "identity", "connecting", "streaming"}

\* The run goes on and leaves the store alone.
LEMMA AwaitGood ==
    ASSUME Inv, UNCHANGED storeVars, UNCHANGED <<made, torn, asked>>, CountsOK',
           run.phase \in Awaiting, run'.phase \in Awaiting \cup {"answered", "failing"},
           run' \in Runs, run'.home = run.home,
           run'.phase = "answered" => run'.reply.n = asked /\ (demo' \/ run'.heard = {"result", "done"})
    PROVE  Good
<1>1. Pending /\ run'.phase \notin {"idle", "storing"} /\ run.phase # "storing"
  BY DEF Pending, Awaiting
<1>2. Behind \subseteq Behind'
  BY <1>1 DEF Behind, InPart
<1>3. Last = asked - 1 /\ Last \in Nat /\ asked \in Nat
  BY LastTyped DEF Awaiting, Inv
<1>4. Last' \in {asked - 1, asked}
  BY <1>3 DEF Last
<1>5. Stored'
  BY <1>2, <1>3, <1>4, StoreStays
<1>6. ReplyOK'
  BY <1>1 DEF ReplyOK
<1>. QED  BY <1>1, <1>5, <1>6, ProgressGood DEF storeVars

LEMMA FailureGood ==
    ASSUME Inv, Pending, NEW m \in {Stopped, Failed}, Fail(m), run.phase # "storing",
           UNCHANGED <<demo, made, asked, known, mistakes, torn, reloads>>
    PROVE  Good
<1>1. Stored' /\ run' = Idle /\ UNCHANGED <<sessions, activeId>> /\ faults' \in 0 .. MaxFaults
  BY FailKeeps
<1>2. CountsOK'
  BY <1>1 DEF Inv, CountsOK
<1>. QED  BY <1>1, <1>2, EndGood

LEMMA RequestGood ==
    ASSUME Inv, Resume \/ IdentityAnswers \/ IdentityFails \/ Respond \/ Refuse \/ Reject \/ Apologise
                \/ \E event \in {"result", "error", "done"} : Deliver(event)
    PROVE  Good
<1>1. run \in Runs
  BY DEF Inv, RunOK
<1>2. CASE Resume \/ IdentityAnswers \/ Respond
  <2>1. UNCHANGED storeVars /\ UNCHANGED <<made, torn, asked>> /\ run.phase \in Awaiting
    BY <1>2 DEF Resume, IdentityAnswers, Respond, Awaiting, requestUnchanged
  <2>2. \E phase \in {"identity", "connecting", "streaming"} : run' = [run EXCEPT !.phase = phase]
    BY <1>2 DEF Resume, FirstAwait, IdentityAnswers, Respond
  <2>3. /\ run' \in Runs /\ run'.home = run.home
        /\ run'.phase \in Awaiting /\ run'.phase # "answered"
    BY <1>1, <2>2 DEF Runs, Awaiting
  <2>4. CountsOK'
    BY <1>2 DEF Inv, CountsOK, Resume, IdentityAnswers, Respond, requestUnchanged
  <2>. QED  BY <2>1, <2>3, <2>4, AwaitGood
<1>3. CASE \E event \in {"result", "error", "done"} : Deliver(event)
  <2>1. PICK event \in {"result", "error", "done"} : Deliver(event)
    BY <1>3
  <2>2. /\ UNCHANGED storeVars /\ UNCHANGED <<made, torn, asked>>
        /\ run.phase \in Awaiting /\ run.phase # "answered"
    BY <2>1 DEF Deliver, Awaiting, requestUnchanged
  <2>3. run' = [run EXCEPT !.heard = @ \cup {event}]
    BY <2>1 DEF Deliver
  <2>4. run.heard \cup {event} \in SUBSET {"result", "error", "done"}
    BY <1>1 DEF Runs
  <2>5. run' \in Runs /\ run'.home = run.home /\ run'.phase = run.phase
    BY <1>1, <2>3, <2>4 DEF Runs
  <2>6. CountsOK'
    BY <2>1 DEF Inv, CountsOK, Deliver, requestUnchanged
  <2>. QED  BY <2>2, <2>5, <2>6, AwaitGood
<1>4. CASE IdentityFails \/ Refuse \/ Reject \/ Apologise
  <2>1. Pending /\ run.phase # "storing" /\ \E m \in {Stopped, Failed} : Fail(m)
    BY <1>4 DEF IdentityFails, Refuse, Reject, Apologise, Pending
  <2>2. UNCHANGED <<demo, made, asked, known, mistakes, torn, reloads>>
    BY <1>4 DEF IdentityFails, Refuse, Reject, Apologise, requestUnchanged
  <2>. QED  BY <2>1, <2>2, FailureGood
<1>. QED  BY <1>2, <1>3, <1>4

LEMMA AbortGood ==
    ASSUME Inv, Abort
    PROVE  Good
<1>1. run \in Runs /\ TRUE \in BOOLEAN
  BY DEF Inv, RunOK
<1>2. /\ CountsOK' /\ UNCHANGED <<made, torn, asked>> /\ UNCHANGED storeVars
      /\ run.phase \in Awaiting /\ run.phase # "answered"
  BY <1>1 DEF Inv, CountsOK, Abort, requestUnchanged, Pending, Awaiting, Runs
<1>3. run' = [run EXCEPT !.aborted = TRUE]
  BY DEF Abort
<1>4. run' \in Runs /\ run'.home = run.home /\ run'.phase = run.phase
  BY <1>1, <1>3 DEF Runs
<1>. QED  BY <1>2, <1>4, AwaitGood

\* The reply comes back and the store is as it was.
LEMMA ReturnGood ==
    ASSUME Inv, NEW level \in Levels, NEW subject \in {NoSubject} \cup Curated,
           Return(level, subject), CountsOK', UNCHANGED <<demo, made, torn, asked>>,
           run.phase \in Awaiting, demo \/ run.heard = {"result", "done"}
    PROVE  Good
<1>. DEFINE reply == Reply(asked, level, subject)
<1>1. run \in Runs /\ reply \in Replies /\ reply.n = asked
  BY DEF Inv, RunOK, CountsOK, Reply, Replies
<1>2. run' = [run EXCEPT !.phase = "answered", !.reply = reply] /\ UNCHANGED storeVars
  BY DEF Return
<1>. HIDE DEF reply
<1>3. /\ run' \in Runs /\ run'.home = run.home /\ run'.phase = "answered"
      /\ run'.reply.n = asked /\ run'.heard = run.heard
  BY <1>1, <1>2 DEF Runs
<1>. QED  BY <1>2, <1>3, AwaitGood

\* Only a whole stream is an answer.
LEMMA EndOfStreamGood ==
    ASSUME Inv, EndOfStream
    PROVE  Good
<1>1. /\ Pending /\ run.phase \in Awaiting /\ run.phase # "storing"
      /\ UNCHANGED <<demo, made, asked, known, mistakes, torn, reloads>>
  BY DEF EndOfStream, Pending, Awaiting, requestUnchanged
<1>2. CASE ~Complete
  <2>1. Fail(Failed)
    BY <1>2 DEF EndOfStream
  <2>. QED  BY <1>1, <2>1, FailureGood
<1>3. CASE Complete
  <2>1. PICK level \in Levels : Return(level, NoSubject)
    BY <1>3 DEF EndOfStream
  <2>2. CountsOK'
    BY <1>1, <2>1 DEF Return, Inv, CountsOK
  <2>. QED  BY <1>1, <1>3, <2>1, <2>2, ReturnGood DEF Complete
<1>. QED  BY <1>2, <1>3

LEMMA DemoReplyGood ==
    ASSUME Inv, DemoReply
    PROVE  Good
<1>1. /\ Pending /\ run \in Runs /\ run.home \in Sessions
      /\ demo /\ run.phase \in Awaiting /\ UNCHANGED <<demo, made, asked, known, torn, reloads>>
  BY ScreenTyped DEF DemoReply, Pending, Awaiting, Inv, RunOK
<1>2. run.q \in {Free} \cup Bar \cup Curated
  BY <1>1 DEF Runs
<1>3. Subject \in {NoSubject} \cup Curated
  <2>1. CASE \E e \in Examples : run.q = Problem(e) \/
                           (run.q = FollowUp(e) /\ context[run.home].subject = Problem(e))
    <3>1. PICK e \in Examples : run.q = Problem(e) \/ run.q = FollowUp(e)
      BY <2>1
    <3>2. run.q[2] = e
      BY <3>1 DEF Problem, FollowUp
    <3>. QED  BY <2>1, <3>2 DEF Subject, Curated
  <2>2. CASE ~ \E e \in Examples : run.q = Problem(e) \/
                           (run.q = FollowUp(e) /\ context[run.home].subject = Problem(e))
    BY <2>2 DEF Subject
  <2>. QED  BY <2>1, <2>2
<1>4. run.q = Subject => run.q[2] \in Examples
  <2>1. run.q # NoSubject
    <3>1. run.q[1] \in {"free", "too_hard", "too_easy", "problem", "follow-up"}
      BY <1>2 DEF Free, Bar, Curated, Problem, FollowUp
    <3>2. NoSubject[1] = "none"
      BY DEF NoSubject
    <3>. QED  BY <3>1, <3>2
  <2>2. CASE \E e \in Examples : run.q = Problem(e) \/
                           (run.q = FollowUp(e) /\ context[run.home].subject = Problem(e))
    <3>1. PICK e \in Examples : run.q = Problem(e) \/ run.q = FollowUp(e)
      BY <2>2
    <3>. QED  BY <3>1 DEF Problem, FollowUp
  <2>3. CASE ~ \E e \in Examples : run.q = Problem(e) \/
                           (run.q = FollowUp(e) /\ context[run.home].subject = Problem(e))
    BY <2>1, <2>3 DEF Subject
  <2>. QED  BY <2>2, <2>3
<1>. HIDE DEF Subject
<1>. DEFINE isNew == (run.wrong /\ run.q = Subject) /\ run.q[2] \notin mistakes[run.home]
<1>5. mistakes \in [Sessions -> SUBSET Examples] /\ faults \in 0 .. MaxFaults /\ 0 \in Levels
  BY WorkspaceAssumption DEF Inv, CountsOK, Levels
<1>6. \/ /\ Return(0, Subject)
         /\ mistakes' = IF isNew THEN [mistakes EXCEPT ![run.home] = @ \cup {run.q[2]}]
                        ELSE mistakes
      \/ /\ isNew /\ Refused
         /\ run' = [run EXCEPT !.phase = "failing"]
         /\ UNCHANGED <<storeVars, mistakes>>
  BY DEF DemoReply
<1>7. CASE /\ Return(0, Subject)
           /\ mistakes' = IF isNew THEN [mistakes EXCEPT ![run.home] = @ \cup {run.q[2]}]
                          ELSE mistakes
  <2>1. mistakes' \in [Sessions -> SUBSET Examples]
    <3>1. CASE isNew
      <4>1. mistakes' = [mistakes EXCEPT ![run.home] = @ \cup {run.q[2]}] /\ run.q[2] \in Examples
        BY <1>4, <1>7, <3>1
      <4>. QED  BY <1>1, <1>5, <4>1
    <3>2. CASE ~isNew
      BY <1>5, <1>7, <3>2
    <3>. QED  BY <3>1, <3>2
  <2>2. CountsOK'
    BY <1>1, <1>7, <2>1 DEF Return, Inv, CountsOK
  <2>. QED  BY <1>1, <1>3, <1>5, <1>7, <2>2, ReturnGood
<1>8. CASE /\ Refused
           /\ run' = [run EXCEPT !.phase = "failing"]
           /\ UNCHANGED <<storeVars, mistakes>>
  <2>1. faults' \in 0 .. MaxFaults
    BY <1>5, <1>8, WorkspaceAssumption DEF Refused
  <2>2. CountsOK'
    BY <1>1, <1>8, <2>1 DEF Inv, CountsOK
  <2>3. run' \in Runs /\ run'.home = run.home /\ run'.phase = "failing"
    BY <1>1, <1>8 DEF Runs
  <2>. QED  BY <1>1, <1>8, <2>2, <2>3, AwaitGood
<1>. QED  BY <1>6, <1>7, <1>8

\* The answer gets into the store; its session is behind until the context is
\* there too.
LEMMA StoreAnswerGood ==
    ASSUME Inv, StoreAnswer
    PROVE  Good
<1>. DEFINE answer == Given(run.reply, run.home)
<1>1. /\ run.phase = "answered" /\ Pending /\ run \in Runs /\ run.reply \in Replies
      /\ run.reply.n = asked /\ (demo \/ run.heard = {"result", "done"})
  BY DEF StoreAnswer, Inv, RunOK, ReplyOK, Pending, Runs
<1>2. messages' = IF run.replace THEN ReplacedLast(answer) ELSE Added(<<answer>>)
  BY <1>1 DEF StoreAnswer, Given, Answer
<1>3. UNCHANGED <<demo, made, sessions, activeId, context, asked, known, mistakes, reloads>>
  BY DEF StoreAnswer, storingUnchanged
<1>4. PICK refused \in BOOLEAN :
        /\ Persist(refused)
        /\ IF refused THEN run' = [run EXCEPT !.phase = "failing"] /\ Tear
           ELSE run' = [run EXCEPT !.phase = "storing"] /\ UNCHANGED torn
  BY DEF StoreAnswer
<1>. HIDE DEF answer
<1>5. /\ run' \in Runs /\ run'.home = run.home /\ run'.reply = run.reply
      /\ run'.phase = (IF refused THEN "failing" ELSE "storing")
      /\ torn' = (IF refused THEN torn \cup {activeId} ELSE torn)
  BY <1>1, <1>4 DEF Runs, Tear
<1>6. /\ made \in Sessions /\ activeId \in Sessions /\ torn \subseteq Sessions
      /\ asked \in Nat \ {0} /\ Last = asked - 1 /\ faults \in 0 .. MaxFaults
      /\ StoreOK(made, sessions, activeId, messages, context, Behind, asked - 1)
  BY <1>1, LastTyped DEF Inv, CountsOK, RunOK, Stored, StoreOK, ListOK
<1>7. CountsOK'
  BY <1>3, <1>4, <1>5, <1>6, PersistCounts DEF Inv, CountsOK
<1>8. Last' = asked /\ Behind' = Behind \cup {activeId}
  <2>1. Behind = torn
    BY <1>1, BehindIsTorn DEF Inv
  <2>2. Behind' = torn \cup {activeId}
    BY <1>3, <1>5, <1>6, <1>7, NextBehindIsTorn
  <2>. QED  BY <1>3, <1>5, <2>1, <2>2 DEF Last
<1>9. /\ StoreOK(made, sessions, activeId, messages', context, Behind \cup {activeId}, asked)
      /\ activeId \in Listed => EndsWith(messages'[activeId], run.reply)
  <2>1. CASE activeId \notin Listed
    <3>1. messages' = messages
      BY <1>2, <2>1 DEF ReplacedLast, Added
    <3>2. StoreOK(made, sessions, activeId, messages, context, Behind, asked)
      <4>1. asked - 1 \in Nat /\ asked - 1 <= asked /\ made <= made /\ Behind \subseteq Behind
        BY <1>6 DEF Sessions
      <4>. QED  BY <1>6, <4>1, Looser
    <3>3. Behind \ {activeId} \subseteq Behind \cup {activeId}
      OBVIOUS
    <3>. QED  BY <1>6, <2>1, <3>1, <3>2, <3>3, NothingOnScreen
  <2>2. CASE activeId \in Listed
    <3>1. run.home = activeId
      BY <1>1, <2>2 DEF Inv, RunOK, Shown
    <3>2. PICK seq \in {Replaced(messages[activeId], Given(run.reply, activeId)),
                        messages[activeId] \o <<Given(run.reply, activeId)>>} :
            messages' = [messages EXCEPT ![activeId] = seq]
      BY <1>2, <2>2, <3>1 DEF ReplacedLast, Added, answer
    <3>. QED  BY <1>1, <1>6, <2>2, <3>2, StoringAnswer
  <2>. QED  BY <2>1, <2>2
<1>10. StoreOK(made', sessions', activeId', messages', context', Behind', Last')
  BY <1>3, <1>8, <1>9
<1>11. Stored'
  <2>1. Change /\ made' \in Sessions /\ made <= made' /\ Last' \in Nat /\ Last <= Last'
    BY <1>3, <1>4, <1>6, <1>8 DEF Change, Sessions
  <2>2. Behind \subseteq Behind'
    BY <1>8
  <2>. QED  BY <1>10, <2>1, <2>2, ChangeKeeps
<1>12. ReplyOK'
  BY <1>1, <1>3, <1>5, <1>9 DEF ReplyOK, Listed
<1>. QED  BY <1>1, <1>3, <1>5, <1>7, <1>11, <1>12, ProgressGood

\* The context follows; where that was refused the copy stays behind.
LEMMA ApplyResponseGood ==
    ASSUME Inv, ApplyResponse
    PROVE  Good
<1>1. /\ run.phase = "storing" /\ Pending /\ run \in Runs /\ run.reply \in Replies
      /\ run.reply.n = asked
      /\ activeId \in Listed => EndsWith(messages[activeId], run.reply)
  BY DEF ApplyResponse, Inv, RunOK, ReplyOK, Pending, Runs
<1>2. /\ context' = IF activeId \in Listed THEN [context EXCEPT ![activeId] = run.reply] ELSE context
      /\ UNCHANGED <<demo, made, sessions, activeId, messages, asked, known, mistakes, reloads>>
  BY DEF ApplyResponse, storingUnchanged
<1>3. PICK refused \in BOOLEAN :
        /\ Persist(refused)
        /\ IF refused THEN run' = [run EXCEPT !.phase = "failing"] /\ Tear
           ELSE run' = Idle /\ torn' = torn \ {activeId}
  BY DEF ApplyResponse
<1>4. /\ run' \in Runs /\ run'.phase = (IF refused THEN "failing" ELSE "idle")
      /\ (refused => run'.home = run.home)
      /\ torn' = (IF refused THEN torn \cup {activeId} ELSE torn \ {activeId})
  BY <1>1, <1>3, IdleTyped DEF Runs, Tear, Idle
<1>5. /\ made \in Sessions /\ activeId \in Sessions /\ torn \subseteq Sessions
      /\ asked \in Nat /\ Last = asked /\ faults \in 0 .. MaxFaults
      /\ StoreOK(made, sessions, activeId, messages, context, Behind, asked)
      /\ SavedOK(made, saved, Behind, asked)
  BY <1>1, LastTyped DEF Inv, CountsOK, RunOK, Stored, StoreOK, ListOK, Last
<1>6. CountsOK'
  BY <1>2, <1>3, <1>4, <1>5, PersistCounts DEF Inv, CountsOK
<1>7. Last' = asked /\ Behind = torn \cup {activeId} /\ Behind' = torn'
  BY <1>1, <1>2, <1>4, <1>5, <1>6, BehindIsTorn, NextBehindIsTorn DEF Inv, Last
<1>8. /\ Behind \ {activeId} \subseteq Behind'
      /\ refused => Behind \subseteq Behind'
  BY <1>4, <1>7
<1>9. StoreOK(made, sessions, activeId, messages, context', Behind', asked)
  <2>1. CASE activeId \notin Listed
    BY <1>2, <1>5, <1>8, <2>1, NothingOnScreen
  <2>2. CASE activeId \in Listed
    <3>1. StoreOK(made, sessions, activeId, messages, context', Behind \ {activeId}, asked)
      BY <1>1, <1>2, <1>5, <2>2, ApplyingContext
    <3>. QED  BY <1>5, <1>8, <3>1, Looser DEF Sessions
  <2>. QED  BY <2>1, <2>2
<1>10. StoreOK(made', sessions', activeId', messages', context', Behind', Last')
  BY <1>2, <1>7, <1>9
<1>11. Stored'
  <2>1. made' \in Sessions /\ made <= made' /\ Last' \in Nat /\ asked <= Last'
    BY <1>2, <1>5, <1>7 DEF Sessions
  <2>2. SavedOK(made', saved', Behind', Last')
    BY <1>3, <1>5, <1>8, <1>10, <2>1, PersistKeeps
  <2>. QED  BY <1>10, <2>2 DEF Stored
<1>12. CASE refused
  <2>1. ReplyOK' /\ run'.phase # "idle" /\ run'.home = run.home
    BY <1>4, <1>12 DEF ReplyOK
  <2>. QED  BY <1>1, <1>2, <1>4, <1>6, <1>11, <2>1, ProgressGood
<1>13. CASE ~refused
  <2>1. run' = Idle
    BY <1>3, <1>13
  <2>. QED  BY <1>1, <1>2, <1>6, <1>11, <2>1, EndGood
<1>. QED  BY <1>12, <1>13

\* A reload finds a store in order, or makes one.
LEMMA ReloadGood ==
    ASSUME Inv, Reload
    PROVE  Good
<1>1. made \in Sessions
  BY DEF Inv, CountsOK
<1>2. reloads' \in 0 .. MaxReloads
  BY WorkspaceAssumption DEF Reload, Inv, CountsOK
<1>3. saved' = saved /\ run' = Idle /\ known' = FALSE
      /\ UNCHANGED <<demo, asked, mistakes, faults>>
      /\ torn' = IF run.phase = "storing" THEN torn \cup {activeId} ELSE torn
  BY DEF Reload, Tear
<1>4. /\ activeId \in Sessions /\ torn' \subseteq Sessions
      /\ Last \in Nat /\ Last <= asked /\ asked \in Nat
      /\ SavedOK(made, saved, Behind, Last)
  BY <1>3, LastTyped DEF Inv, CountsOK, Stored, StoreOK, ListOK
<1>5. run'.phase = "idle" /\ run'.home = 0 /\ run' \in Runs
  BY <1>3, IdleTyped DEF Idle
<1>6. Last' = asked /\ Behind' = torn'
  BY <1>4, <1>3, <1>5 DEF Last, Behind, InPart
<1>7. Behind = torn'
  BY <1>4, <1>3, BehindIsTorn DEF Inv
<1>8. made' \in Sessions /\ Stored'
  <2>1. CASE saved.sessions # <<>>
    <3>1. /\ sessions' = saved.sessions /\ activeId' = saved.activeId
          /\ messages' = saved.messages /\ context' = saved.context /\ made' = made
      BY <2>1 DEF Reload
    <3>2. saved # NeverSaved
      BY <2>1 DEF NeverSaved
    <3>3. SavedOK(made, saved, Behind', Last') /\ made <= made'
      BY <1>4, <1>1, <1>6, <1>7, <3>1, Looser DEF Sessions
    <3>4. StoreOK(made, saved.sessions, saved.activeId, saved.messages, saved.context, Behind', Last')
      BY <3>2, <3>3 DEF SavedOK
    <3>. QED  BY <1>1, <1>3, <3>1, <3>3, <3>4 DEF Stored
  <2>2. CASE saved.sessions = <<>>
    <3>1. /\ made < MaxSessions /\ made' = made + 1
          /\ sessions' = <<made'>> /\ activeId' = made'
          /\ messages' = [s \in Sessions |-> <<>>]
          /\ context' = [s \in Sessions |-> NoContext]
      BY <2>2 DEF Reload
    <3>2. made' \in Sessions /\ made <= made'
      BY <1>1, <3>1, WorkspaceAssumption DEF Sessions
    <3>3. SavedOK(made', saved', Behind', Last')
      BY <1>4, <1>1, <1>3, <1>6, <1>7, <3>2, Looser
    <3>4. StoreOK(made', sessions', activeId', messages', context', Behind', Last')
      BY <1>4, <1>6, <3>1, <3>2, NewStore
    <3>. QED  BY <3>2, <3>3, <3>4 DEF Stored
  <2>. QED  BY <2>1, <2>2
<1>9. CountsOK'
  BY <1>4, <1>2, <1>3, <1>8 DEF Inv, CountsOK
<1>10. Inv'
  BY <1>8, <1>9, <1>5 DEF Inv, RunOK, ReplyOK, Pending
<1>11. Shown' \in Sessions
  BY <1>10, NextScreenTyped DEF Sessions
<1>12. Shell!Reload(Shown')
  BY <1>5 DEF Shell!Reload
<1>. QED  BY <1>10, <1>11, <1>12 DEF Good, Shell!ShellNext

LEMMA StutterGood ==
    ASSUME Inv, UNCHANGED vars
    PROVE  Good
<1>1. Inv'
  <2>1. CountsOK' /\ RunOK' /\ ReplyOK'
    BY DEF Inv, CountsOK, RunOK, ReplyOK, Pending, Shown, Listed, vars, storeVars
  <2>2. Behind' = Behind /\ Last' = Last
    BY DEF Behind, InPart, Last, vars, storeVars
  <2>3. Stored'
    BY <2>2 DEF Inv, Stored, vars, storeVars
  <2>. QED  BY <2>1, <2>3 DEF Inv
<1>2. UNCHANGED Shell!shellVars
  BY DEF Shell!shellVars, Shown, Listed, vars, storeVars
<1>. QED  BY <1>1, <1>2 DEF Good

-----------------------------------------------------------------------------
(* Theorems.                                                               *)

LEMMA StepGood == Inv /\ [Next]_vars => Good
<1>. SUFFICES ASSUME Inv, [Next]_vars PROVE Good
  OBVIOUS
<1>1. CASE SidebarStep
  BY <1>1, SidebarGood
<1>2. CASE Ask
  <2>1. Typed \subseteq Texts
    BY DEF Typed, Texts
  <2>. QED  BY <1>2, <2>1, SendGood DEF Ask
<1>3. CASE Adjust
  <2>1. {<<"too_hard">>, <<"too_easy">>} \subseteq Texts /\ FALSE \in BOOLEAN
    BY DEF Texts, Bar
  <2>. QED  BY <1>3, <2>1, SendGood DEF Adjust
<1>4. CASE RetryAny
  BY <1>4, RetryGood DEF RetryAny
<1>5. CASE \/ Resume \/ IdentityAnswers \/ IdentityFails \/ Respond \/ Refuse \/ Reject \/ Apologise
           \/ \E event \in {"result", "error", "done"} : Deliver(event)
  BY <1>5, RequestGood
<1>6. CASE EndOfStream
  BY <1>6, EndOfStreamGood
<1>7. CASE DemoReply
  BY <1>7, DemoReplyGood
<1>8. CASE Abort
  BY <1>8, AbortGood
<1>9. CASE Reload
  BY <1>9, ReloadGood
<1>10. CASE StoreAnswer
  BY <1>10, StoreAnswerGood
<1>11. CASE ApplyResponse
  BY <1>11, ApplyResponseGood
<1>12. CASE UNCHANGED vars
  BY <1>12, StutterGood
<1>. QED  BY <1>1, <1>2, <1>3, <1>4, <1>5, <1>6, <1>7, <1>8, <1>9, <1>10, <1>11, <1>12 DEF Next

LEMMA StepInv == Inv /\ [Next]_vars => Inv'
BY StepGood DEF Good

LEMMA Invariant == Spec => []Inv
BY InitInv, StepInv, PTL DEF Spec

LEMMA InvTypes == Inv => TypeOK
<1>. SUFFICES ASSUME Inv PROVE TypeOK
  OBVIOUS
<1>1. sessions \in Seq(1 .. made) /\ DOMAIN sessions = 1 .. Len(sessions)
  BY LenProperties DEF Inv, Stored, StoreOK, ListOK
<1>2. /\ activeId \in Sessions /\ sessions # <<>>
      /\ \A i, j \in DOMAIN sessions : sessions[i] = sessions[j] => i = j
  BY <1>1 DEF Inv, Stored, StoreOK, ListOK
<1>3. messages \in [Sessions -> Seq(Messages)] /\ context \in [Sessions -> Replies]
  BY DEF Inv, Stored, StoreOK, SessionsOK, SessionOK
<1>4. \A s \in Sessions \ Listed : messages[s] = <<>> /\ context[s] = NoContext
  BY <1>1 DEF Inv, Stored, StoreOK, HeldOnly, Listed
<1>5. saved.sessions \in Seq(1 .. made) /\ Len(saved.sessions) <= MaxSaved
  <2>1. CASE saved = NeverSaved
    <3>1. saved.sessions = <<>> /\ <<>> \in Seq(1 .. made) /\ Len(<<>>) = 0 /\ 0 <= MaxSaved
      BY <2>1, WorkspaceAssumption DEF NeverSaved
    <3>. QED  BY <3>1
  <2>2. CASE saved # NeverSaved
    BY <2>2 DEF Inv, Stored, SavedOK, StoreOK, ListOK
  <2>. QED  BY <2>1, <2>2
<1>6. run \in Runs /\ (Pending <=> run.home # 0)
  BY ScreenTyped DEF Inv, RunOK
<1>. QED  BY <1>1, <1>2, <1>3, <1>4, <1>5, <1>6 DEF TypeOK, Inv, CountsOK

\* What the answers and the contexts of the listed sessions are.
LEMMA InvSessions == Inv => OwnAnswers /\ ContextFollowsAnswer
<1>. SUFFICES ASSUME Inv, NEW s \in Listed
              PROVE  /\ \A i \in DOMAIN messages[s] :
                          messages[s][i].kind = "answer" => messages[s][i].home = s /\ messages[s][i].whole
                     /\ FollowsAnswer(messages[s], context[s], InPart(s))
  BY DEF OwnAnswers, ContextFollowsAnswer
<1>1. s \in Sessions
  BY ShownListed DEF Inv, CountsOK, Stored, StoreOK
<1>2. SessionOK(s, messages[s], context[s], Behind, Last)
  BY <1>1 DEF Inv, Stored, StoreOK, SessionsOK
<1>3. DOMAIN messages[s] = 1 .. Len(messages[s])
  BY <1>2, LenProperties DEF SessionOK
<1>4. FollowsAnswer(messages[s], context[s], InPart(s))
  BY <1>1, <1>2 DEF SessionOK, FollowsAnswer, Behind
<1>. QED  BY <1>2, <1>3, <1>4 DEF SessionOK

\* Whatever is clicked, answered, aborted, refused by storage or reloaded, the
\* page's variables keep their types: the list of sessions stays without
\* repetition and never becomes empty.
THEOREM WorkspaceTypes == Spec => []TypeOK
BY Invariant, InvTypes, PTL

\* An answer in a session was asked from that session, and its stream was whole.
THEOREM AnswersAreOwn == Spec => []OwnAnswers
BY Invariant, InvSessions, PTL

\* What a session sends along with its next question never belongs to an answer
\* it does not show, and it stays behind its last answer only where one of the
\* two writes of that answer was refused or cut off, also after a reload.
THEOREM ContextIsOfLastAnswer == Spec => []ContextFollowsAnswer
BY Invariant, InvSessions, PTL

\* Every step of the page is a step of the shell: the session a question came
\* from stays on screen until the question is settled, and no second one starts.
THEOREM PageIsShell == Spec => Shell!ShellInit /\ [][Shell!ShellNext]_(Shell!shellVars)
<1>1. Init => Shell!ShellInit
  BY InitInv, ScreenInv DEF Init, Shell!ShellInit, Idle
<1>2. Inv /\ [Next]_vars => [Shell!ShellNext]_(Shell!shellVars)
  BY StepGood DEF Good
<1>. QED  BY <1>1, <1>2, Invariant, PTL DEF Spec
=============================================================================
