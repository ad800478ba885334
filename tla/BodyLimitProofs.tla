--------------------------- MODULE BodyLimitProofs ---------------------------
(***************************************************************************)
(* Proofs about the body-limit middleware, for every limit and streams of  *)
(* any length.  The buffer is the stream until the application has seen    *)
(* all of it; from then on the application sees what the server hands over.*)
(* What the counter counts is a sum over the buffer; the sum is a recursive*)
(* function, whose existence and growth are proved first, by an induction  *)
(* over the naturals that rests on their least elements.                   *)
(***************************************************************************)
EXTENDS BodyLimit, WellFoundedInduction, TLAPS

LEMMA AppendMessage ==
    ASSUME NEW s \in Seq(Message), NEW msg \in Message
    PROVE  /\ Append(s, msg) \in Seq(Message)
           /\ Len(Append(s, msg)) = Len(s) + 1
           /\ Len(s) \in Nat
  OBVIOUS

LEMMA ChunkSize == \A msg \in Message : msg # Disconnect => msg.size \in Nat
  BY LimitAssumption DEF Message, Chunk, Disconnect

LEMMA InitTypeOK == Init => TypeOK
  BY LimitAssumption DEF Init, TypeOK

LEMMA NextTypeOK == TypeOK /\ [Next]_vars => TypeOK'
<1> SUFFICES ASSUME TypeOK, [Next]_vars PROVE TypeOK'
  OBVIOUS
<1>1. CASE CheckDeclared
  BY <1>1 DEF CheckDeclared, TypeOK
<1>2. CASE Buffer
  <2>1. PICK msg \in Message :
          /\ stream' = Append(stream, msg) /\ messages' = Append(messages, msg)
          /\ IF msg = Disconnect
             THEN pc' = "dropped" /\ UNCHANGED total
             ELSE /\ total' = total + msg.size
                  /\ pc' = IF total' > Limit THEN "refused"
                           ELSE IF msg.more_body THEN "buffering" ELSE "serving"
    BY <1>2 DEF Buffer, Receive
  <2>2. /\ stream' \in Seq(Message) /\ messages' \in Seq(Message)
        /\ index \in 0 .. Len(messages')
    BY <2>1, AppendMessage DEF TypeOK
  <2>3. total' \in Nat
    BY <2>1, ChunkSize DEF TypeOK
  <2>4. pc' \in {"called", "buffering", "serving", "refused", "dropped"}
    BY <2>1
  <2> QED
    BY <1>2, <2>2, <2>3, <2>4 DEF Buffer, TypeOK
<1>3. CASE Replay
  <2>1. CASE index < Len(messages)
    <3>1. messages[index + 1] \in Message /\ index + 1 \in 0 .. Len(messages)
      BY <2>1 DEF TypeOK
    <3>2. /\ index' = index + 1 /\ seen' = Append(seen, messages[index + 1])
          /\ UNCHANGED <<declared, stream, pc, total, messages>>
      BY <1>3, <2>1 DEF Replay, TypeOK
    <3> QED
      BY <3>1, <3>2, AppendMessage DEF TypeOK
  <2>2. CASE index = Len(messages)
    <3>1. PICK msg \in Message :
            stream' = Append(stream, msg) /\ seen' = Append(seen, msg)
      BY <1>3, <2>2 DEF Replay, Receive, TypeOK
    <3> QED
      BY <1>3, <2>2, <3>1, AppendMessage DEF Replay, TypeOK
  <2> QED
    BY <1>3, <2>1, <2>2 DEF Replay
<1>4. CASE UNCHANGED vars
  BY <1>4 DEF vars, TypeOK
<1> QED
  BY <1>1, <1>2, <1>3, <1>4 DEF Next

\* The middleware's variables keep their types, for every limit.
THEOREM BodyTypeOK == Spec => []TypeOK
  BY InitTypeOK, NextTypeOK, PTL DEF Spec

----------------------------------------------------------------------------
\* Nothing is replayed before serving; then the buffer is the stream as long as
\* it is not used up
ReplayInv ==
    IF pc # "serving"
    THEN stream = messages /\ seen = <<>> /\ index = 0
    ELSE IF index < Len(messages)
         THEN stream = messages /\ seen = SubSeq(messages, 1, index)
         ELSE seen = stream

CountInv == /\ pc \in {"called", "buffering", "serving"} => total <= Limit
            /\ pc = "refused" => total > Limit \/ declared > Limit

BodyInv == TypeOK /\ ReplayInv /\ CountInv

LEMMA InitBodyInv == Init => BodyInv
  BY InitTypeOK, LimitAssumption DEF Init, BodyInv, ReplayInv, CountInv

\* Replaying one message more, and the whole of a sequence
LEMMA PrefixGrows ==
    ASSUME NEW s \in Seq(Message), NEW n \in 0 .. Len(s) - 1
    PROVE  Append(SubSeq(s, 1, n), s[n + 1]) = SubSeq(s, 1, n + 1)
  OBVIOUS

LEMMA WholePrefix ==
    ASSUME NEW s \in Seq(Message)
    PROVE  SubSeq(s, 1, Len(s)) = s /\ SubSeq(s, 1, 0) = <<>>
  OBVIOUS

LEMMA NextReplayInv == BodyInv /\ [Next]_vars => ReplayInv'
<1> SUFFICES ASSUME BodyInv, [Next]_vars PROVE ReplayInv'
  OBVIOUS
<1>0. TypeOK /\ ReplayInv
  BY DEF BodyInv
<1>1. CASE CheckDeclared \/ UNCHANGED vars
  BY <1>0, <1>1 DEF CheckDeclared, vars, ReplayInv
<1>2. CASE Buffer
  <2>1. PICK msg \in Message :
          stream' = Append(stream, msg) /\ messages' = Append(messages, msg)
    BY <1>2 DEF Buffer, Receive
  <2>2. stream' = messages' /\ seen' = <<>> /\ index' = 0
    BY <1>0, <1>2, <2>1 DEF Buffer, ReplayInv
  <2>3. Len(messages') > 0 /\ SubSeq(messages', 1, 0) = <<>>
    BY <1>0, <2>1, AppendMessage, WholePrefix DEF TypeOK
  <2> QED
    BY <2>2, <2>3 DEF ReplayInv
<1>3. CASE Replay
  <2>1. CASE index < Len(messages)
    <3>0. /\ index' = index + 1 /\ seen' = Append(seen, messages[index + 1])
          /\ UNCHANGED <<stream, messages, pc>> /\ pc = "serving"
      BY <1>0, <1>3, <2>1 DEF Replay, TypeOK
    <3>1. /\ stream' = messages /\ messages' = messages /\ index' = index + 1
          /\ seen' = SubSeq(messages, 1, index') /\ pc' = "serving"
      <4>1. stream = messages /\ seen = SubSeq(messages, 1, index)
        BY <1>0, <2>1, <3>0 DEF ReplayInv
      <4>2. messages \in Seq(Message) /\ index \in 0 .. Len(messages) - 1
        BY <1>0, <2>1 DEF TypeOK
      <4> QED
        BY <3>0, <4>1, <4>2, PrefixGrows
    <3>2. CASE index' < Len(messages)
      BY <3>1, <3>2 DEF ReplayInv
    <3>3. CASE index' = Len(messages)
      BY <1>0, <3>1, <3>3, WholePrefix DEF ReplayInv, TypeOK
    <3> QED
      BY <1>0, <2>1, <3>1, <3>2, <3>3 DEF TypeOK
  <2>2. CASE index = Len(messages)
    <3>1. pc' = "serving" /\ index' = index /\ messages' = messages /\ pc = "serving"
      BY <1>3, <2>2 DEF Replay
    <3>2. PICK msg \in Message : Receive(msg) /\ seen' = Append(seen, msg)
      BY <1>3, <2>2 DEF Replay
    <3>3. seen = stream /\ ~(index < Len(messages))
      BY <1>0, <2>2, <3>1 DEF ReplayInv, TypeOK
    <3> QED
      BY <3>1, <3>2, <3>3 DEF Receive, ReplayInv
  <2> QED
    BY <1>3, <2>1, <2>2 DEF Replay
<1> QED
  BY <1>1, <1>2, <1>3 DEF Next

LEMMA NextBodyInv == BodyInv /\ [Next]_vars => BodyInv'
<1> SUFFICES ASSUME BodyInv, [Next]_vars PROVE BodyInv'
  OBVIOUS
<1>0. TypeOK /\ TypeOK' /\ ReplayInv'
  BY NextTypeOK, NextReplayInv DEF BodyInv
<1>1. CountInv'
  <2>1. CASE CheckDeclared \/ UNCHANGED vars
    BY <1>0, <2>1, LimitAssumption DEF CheckDeclared, vars, BodyInv, CountInv, TypeOK
  <2>2. CASE Buffer
    BY <1>0, <2>2, LimitAssumption DEF Buffer, BodyInv, CountInv, TypeOK
  <2>3. CASE Replay
    BY <2>3 DEF Replay, BodyInv, CountInv
  <2> QED
    BY <2>1, <2>2, <2>3 DEF Next
<1> QED
  BY <1>0, <1>1 DEF BodyInv

\* The application receives the messages of the server, each once and in order,
\* for streams of every length.
THEOREM AppSeesTheStream == Spec => []AppSeesStream
<1>1. BodyInv => AppSeesStream
  <2> SUFFICES ASSUME BodyInv PROVE AppSeesStream
    OBVIOUS
  <2>1. stream \in Seq(Message) /\ messages \in Seq(Message)
    BY DEF BodyInv, TypeOK
  <2>2. CASE pc # "serving"
    BY <2>1, <2>2, WholePrefix DEF BodyInv, ReplayInv, AppSeesStream
  <2>3. CASE pc = "serving" /\ index < Len(messages)
    BY <2>1, <2>3 DEF BodyInv, TypeOK, ReplayInv, AppSeesStream
  <2>4. CASE pc = "serving" /\ ~(index < Len(messages))
    BY <2>1, <2>4, WholePrefix DEF BodyInv, ReplayInv, AppSeesStream
  <2> QED
    BY <2>2, <2>3, <2>4
<1> QED
  BY <1>1, InitBodyInv, NextBodyInv, PTL DEF Spec

----------------------------------------------------------------------------
(* Induction and recursion over the naturals, without operator parameters *)

LessThan == {pair \in Nat \X Nat : pair[1] < pair[2]}

LEMMA LeastElement ==
  ASSUME NEW T \in SUBSET Nat, T # {}
  PROVE  \E x \in T : \A y \in T : x <= y
<1>1. IsWellFoundedOn(LessThan, Nat)
  BY NatLessThanWellFounded DEF OpToRel, LessThan
<1>2. PICK x \in T : \A y \in T : <<y, x>> \notin LessThan
  BY <1>1, WFMin
<1>3. \A y \in T : ~(y < x)
  BY <1>2 DEF LessThan
<1> QED
  BY <1>3

LEMMA Induction ==
  ASSUME NEW S, 0 \in S, \A n \in Nat : n \in S => n + 1 \in S
  PROVE  Nat \subseteq S
<1>1. SUFFICES ASSUME Nat \ S # {} PROVE FALSE
  OBVIOUS
<1>2. PICK x \in Nat \ S : \A y \in Nat \ S : x <= y
  BY <1>1, LeastElement
<1>3. x - 1 \in Nat /\ x - 1 \in S /\ (x - 1) + 1 = x
  BY <1>2
<1> QED
  BY <1>3

\* A step of a recursion for each of 1 .. N, and the function it computes
IsStep(step, N, X) == step \in [1 .. N -> [X -> X]]
IsComputed(f, base, step, N, X) ==
    /\ f \in [0 .. N -> X]
    /\ f[0] = base
    /\ \A n \in 1 .. N : f[n] = step[n][f[n - 1]]

LEMMA Recursion ==
  ASSUME NEW N \in Nat, NEW X, NEW base \in X, NEW step, IsStep(step, N, X)
  PROVE  \E f : IsComputed(f, base, step, N, X)
<1> USE DEF IsStep
<1> DEFINE Computed(m, f) == f[0] = base /\ \A n \in 1 .. m : f[n] = step[n][f[n - 1]]
           S == {m \in Nat : m <= N => \E f \in [0 .. m -> X] : Computed(m, f)}
<1>1. 0 \in S
  <2>1. [n \in 0 .. 0 |-> base] \in [0 .. 0 -> X] /\ Computed(0, [n \in 0 .. 0 |-> base])
    OBVIOUS
  <2> QED
    BY <2>1
<1>2. ASSUME NEW m \in Nat, m \in S PROVE m + 1 \in S
  <2>1. SUFFICES ASSUME m + 1 <= N
                 PROVE  \E g \in [0 .. m + 1 -> X] : Computed(m + 1, g)
    OBVIOUS
  <2>2. PICK f \in [0 .. m -> X] : Computed(m, f)
    BY <1>2, <2>1
  <2> DEFINE g == [n \in 0 .. m + 1 |-> IF n = m + 1 THEN step[m + 1][f[m]] ELSE f[n]]
  <2>3. step[m + 1][f[m]] \in X
    BY <2>1
  <2>4. g \in [0 .. m + 1 -> X] /\ g[m + 1] = step[m + 1][f[m]]
    BY <2>3
  <2>5. \A n \in 0 .. m : g[n] = f[n]
    OBVIOUS
  <2> HIDE DEF g
  <2>6. ASSUME NEW n \in 1 .. m + 1 PROVE g[n] = step[n][g[n - 1]]
    <3>1. CASE n = m + 1
      <4>1. n - 1 = m /\ m \in 0 .. m
        BY <3>1
      <4> QED
        BY <2>4, <2>5, <3>1, <4>1
    <3>2. CASE n \in 1 .. m
      <4>1. f[n] = step[n][f[n - 1]]
        BY <2>2, <3>2
      <4>2. n \in 0 .. m /\ n - 1 \in 0 .. m
        BY <3>2
      <4>3. g[n] = f[n] /\ g[n - 1] = f[n - 1]
        BY <2>5, <4>2
      <4> QED
        BY <4>1, <4>3
    <3>3. n = m + 1 \/ n \in 1 .. m
      OBVIOUS
    <3> QED
      BY <3>1, <3>2, <3>3
  <2>7. g[0] = base
    <3>1. f[0] = base /\ 0 \in 0 .. m
      BY <2>2
    <3> QED
      BY <2>5, <3>1
  <2>8. Computed(m + 1, g)
    BY <2>6, <2>7
  <2> QED
    BY <2>4, <2>8
<1>3. Nat \subseteq S
  <2> HIDE DEF S
  <2> QED
    BY <1>1, <1>2, Induction
<1> QED
  BY <1>3 DEF IsComputed

----------------------------------------------------------------------------
(* The bytes of a stream *)

IsSum(sum, msgs) ==
    sum = [n \in 0 .. Len(msgs) |-> IF n = 0 THEN 0 ELSE sum[n - 1] + Size(msgs[n])]

LEMMA SizeType == \A msg \in Message : Size(msg) \in Nat
<1> SUFFICES ASSUME NEW msg \in Message PROVE Size(msg) \in Nat
  OBVIOUS
<1>1. CASE msg = Disconnect
  BY <1>1 DEF Size, Disconnect
<1>2. CASE msg # Disconnect
  BY <1>2, ChunkSize DEF Size
<1> QED
  BY <1>1, <1>2

LEMMA SumExists ==
    ASSUME NEW msgs \in Seq(Message)
    PROVE  \E sum \in [0 .. Len(msgs) -> Nat] : IsSum(sum, msgs)
<1> DEFINE N == Len(msgs)
           X == Nat
           step == [n \in 1 .. N |-> [x \in X |-> x + Size(msgs[n])]]
<1>1. N \in Nat /\ \A n \in 1 .. N : Size(msgs[n]) \in Nat
  BY SizeType
<1>2. IsStep(step, N, X) /\ 0 \in X
  BY <1>1 DEF IsStep
<1>3. \E sum : IsComputed(sum, 0, step, N, X)
  <2> HIDE DEF step, N, X
  <2> QED
    BY <1>1, <1>2, Recursion
<1>4. PICK sum \in [0 .. N -> X] :
        sum[0] = 0 /\ \A n \in 1 .. N : sum[n] = step[n][sum[n - 1]]
  BY <1>3 DEF IsComputed
<1>5. ASSUME NEW n \in 1 .. N PROVE sum[n] = sum[n - 1] + Size(msgs[n])
  <2>1. n - 1 \in 0 .. N
    BY <1>1
  <2>2. sum[n - 1] \in X
    BY <2>1
  <2> QED
    BY <1>4, <2>2
<1>6. sum = [n \in 0 .. N |-> IF n = 0 THEN 0 ELSE sum[n - 1] + Size(msgs[n])]
  BY <1>1, <1>4, <1>5
<1> QED
  BY <1>6 DEF IsSum

\* The sums of two sequences agree as far as the sequences do.
LEMMA SumsAgree ==
    ASSUME NEW a \in Seq(Message), NEW b \in Seq(Message), NEW s, NEW t,
           IsSum(s, a), IsSum(t, b),
           NEW k \in Nat, k <= Len(a), k <= Len(b), \A n \in 1 .. k : a[n] = b[n]
    PROVE  \A n \in 0 .. k : s[n] = t[n]
<1> DEFINE S == {n \in Nat : n <= k => s[n] = t[n]}
<1>1. 0 \in S
  BY DEF IsSum
<1>2. ASSUME NEW n \in Nat, n \in S PROVE n + 1 \in S
  <2>1. SUFFICES ASSUME n + 1 <= k PROVE s[n + 1] = t[n + 1]
    OBVIOUS
  <2>2. s[n] = t[n] /\ a[n + 1] = b[n + 1]
    BY <1>2, <2>1
  <2>3. /\ s[n + 1] = s[n] + Size(a[n + 1])
        /\ t[n + 1] = t[n] + Size(b[n + 1])
    BY <2>1 DEF IsSum
  <2> QED
    BY <2>2, <2>3
<1>3. Nat \subseteq S
  <2> HIDE DEF S
  <2> QED
    BY <1>1, <1>2, Induction
<1> QED
  BY <1>3

LEMMA BytesIsSum ==
    ASSUME NEW msgs \in Seq(Message)
    PROVE  \E sum : IsSum(sum, msgs) /\ Bytes(msgs) = sum[Len(msgs)]
<1>1. \E sum : IsSum(sum, msgs)
  BY SumExists
<1>2. IsSum(CHOOSE sum : IsSum(sum, msgs), msgs)
  BY <1>1
<1>3. Bytes(msgs) = (CHOOSE sum : IsSum(sum, msgs))[Len(msgs)]
  BY DEF Bytes, IsSum
<1> QED
  BY <1>2, <1>3

LEMMA BytesOfNone == Bytes(<<>>) = 0
<1>1. <<>> \in Seq(Message) /\ Len(<<>>) = 0
  OBVIOUS
<1>2. PICK sum : IsSum(sum, <<>>) /\ Bytes(<<>>) = sum[0]
  BY <1>1, BytesIsSum
<1> QED
  BY <1>1, <1>2 DEF IsSum

LEMMA BytesGrow ==
    ASSUME NEW msgs \in Seq(Message), NEW msg \in Message
    PROVE  Bytes(Append(msgs, msg)) = Bytes(msgs) + Size(msg)
<1> DEFINE more == Append(msgs, msg)  n == Len(msgs)
<1>1. /\ more \in Seq(Message) /\ Len(more) = n + 1 /\ n \in Nat
      /\ more[n + 1] = msg /\ \A i \in 1 .. n : more[i] = msgs[i]
  OBVIOUS
<1>2. PICK s : IsSum(s, msgs) /\ Bytes(msgs) = s[n]
  BY BytesIsSum
<1>3. PICK t : IsSum(t, more) /\ Bytes(more) = t[n + 1]
  BY <1>1, BytesIsSum
<1>4. s[n] = t[n]
  <2> HIDE DEF more, n
  <2>1. \A i \in 0 .. n : s[i] = t[i]
    <3>1. n \in Nat /\ n <= Len(msgs) /\ n <= Len(more)
      BY <1>1 DEF n
    <3>2. \A i \in 1 .. n : msgs[i] = more[i]
      BY <1>1
    <3> QED
      BY <1>1, <1>2, <1>3, <3>1, <3>2, SumsAgree
  <2> QED
    BY <1>1, <2>1
<1>5. t[n + 1] = t[n] + Size(msg)
  <2> HIDE DEF more, n
  <2>1. n + 1 \in 0 .. Len(more) /\ n + 1 # 0 /\ (n + 1) - 1 = n
    BY <1>1
  <2>2. t[n + 1] = t[(n + 1) - 1] + Size(more[n + 1])
    BY <1>3, <2>1 DEF IsSum
  <2> QED
    BY <1>1, <2>1, <2>2
<1> QED
  BY <1>2, <1>3, <1>4, <1>5

----------------------------------------------------------------------------
(* The limit *)

\* The counter is the size of the buffer, and serving begins with the last chunk
AccountInv ==
    /\ total = Bytes(messages)
    /\ pc = "serving" => messages # <<>> /\ ~Last(messages).more_body

LEMMA InitAccountInv == Init => AccountInv
  BY BytesOfNone DEF Init, AccountInv

LEMMA NextAccountInv == TypeOK /\ AccountInv /\ [Next]_vars => AccountInv'
<1> SUFFICES ASSUME TypeOK, AccountInv, [Next]_vars PROVE AccountInv'
  OBVIOUS
<1>1. CASE CheckDeclared
  BY <1>1 DEF CheckDeclared, AccountInv
<1>2. CASE Buffer
  <2>1. PICK msg \in Message :
          /\ messages' = Append(messages, msg)
          /\ IF msg = Disconnect
             THEN pc' = "dropped" /\ UNCHANGED total
             ELSE /\ total' = total + msg.size
                  /\ pc' = IF total' > Limit THEN "refused"
                           ELSE IF msg.more_body THEN "buffering" ELSE "serving"
    BY <1>2 DEF Buffer
  <2>2. Bytes(messages') = total + Size(msg)
    BY <2>1, BytesGrow DEF TypeOK, AccountInv
  <2>3. Last(messages') = msg /\ messages' # <<>>
    BY <2>1 DEF TypeOK, Last
  <2>4. CASE msg = Disconnect
    <3>1. Size(msg) = 0
      BY <2>4 DEF Size, Disconnect
    <3> QED
      BY <2>1, <2>2, <2>4, <3>1 DEF AccountInv, TypeOK
  <2>5. CASE msg # Disconnect
    <3>1. Size(msg) = msg.size
      BY <2>5 DEF Size, Message, Chunk
    <3> QED
      BY <2>1, <2>2, <2>3, <2>5, <3>1 DEF AccountInv
  <2> QED
    BY <2>4, <2>5
<1>3. CASE Replay \/ UNCHANGED vars
  BY <1>3 DEF Replay, vars, AccountInv
<1> QED
  BY <1>1, <1>2, <1>3 DEF Next

\* The application runs on complete bodies within the limit only; whoever is
\* refused has declared or sent more and was never seen by it, for bodies in
\* any number of chunks.
THEOREM LimitIsEnforced == Spec => []LimitEnforced
<1>1. Init => BodyInv /\ AccountInv
  BY InitBodyInv, InitAccountInv
<1>2. BodyInv /\ AccountInv /\ [Next]_vars => BodyInv' /\ AccountInv'
  BY NextBodyInv, NextAccountInv DEF BodyInv
<1>3. BodyInv /\ AccountInv => LimitEnforced
  BY DEF BodyInv, CountInv, ReplayInv, AccountInv, LimitEnforced
<1> QED
  BY <1>1, <1>2, <1>3, PTL DEF Spec
=============================================================================
