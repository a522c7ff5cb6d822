--------------------------- MODULE AskConsoleProofs ----------------------------
(***************************************************************************)
(* AskConsole, for any models and questions and however many turns are     *)
(* asked.                                                                  *)
(***************************************************************************)
EXTENDS AskConsole, WellFoundedInduction, TLAPS

Rows ==
    /\ stored \in [Investigations -> Investigation \cup {None}]
    /\ req \in [Asks -> Request \cup {None}]
Typed == TypeOK /\ Rows

\* A turn's answer is stored exactly when the turn says so, in one Investigation;
\* what a turn or the screen names exists; a thread begins with a question.
Holds(i, r) == stored[i] # None /\ \E t \in Range(stored[i].turns) : t.by = r
Threads ==
    /\ \A i \in Investigations : stored[i] # None =>
         /\ \E n \in DOMAIN stored[i].turns : stored[i].turns[n].asked # None
         /\ \A t \in Range(stored[i].turns) : t.by # Earlier => At(t.by, "answered")
    /\ \A r \in Asks : At(r, "answered") => Holds(CreatedBy(r), r)
    /\ \A r \in Asks : stored[r] # None => At(r, "answered") /\ req[r].inv = None
    /\ \A r \in Asks : req[r] # None =>
         /\ req[r].inv # None => stored[req[r].inv] # None
         /\ req[r].rerun => req[r].inv # None
    /\ screen.inv # None => stored[screen.inv] # None

\* From the route on, a turn about an Investigation runs on its model.
Bound ==
    \A r \in Asks : req[r] # None /\ req[r].inv # None /\ req[r].at \notin {"sent", "refused"} =>
        req[r].model = stored[req[r].inv].model

\* What the hook reads is the turn it shows, and the turn it shows is the newest.
Streams ==
    /\ \A r \in Asks : req[r] = None <=> wire[r] = "none"
    /\ \A r, s \in Asks : wire[r] # "none" /\ s < r => wire[s] # "none"
    /\ \A r \in Reading : r = stream.turn
    /\ \A r \in Asks : wire[r] \in {"open", "payload"} => r \in Current
    /\ stream.turn = None =>
         /\ stream.question = None /\ stream.answer = None /\ ~stream.message
         /\ stream.status \in {"idle", "error"} /\ ~screen.rerun
    /\ stream.turn # None =>
         /\ stream.turn \in Current /\ stream.status # "idle" /\ ~screen.loading
         /\ stream.question = req[stream.turn].question /\ req[stream.turn].inv = screen.inv
    /\ stream.answer # None => stream.answer = stream.turn /\ At(stream.answer, "answered")
    /\ screen.loading => screen.inv # None /\ screen.history = <<>>
    /\ screen.rerun => screen.history # <<>> /\ Answered(Latest)

AnswersAreStored ==
    \A e \in Range(screen.history) : Answered(e) => screen.inv # None /\ Holds(screen.inv, e.of)

Ended == {"refused", "answered", "replied", "failed", "cancelled"}
\* Undisturbed, one turn at most is under way, ..
Alone ==
    ~disturbed =>
        /\ \A r \in Asks \ {stream.turn} : req[r] # None => req[r].at \in Ended /\ wire[r] = "closed"
        /\ stream.status # "aborted"
        /\ stream.turn = None => stream.status = "idle"
        /\ stream.turn # None =>
             LET r == stream.turn IN
             /\ req[r].rerun = screen.rerun
             /\ stream.status = "streaming" <=> wire[r] # "closed"
             /\ wire[r] = "body" => req[r].at = "refused"
             /\ wire[r] = "payload" \/ stream.status = "done" =>
                  req[r].at \in {"answered", "replied"} /\ (req[r].at = "answered" => stream.answer = r)
             /\ stream.status = "error" => req[r].at \in {"refused", "failed"}
\* .. and what is stored is what is shown, or has just been added to it.
Mirrored ==
    ~disturbed /\ ~screen.loading =>
        IF stream.turn # None /\ At(stream.turn, "answered")
        THEN ExchangesFrom(stored[CreatedBy(stream.turn)].turns) = Paired(ShownAnswers, Saved(stream.turn))
        ELSE screen.inv # None => ShownAnswers = ExchangesFrom(stored[screen.inv].turns)

\* Undisturbed, an answer is stored under the question it was given to, ..
StoredFit ==
    ~disturbed =>
        \A i \in Investigations : stored[i] # None =>
            \A e \in Range(ExchangesFrom(stored[i].turns)) : e.of \in Asks =>
                req[e.of].answers = e.question
\* .. and that is the question it will stand under.
Told ==
    ~disturbed /\ stream.turn # None /\ req[stream.turn].at \in {"running", "saving", "answered"} =>
        req[stream.turn].answers = IF screen.rerun THEN Latest.question ELSE stream.question

IInv ==
    /\ Typed /\ Threads /\ Bound /\ OneModelPerThread /\ Streams
    /\ AnswersAreStored /\ Alone /\ Mirrored /\ StoredFit /\ Told /\ AnswersFitTheirQuestions
-----------------------------------------------------------------------------
(* Induction over the naturals in a form that needs no operator parameter. *)

NatOrder == {p \in Nat \X Nat : p[1] < p[2]}

\* Every nonempty set of naturals has a least element.
LEMMA LeastNatural ==
  ASSUME NEW T, T \subseteq Nat, T # {}
  PROVE  \E m \in T : \A k \in T : m <= k
<1>1. NatOrder = OpToRel(<, Nat)
  BY Zenon DEF NatOrder, OpToRel
<1>2. IsWellFoundedOn(NatOrder, Nat)
  BY <1>1, NatLessThanWellFounded, Zenon
<1>3. PICK m \in T : \A k \in T : <<k, m>> \notin NatOrder
  BY <1>2, WFMin
<1>4. \A k \in T : ~(k < m)
  BY <1>3 DEF NatOrder
<1> QED BY <1>4

\* A set that holds 0 and the successor of each of its naturals holds every natural.
LEMMA SetInduction ==
  ASSUME NEW P, 0 \in P, \A n \in Nat : n \in P => n + 1 \in P
  PROVE  Nat \subseteq P
<1> DEFINE T == Nat \ P
<1>1. SUFFICES ASSUME T # {} PROVE FALSE
  OBVIOUS
<1>2. PICK m \in T : \A k \in T : m <= k
  BY <1>1, LeastNatural
<1>3. m # 0 /\ m - 1 \in Nat /\ m - 1 \in P
  BY <1>2
<1> QED BY <1>2, <1>3

\* Some position of a sequence's is the last of any that there are.
LEMMA MaxOfPositions ==
  ASSUME NEW n \in Nat, NEW S, S \subseteq 1..n, S # {}
  PROVE  Max(S) \in S /\ \A y \in S : y <= Max(S)
<1> DEFINE T == {n - k : k \in S}
<1>1. T \subseteq Nat /\ T # {}
  <2>1. \A k \in S : k \in 1..n /\ n - k \in Nat
    OBVIOUS
  <2> QED BY <2>1
<1>2. PICK m \in T : \A k \in T : m <= k
  BY <1>1, LeastNatural
<1>3. PICK x \in S : m = n - x
  BY <1>2
<1>4. \A y \in S : x >= y
  <2> TAKE y \in S
  <2>1. n - y \in T
    OBVIOUS
  <2> QED BY <2>1, <1>2, <1>3
<1> HIDE DEF T
<1>5. Max(S) \in S /\ \A y \in S : Max(S) >= y
  BY <1>4 DEF Max
<1> QED BY <1>5

\* A rerun finds the question it is to answer.
LEMMA LastAskedIsAQuestion ==
  ASSUME NEW turns \in Seq(Turn), \E n \in DOMAIN turns : turns[n].asked # None
  PROVE  LastAsked(turns) \in Questions
<1> DEFINE S == {n \in DOMAIN turns : turns[n].asked # None}
<1>1. S \subseteq 1..Len(turns) /\ S # {} /\ Len(turns) \in Nat
  OBVIOUS
<1>2. Max(S) \in S
  BY <1>1, MaxOfPositions
<1>3. turns[Max(S)] \in Turn /\ turns[Max(S)].asked # None
  BY <1>2
<1>4. turns[Max(S)].asked \in Questions
  BY <1>3 DEF Turn
<1> QED BY <1>4 DEF LastAsked

-----------------------------------------------------------------------------
(* The loops over a thread's turns and over the history on screen.         *)

\* The conversation after each turn, as exchangesFrom builds it.
Rebuilt(turns) ==
    CHOOSE out : out = [n \in 0..Len(turns) |->
                          IF n = 0 THEN <<>> ELSE Paired(out[n - 1], turns[n])]

\* The loop runs through.
LEMMA RebuiltStepByStep ==
  ASSUME NEW turns, Len(turns) \in Nat
  PROVE  /\ DOMAIN Rebuilt(turns) = 0..Len(turns)
         /\ Rebuilt(turns)[0] = <<>>
         /\ \A n \in 1..Len(turns) : Rebuilt(turns)[n] = Paired(Rebuilt(turns)[n - 1], turns[n])
<1> DEFINE L == Len(turns)
           Runs(g, m) == g = [n \in 0..m |-> IF n = 0 THEN <<>> ELSE Paired(g[n - 1], turns[n])]
           P == {m \in Nat : \E g : Runs(g, m)}
<1>1. 0 \in P
  <2>1. Runs([n \in 0..0 |-> <<>>], 0)
    OBVIOUS
  <2> HIDE DEF Runs
  <2> QED BY <2>1
<1>2. ASSUME NEW m \in Nat, m \in P PROVE m + 1 \in P
  <2>1. PICK g : Runs(g, m)
    BY <1>2
  <2> DEFINE h == [n \in 0..(m + 1) |-> IF n \in 0..m THEN g[n] ELSE Paired(g[m], turns[m + 1])]
  <2>2. ASSUME NEW n \in 0..(m + 1)
        PROVE  h[n] = IF n = 0 THEN <<>> ELSE Paired(h[n - 1], turns[n])
    <3>1. CASE n = 0
      BY <3>1, <2>1
    <3>2. CASE n \in 1..m
      <4>1. h[n] = g[n] /\ h[n - 1] = g[n - 1] /\ n # 0
        BY <3>2
      <4>2. g[n] = Paired(g[n - 1], turns[n])
        BY <3>2, <2>1, <4>1
      <4> QED BY <4>1, <4>2
    <3>3. CASE n = m + 1
      <4>1. h[n] = Paired(g[m], turns[m + 1]) /\ h[m] = g[m] /\ n - 1 = m /\ n # 0
        BY <3>3
      <4> QED BY <4>1, <3>3
    <3> QED BY <3>1, <3>2, <3>3
  <2>3. Runs(h, m + 1)
    BY <2>2
  <2> HIDE DEF Runs
  <2> QED BY <2>3
<1>3. L \in P
  BY <1>1, <1>2, SetInduction
<1>4. Runs(Rebuilt(turns), L)
  <2>1. \E g : Runs(g, L)
    BY <1>3
  <2> QED BY <2>1 DEF Rebuilt
<1> QED BY <1>4

LEMMA ExchangesAreRebuilt ==
  ASSUME NEW turns PROVE ExchangesFrom(turns) = Rebuilt(turns)[Len(turns)]
BY DEF ExchangesFrom, Rebuilt

\* The history's answers, as far as each exchange.
Sifted(history) ==
    CHOOSE shown : shown = [n \in 0..Len(history) |->
                              IF n = 0 THEN <<>>
                              ELSE IF Answered(history[n]) THEN Append(shown[n - 1], history[n])
                              ELSE shown[n - 1]]

LEMMA AnswersAreSifted ==
  ASSUME NEW history PROVE AnswersOf(history) = Sifted(history)[Len(history)]
BY DEF AnswersOf, Sifted

LEMMA SiftedStepByStep ==
  ASSUME NEW history, Len(history) \in Nat
  PROVE  /\ DOMAIN Sifted(history) = 0..Len(history)
         /\ Sifted(history)[0] = <<>>
         /\ \A n \in 1..Len(history) :
              Sifted(history)[n] = IF Answered(history[n])
                                   THEN Append(Sifted(history)[n - 1], history[n])
                                   ELSE Sifted(history)[n - 1]
<1> DEFINE L == Len(history)
           After(out, n) == IF Answered(history[n]) THEN Append(out, history[n]) ELSE out
           Runs(g, m) == g = [n \in 0..m |-> IF n = 0 THEN <<>> ELSE After(g[n - 1], n)]
           P == {m \in Nat : \E g : Runs(g, m)}
<1>4. ASSUME \E g : Runs(g, L) PROVE Runs(Sifted(history), L)
  BY <1>4 DEF Sifted
<1> HIDE DEF After
<1>1. 0 \in P
  <2>1. Runs([n \in 0..0 |-> <<>>], 0)
    OBVIOUS
  <2> HIDE DEF Runs
  <2> QED BY <2>1
<1>2. ASSUME NEW m \in Nat, m \in P PROVE m + 1 \in P
  <2>1. PICK g : Runs(g, m)
    BY <1>2
  <2> DEFINE h == [n \in 0..(m + 1) |-> IF n \in 0..m THEN g[n] ELSE After(g[m], m + 1)]
  <2>2. ASSUME NEW n \in 0..(m + 1)
        PROVE  h[n] = IF n = 0 THEN <<>> ELSE After(h[n - 1], n)
    <3>1. CASE n = 0
      BY <3>1, <2>1
    <3>2. CASE n \in 1..m
      <4>1. h[n] = g[n] /\ h[n - 1] = g[n - 1] /\ n # 0
        BY <3>2
      <4>2. g[n] = After(g[n - 1], n)
        BY <3>2, <2>1, <4>1
      <4> QED BY <4>1, <4>2
    <3>3. CASE n = m + 1
      <4>1. h[n] = After(g[m], m + 1) /\ h[m] = g[m] /\ n - 1 = m /\ n # 0
        BY <3>3
      <4> QED BY <4>1, <3>3
    <3> QED BY <3>1, <3>2, <3>3
  <2>3. Runs(h, m + 1)
    BY <2>2
  <2> HIDE DEF Runs
  <2> QED BY <2>3
<1>3. L \in P
  BY <1>1, <1>2, SetInduction
<1>5. Runs(Sifted(history), L)
  BY <1>3, <1>4
<1>6. \A n \in 1..L : Sifted(history)[n] = After(Sifted(history)[n - 1], n)
  BY <1>5
<1>7. DOMAIN Sifted(history) = 0..L /\ Sifted(history)[0] = <<>>
  BY <1>5
<1> QED BY <1>6, <1>7 DEF After

\* Of no turns, no conversation; of one more turn, the conversation with its pair.
LEMMA ExchangesOfNothing == ExchangesFrom(<<>>) = <<>>
BY RebuiltStepByStep, ExchangesAreRebuilt

LEMMA ExchangesGrow ==
  ASSUME NEW turns \in Seq(Turn), NEW t \in Turn
  PROVE  ExchangesFrom(Append(turns, t)) = Paired(ExchangesFrom(turns), t)
<1>1. PICK m \in Nat : m = Len(turns)
  OBVIOUS
<1>2. PICK more \in Seq(Turn) : more = Append(turns, t)
  <2>1. Append(turns, t) \in Seq(Turn)
    OBVIOUS
  <2> QED BY <2>1
<1>3. Len(more) = m + 1 /\ more[m + 1] = t /\ \A n \in 1..m : more[n] = turns[n]
  BY <1>1, <1>2
<1> DEFINE P == {n \in Nat : n <= m => Rebuilt(more)[n] = Rebuilt(turns)[n]}
<1>4. /\ Rebuilt(turns)[0] = <<>>
      /\ \A n \in 1..m : Rebuilt(turns)[n] = Paired(Rebuilt(turns)[n - 1], turns[n])
  BY <1>1, RebuiltStepByStep
<1>5. /\ Rebuilt(more)[0] = <<>>
      /\ \A n \in 1..(m + 1) : Rebuilt(more)[n] = Paired(Rebuilt(more)[n - 1], more[n])
  BY <1>3, RebuiltStepByStep
<1>6. 0 \in P
  BY <1>4, <1>5
<1>7. ASSUME NEW n \in Nat, n \in P PROVE n + 1 \in P
  <2>1. SUFFICES ASSUME n + 1 <= m PROVE Rebuilt(more)[n + 1] = Rebuilt(turns)[n + 1]
    OBVIOUS
  <2>2. n + 1 \in 1..m /\ n + 1 \in 1..(m + 1) /\ n + 1 - 1 = n
    BY <2>1
  <2>3. Rebuilt(more)[n] = Rebuilt(turns)[n] /\ more[n + 1] = turns[n + 1]
    BY <1>7, <2>1, <2>2, <1>3
  <2>4. Rebuilt(more)[n + 1] = Paired(Rebuilt(more)[n], more[n + 1])
    BY <1>5, <2>2
  <2>5. Rebuilt(turns)[n + 1] = Paired(Rebuilt(turns)[n], turns[n + 1])
    BY <1>4, <2>2
  <2> QED BY <2>3, <2>4, <2>5
<1>8. m \in P
  BY <1>6, <1>7, SetInduction
<1>9. Rebuilt(more)[m + 1] = Paired(Rebuilt(more)[m], more[m + 1])
  <2>1. m + 1 \in 1..(m + 1) /\ m + 1 - 1 = m
    OBVIOUS
  <2> QED BY <2>1, <1>5
<1>10. Rebuilt(more)[m] = Rebuilt(turns)[m]
  BY <1>8
<1> QED BY <1>1, <1>2, <1>3, <1>9, <1>10, ExchangesAreRebuilt

\* What a reload shows are answers, each of a turn that is stored.
LEMMA PairedFits ==
  ASSUME NEW out \in Seq(Exchange), NEW T, NEW t \in Turn, t.by \in T,
         \A e \in Range(out) : Answered(e) /\ e.of \in T
  PROVE  /\ Paired(out, t) \in Seq(Exchange)
         /\ \A e \in Range(Paired(out, t)) : Answered(e) /\ e.of \in T
<1>1. CASE t.asked # None
  <2>1. PICK e : e = [question |-> t.asked, show |-> "answer", of |-> t.by]
    OBVIOUS
  <2>2. e \in Exchange /\ Answered(e) /\ e.of \in T
    BY <2>1, <1>1 DEF Turn, Exchange, Answered
  <2>3. Paired(out, t) = Append(out, e)
    BY <2>1, <1>1 DEF Paired
  <2>4. Append(out, e) \in Seq(Exchange) /\ Len(Append(out, e)) = Len(out) + 1
        /\ \A n \in 1..(Len(out) + 1) : Append(out, e)[n] = IF n <= Len(out) THEN out[n] ELSE e
    BY <2>2
  <2>5. \A n \in 1..Len(out) : out[n] \in Range(out)
    BY DEF Range
  <2> QED BY <2>2, <2>3, <2>4, <2>5 DEF Range
<1>2. CASE t.asked = None /\ out # <<>>
  <2>1. PICK m \in Nat \ {0} : m = Len(out)
    BY <1>2
  <2>2. out[m] \in Exchange /\ out[m] \in Range(out) /\ DOMAIN out = 1..m
    BY <2>1 DEF Range
  <2>3. PICK e : e = [out[m] EXCEPT !.of = t.by]
    OBVIOUS
  <2>4. e \in Exchange /\ Answered(e) /\ e.of \in T
    BY <2>2, <2>3 DEF Exchange, Turn, Answered
  <2>5. Paired(out, t) = [out EXCEPT ![m] = e]
    BY <1>2, <2>1, <2>3 DEF Paired
  <2>6. [out EXCEPT ![m] = e] \in Seq(Exchange)
    BY <2>4, <2>2
  <2>7. \A n \in 1..m : out[n] \in Range(out)
    BY <2>2 DEF Range
  <2>8. \A n \in 1..m : [out EXCEPT ![m] = e][n] = IF n = m THEN e ELSE out[n]
    BY <2>2
  <2>9. DOMAIN [out EXCEPT ![m] = e] = 1..m
    BY <2>2
  <2> QED BY <2>4, <2>5, <2>6, <2>7, <2>8, <2>9 DEF Range
<1>3. CASE t.asked = None /\ out = <<>>
  BY <1>3 DEF Paired
<1> QED BY <1>1, <1>2, <1>3

LEMMA ExchangesFit ==
  ASSUME NEW turns \in Seq(Turn)
  PROVE  /\ ExchangesFrom(turns) \in Seq(Exchange)
         /\ \A e \in Range(ExchangesFrom(turns)) :
              Answered(e) /\ \E t \in Range(turns) : t.by = e.of
<1>1. PICK m \in Nat : m = Len(turns)
  OBVIOUS
<1> DEFINE T == {t.by : t \in Range(turns)}
           Fits(out) == out \in Seq(Exchange) /\ \A e \in Range(out) : Answered(e) /\ e.of \in T
           P == {n \in Nat : n <= m => Fits(Rebuilt(turns)[n])}
<1>2. /\ Rebuilt(turns)[0] = <<>>
      /\ \A n \in 1..m : Rebuilt(turns)[n] = Paired(Rebuilt(turns)[n - 1], turns[n])
  BY <1>1, RebuiltStepByStep
<1>3. 0 \in P
  <2>1. <<>> \in Seq(Exchange) /\ Range(<<>>) = {}
    BY DEF Range
  <2>2. Fits(<<>>)
    BY <2>1
  <2> HIDE DEF Fits
  <2> QED BY <2>2, <1>2
<1>4. ASSUME NEW n \in Nat, n \in P PROVE n + 1 \in P
  <2>1. SUFFICES ASSUME n + 1 <= m PROVE Fits(Rebuilt(turns)[n + 1])
    OBVIOUS
  <2>2. turns[n + 1] \in Turn /\ turns[n + 1] \in Range(turns)
    BY <2>1, <1>1 DEF Range
  <2>3. Rebuilt(turns)[n + 1] = Paired(Rebuilt(turns)[n], turns[n + 1])
    BY <1>2, <2>1
  <2>4. Fits(Rebuilt(turns)[n])
    BY <1>4, <2>1
  <2>5. turns[n + 1].by \in T
    BY <2>2
  <2> HIDE DEF T
  <2> QED BY <2>2, <2>3, <2>4, <2>5, PairedFits
<1>5. m \in P
  BY <1>3, <1>4, SetInduction
<1>6. Fits(ExchangesFrom(turns))
  BY <1>5, <1>1, ExchangesAreRebuilt
<1> QED BY <1>6

\* The answers of no history; of one exchange more.
LEMMA AnswersOfNothing == AnswersOf(<<>>) = <<>>
BY SiftedStepByStep, AnswersAreSifted

LEMMA AnswersGrow ==
  ASSUME NEW history \in Seq(Exchange), NEW e \in Exchange
  PROVE  AnswersOf(Append(history, e)) =
           IF Answered(e) THEN Append(AnswersOf(history), e) ELSE AnswersOf(history)
<1>1. PICK m \in Nat : m = Len(history)
  OBVIOUS
<1>2. PICK more \in Seq(Exchange) : more = Append(history, e)
  <2>1. Append(history, e) \in Seq(Exchange)
    OBVIOUS
  <2> QED BY <2>1
<1>3. Len(more) = m + 1 /\ more[m + 1] = e /\ \A n \in 1..m : more[n] = history[n]
  BY <1>1, <1>2
<1> DEFINE P == {n \in Nat : n <= m => Sifted(more)[n] = Sifted(history)[n]}
           After(out, x) == IF Answered(x) THEN Append(out, x) ELSE out
<1>4. /\ Sifted(history)[0] = <<>>
      /\ \A n \in 1..m : Sifted(history)[n] = After(Sifted(history)[n - 1], history[n])
  BY <1>1, SiftedStepByStep
<1>5. /\ Sifted(more)[0] = <<>>
      /\ \A n \in 1..(m + 1) : Sifted(more)[n] = After(Sifted(more)[n - 1], more[n])
  BY <1>3, SiftedStepByStep
<1> HIDE DEF After
<1>6. 0 \in P
  BY <1>4, <1>5
<1>7. ASSUME NEW n \in Nat, n \in P PROVE n + 1 \in P
  <2>1. SUFFICES ASSUME n + 1 <= m PROVE Sifted(more)[n + 1] = Sifted(history)[n + 1]
    OBVIOUS
  <2>2. n + 1 \in 1..m /\ n + 1 \in 1..(m + 1) /\ n + 1 - 1 = n
    BY <2>1
  <2>3. Sifted(more)[n] = Sifted(history)[n] /\ more[n + 1] = history[n + 1]
    BY <1>7, <2>1, <2>2, <1>3
  <2>4. Sifted(more)[n + 1] = After(Sifted(more)[n], more[n + 1])
    BY <1>5, <2>2
  <2>5. Sifted(history)[n + 1] = After(Sifted(history)[n], history[n + 1])
    BY <1>4, <2>2
  <2> QED BY <2>3, <2>4, <2>5
<1>8. m \in P
  BY <1>6, <1>7, SetInduction
<1>9. Sifted(more)[m + 1] = After(Sifted(more)[m], more[m + 1])
  <2>1. m + 1 \in 1..(m + 1) /\ m + 1 - 1 = m
    OBVIOUS
  <2> QED BY <2>1, <1>5
<1>10. Sifted(more)[m] = Sifted(history)[m]
  BY <1>8
<1>11. AnswersOf(more) = After(AnswersOf(history), e)
  BY <1>1, <1>3, <1>9, <1>10, AnswersAreSifted
<1> QED BY <1>2, <1>11 DEF After

\* A history without its last exchange, and the exchange.
LEMMA LastExchange ==
  ASSUME NEW history \in Seq(Exchange), history # <<>>
  PROVE  \E front \in Seq(Exchange), e \in Exchange :
           /\ history = Append(front, e) /\ e = history[Len(history)]
           /\ \A x : [history EXCEPT ![Len(history)] = x] = Append(front, x)
<1>1. PICK m \in Nat : Len(history) = m + 1
  <2>1. Len(history) \in Nat \ {0}
    OBVIOUS
  <2>2. Len(history) - 1 \in Nat /\ Len(history) = (Len(history) - 1) + 1
    BY <2>1
  <2> QED BY <2>2
<1> DEFINE front == [n \in 1..m |-> history[n]]
<1>2. \A n \in 1..(m + 1) : history[n] \in Exchange
  BY <1>1
<1>3. front \in Seq(Exchange) /\ Len(front) = m
  BY <1>2
<1>4. history = [n \in 1..(m + 1) |-> history[n]]
  BY <1>1
<1>5. ASSUME NEW x PROVE [history EXCEPT ![m + 1] = x] = Append(front, x)
  <2>1. Append(front, x) = [n \in 1..(m + 1) |-> IF n <= m THEN front[n] ELSE x]
    BY <1>3
  <2>2. [history EXCEPT ![m + 1] = x] = [n \in 1..(m + 1) |-> IF n = m + 1 THEN x ELSE history[n]]
    BY <1>4
  <2>3. \A n \in 1..(m + 1) : IF n <= m THEN n \in 1..m /\ n # m + 1 ELSE n = m + 1
    OBVIOUS
  <2> QED BY <2>1, <2>2, <2>3
<1>6. history = Append(front, history[m + 1])
  <2>1. [history EXCEPT ![m + 1] = history[m + 1]] = history
    BY <1>4
  <2> QED BY <2>1, <1>5
<1> HIDE DEF front
<1> QED BY <1>1, <1>2, <1>3, <1>5, <1>6

\* Of a history of answers, all are; of one without answers, none.
LEMMA AnswersOfAnswers ==
  ASSUME NEW history \in Seq(Exchange)
  PROVE  /\ AnswersOf(history) \in Seq(Exchange)
         /\ (\A e \in Range(history) : Answered(e)) => AnswersOf(history) = history
         /\ (\A e \in Range(history) : ~Answered(e)) => AnswersOf(history) = <<>>
<1> DEFINE Good(h) ==
             /\ AnswersOf(h) \in Seq(Exchange)
             /\ (\A e \in Range(h) : Answered(e)) => AnswersOf(h) = h
             /\ (\A e \in Range(h) : ~Answered(e)) => AnswersOf(h) = <<>>
           P == {n \in Nat : \A h \in Seq(Exchange) : Len(h) = n => Good(h)}
<1>1. 0 \in P
  <2>1. ASSUME NEW h \in Seq(Exchange), Len(h) = 0 PROVE h = <<>>
    BY <2>1
  <2>2. Good(<<>>)
    <3>1. <<>> \in Seq(Exchange)
      OBVIOUS
    <3> QED BY <3>1, AnswersOfNothing
  <2> HIDE DEF Good
  <2> QED BY <2>1, <2>2
<1>2. ASSUME NEW n \in Nat, n \in P PROVE n + 1 \in P
  <2>1. SUFFICES ASSUME NEW h \in Seq(Exchange), Len(h) = n + 1 PROVE Good(h)
    OBVIOUS
  <2>2. PICK front \in Seq(Exchange), e \in Exchange : h = Append(front, e)
    <3>1. h # <<>>
      BY <2>1
    <3> QED BY <3>1, LastExchange
  <2>3. Len(front) = n
    BY <2>1, <2>2
  <2>4. Good(front)
    BY <2>3, <1>2
  <2>5. AnswersOf(h) = IF Answered(e) THEN Append(AnswersOf(front), e) ELSE AnswersOf(front)
    BY <2>2, AnswersGrow
  <2>6. e \in Range(h) /\ \A x \in Range(front) : x \in Range(h)
    <3>1. h[n + 1] = e /\ DOMAIN h = 1..(n + 1) /\ DOMAIN front = 1..n
      BY <2>2, <2>3
    <3>2. \A k \in 1..n : h[k] = front[k] /\ k \in 1..(n + 1)
      BY <2>2, <2>3
    <3> QED BY <3>1, <3>2 DEF Range
  <2>7. CASE Answered(e)
    BY <2>2, <2>4, <2>5, <2>6, <2>7
  <2>8. CASE ~Answered(e)
    BY <2>2, <2>4, <2>5, <2>6, <2>8
  <2> QED BY <2>7, <2>8
<1>3. Nat \subseteq P
  BY <1>1, <1>2, SetInduction
<1>4. Len(history) \in Nat
  OBVIOUS
<1> HIDE DEF Good
<1>5. Good(history)
  BY <1>3, <1>4
<1> QED BY <1>5 DEF Good

\* A rerun's answer is paired on screen as it is in the thread.
LEMMA AnswersOfRerun ==
  ASSUME NEW history \in Seq(Exchange), history # <<>>, Answered(history[Len(history)]),
         NEW by \in Asks, NEW t, t = [asked |-> None, by |-> by]
  PROVE  AnswersOf([history EXCEPT ![Len(history)].show = "answer", ![Len(history)].of = by])
           = Paired(AnswersOf(history), t)
<1>1. PICK front \in Seq(Exchange), e \in Exchange :
           /\ history = Append(front, e) /\ e = history[Len(history)]
           /\ \A x : [history EXCEPT ![Len(history)] = x] = Append(front, x)
  BY LastExchange
<1>2. PICK x : x = [[e EXCEPT !.show = "answer"] EXCEPT !.of = by]
  OBVIOUS
<1>3. x \in Exchange /\ Answered(x) /\ Answered(e) /\ x = [e EXCEPT !.of = by]
  BY <1>1, <1>2 DEF Exchange, Answered
<1>4. [history EXCEPT ![Len(history)].show = "answer", ![Len(history)].of = by]
        = [history EXCEPT ![Len(history)] = x]
  <2>1. PICK m \in Nat : m = Len(history)
    OBVIOUS
  <2>2. m \in DOMAIN history
    BY <2>1
  <2> QED BY <1>1, <1>2, <2>1, <2>2
<1>5. PICK out \in Seq(Exchange) : out = AnswersOf(front)
  BY AnswersOfAnswers
<1>6. AnswersOf(history) = Append(out, e)
  BY <1>1, <1>3, <1>5, AnswersGrow
<1>7. AnswersOf(Append(front, x)) = Append(out, x)
  BY <1>3, <1>5, AnswersGrow
<1>8. Paired(Append(out, e), t) = Append(out, x)
  <2>1. PICK s \in Seq(Exchange) : s = Append(out, e)
    <3>1. Append(out, e) \in Seq(Exchange)
      OBVIOUS
    <3> QED BY <3>1
  <2>2. s # <<>> /\ Len(s) = Len(out) + 1 /\ s[Len(s)] = e
    BY <2>1
  <2>3. Paired(s, t) = [s EXCEPT ![Len(s)].of = by]
    BY <2>2 DEF Paired
  <2>4. [s EXCEPT ![Len(s)].of = by] = [s EXCEPT ![Len(s)] = x]
    BY <2>2, <1>3
  <2>5. [s EXCEPT ![Len(s)] = x] = Append(out, x)
    <3>1. PICK m \in Nat : m = Len(out)
      OBVIOUS
    <3>5. ASSUME NEW z \in Exchange
          PROVE  Append(out, z) = [n \in 1..(m + 1) |-> IF n <= m THEN out[n] ELSE z]
      <4>1. Append(out, z) \in Seq(Exchange) /\ Len(Append(out, z)) = m + 1
        BY <3>1
      <4>2. \A n \in 1..(m + 1) : Append(out, z)[n] = IF n <= m THEN out[n] ELSE z
        BY <3>1
      <4>3. ASSUME NEW w \in Seq(Exchange), Len(w) = m + 1
            PROVE  w = [n \in 1..(m + 1) |-> w[n]]
        BY <4>3
      <4>4. Append(out, z) = [n \in 1..(m + 1) |-> Append(out, z)[n]]
        BY <4>1, <4>3
      <4> QED BY <4>2, <4>4
    <3>2. /\ s = [n \in 1..(m + 1) |-> IF n <= m THEN out[n] ELSE e]
          /\ Append(out, x) = [n \in 1..(m + 1) |-> IF n <= m THEN out[n] ELSE x]
      BY <3>5, <2>1, <1>3
    <3>3. [s EXCEPT ![m + 1] = x] = [n \in 1..(m + 1) |-> IF n = m + 1 THEN x ELSE s[n]]
      BY <3>2
    <3>4. \A n \in 1..(m + 1) : IF n = m + 1 THEN ~(n <= m) ELSE n <= m
      OBVIOUS
    <3> QED BY <2>2, <3>1, <3>2, <3>3, <3>4
  <2> QED BY <2>1, <2>3, <2>4, <2>5
<1> QED BY <1>1, <1>4, <1>6, <1>7, <1>8

\* The pair of a turn shows its answer under its question, or the last one shown.
LEMMA PairedShows ==
  ASSUME NEW out \in Seq(Exchange), NEW t \in Turn, NEW e \in Range(Paired(out, t))
  PROVE  \/ e \in Range(out)
         \/ /\ e.of = t.by /\ (t.asked # None => e.question = t.asked)
            /\ t.asked = None => out # <<>> /\ e.question = out[Len(out)].question
<1>1. PICK m \in Nat : m = Len(out) /\ DOMAIN out = 1..m
  OBVIOUS
<1>2. CASE t.asked # None
  <2>1. PICK x : x = [question |-> t.asked, show |-> "answer", of |-> t.by]
    OBVIOUS
  <2>2. Paired(out, t) = Append(out, x)
    BY <1>2, <2>1 DEF Paired
  <2>3. Append(out, x)[m + 1] = x /\ DOMAIN Append(out, x) = 1..(m + 1)
        /\ \A n \in 1..m : Append(out, x)[n] = out[n]
    BY <1>1
  <2>4. PICK n \in 1..(m + 1) : e = Append(out, x)[n]
    BY <2>2, <2>3 DEF Range
  <2>5. CASE n \in 1..m
    BY <1>1, <2>3, <2>4, <2>5 DEF Range
  <2>6. CASE n = m + 1
    <3>1. e = x
      BY <2>3, <2>4, <2>6
    <3> QED BY <1>2, <2>1, <3>1
  <2> QED BY <1>1, <2>4, <2>5, <2>6
<1>3. CASE t.asked = None /\ out # <<>>
  <2>1. m \in DOMAIN out /\ out[m] \in Exchange
    BY <1>1, <1>3
  <2>2. PICK x : x = [out[m] EXCEPT !.of = t.by]
    OBVIOUS
  <2>3. x.of = t.by /\ x.question = out[m].question
    BY <2>1, <2>2 DEF Exchange
  <2>4. Paired(out, t) = [out EXCEPT ![m] = x]
    BY <1>1, <1>3, <2>1, <2>2 DEF Paired
  <2>5. PICK n \in 1..m : e = [out EXCEPT ![m] = x][n]
    BY <1>1, <2>4 DEF Range
  <2>6. CASE n = m
    BY <1>1, <1>3, <2>1, <2>3, <2>5, <2>6
  <2>7. CASE n # m
    BY <1>1, <2>5, <2>7 DEF Range
  <2> QED BY <2>6, <2>7
<1>4. CASE t.asked = None /\ out = <<>>
  BY <1>4 DEF Paired
<1> QED BY <1>2, <1>3, <1>4

\* An answer that comes last is the last of the answers.
LEMMA LastAnswer ==
  ASSUME NEW history \in Seq(Exchange), history # <<>>, Answered(history[Len(history)])
  PROVE  /\ AnswersOf(history) # <<>>
         /\ AnswersOf(history)[Len(AnswersOf(history))] = history[Len(history)]
<1>1. PICK front \in Seq(Exchange), e \in Exchange :
           history = Append(front, e) /\ e = history[Len(history)]
  BY LastExchange
<1>2. PICK out \in Seq(Exchange) : out = AnswersOf(front)
  BY AnswersOfAnswers
<1>3. AnswersOf(history) = Append(out, e)
  BY <1>1, <1>2, AnswersGrow
<1>4. Append(out, e) # <<>> /\ Append(out, e)[Len(Append(out, e))] = e
  OBVIOUS
<1> QED BY <1>1, <1>3, <1>4

\* The last question of a thread is that of the last exchange rebuilt from it.
Asking(turns) == {n \in DOMAIN turns : turns[n].asked # None}

LEMMA LastAskedGrows ==
  ASSUME NEW turns \in Seq(Turn), NEW t \in Turn
  PROVE  /\ t.asked # None => LastAsked(Append(turns, t)) = t.asked
         /\ t.asked = None => /\ LastAsked(Append(turns, t)) = LastAsked(turns) \/ Asking(turns) = {}
                              /\ Asking(Append(turns, t)) = Asking(turns)
<1>1. PICK m \in Nat : m = Len(turns) /\ DOMAIN turns = 1..m
  OBVIOUS
<1>2. PICK more \in Seq(Turn) : more = Append(turns, t)
  <2>1. Append(turns, t) \in Seq(Turn)
    OBVIOUS
  <2> QED BY <2>1
<1>3. DOMAIN more = 1..(m + 1) /\ more[m + 1] = t /\ \A n \in 1..m : more[n] = turns[n]
  BY <1>1, <1>2
<1>4. LastAsked(more) = more[Max(Asking(more))].asked /\ LastAsked(turns) = turns[Max(Asking(turns))].asked
  BY DEF LastAsked, Asking
<1>5. Asking(more) \subseteq 1..(m + 1) /\ Asking(turns) \subseteq 1..m
  BY <1>1, <1>3 DEF Asking
<1>6. CASE t.asked # None
  <2>1. m + 1 \in Asking(more)
    BY <1>3, <1>6 DEF Asking
  <2>2. Max(Asking(more)) \in 1..(m + 1) /\ m + 1 <= Max(Asking(more))
    BY <2>1, <1>5, MaxOfPositions
  <2>3. Max(Asking(more)) = m + 1
    BY <2>2
  <2> QED BY <1>2, <1>3, <1>4, <1>6, <2>3
<1>7. CASE t.asked = None
  <2>1. Asking(more) = Asking(turns)
    <3>1. m + 1 \notin Asking(more)
      BY <1>3, <1>7 DEF Asking
    <3>2. \A n \in 1..m : n \in Asking(more) <=> n \in Asking(turns)
      BY <1>1, <1>3 DEF Asking
    <3> QED BY <3>1, <3>2, <1>5
  <2>2. Asking(turns) # {} => Max(Asking(turns)) \in 1..m
    BY <1>5, MaxOfPositions
  <2> QED BY <1>2, <1>3, <1>4, <1>7, <2>1, <2>2
<1> QED BY <1>6, <1>7

LEMMA LastTurn ==
  ASSUME NEW turns \in Seq(Turn), turns # <<>>
  PROVE  \E front \in Seq(Turn), t \in Turn : turns = Append(front, t) /\ Len(turns) = Len(front) + 1
<1>1. PICK m \in Nat : Len(turns) = m + 1
  <2>1. Len(turns) \in Nat \ {0}
    OBVIOUS
  <2>2. Len(turns) - 1 \in Nat /\ Len(turns) = (Len(turns) - 1) + 1
    BY <2>1
  <2> QED BY <2>2
<1> DEFINE front == [n \in 1..m |-> turns[n]]
<1>2. \A n \in 1..(m + 1) : turns[n] \in Turn
  BY <1>1
<1>3. front \in Seq(Turn) /\ Len(front) = m /\ turns[m + 1] \in Turn
  BY <1>2
<1>4. turns = [n \in 1..(m + 1) |-> turns[n]]
  BY <1>1
<1>5. Append(front, turns[m + 1]) = [n \in 1..(m + 1) |-> IF n <= m THEN front[n] ELSE turns[m + 1]]
  BY <1>3
<1>6. \A n \in 1..(m + 1) : IF n <= m THEN n \in 1..m ELSE n = m + 1
  OBVIOUS
<1>7. turns = Append(front, turns[m + 1])
  BY <1>4, <1>5, <1>6
<1> HIDE DEF front
<1> QED BY <1>1, <1>3, <1>7

LEMMA LastQuestion ==
  ASSUME NEW turns \in Seq(Turn), Asking(turns) # {}
  PROVE  /\ ExchangesFrom(turns) # <<>>
         /\ ExchangesFrom(turns)[Len(ExchangesFrom(turns))].question = LastAsked(turns)
<1> DEFINE Good(s) ==
             Asking(s) # {} => /\ ExchangesFrom(s) # <<>>
                               /\ ExchangesFrom(s)[Len(ExchangesFrom(s))].question = LastAsked(s)
           P == {n \in Nat : \A s \in Seq(Turn) : Len(s) = n => Good(s)}
<1>1. 0 \in P
  <2>1. ASSUME NEW s \in Seq(Turn), Len(s) = 0 PROVE Asking(s) = {}
    BY <2>1 DEF Asking
  <2> QED BY <2>1
<1>2. ASSUME NEW n \in Nat, n \in P PROVE n + 1 \in P
  <2>1. SUFFICES ASSUME NEW s \in Seq(Turn), Len(s) = n + 1, Asking(s) # {} PROVE Good(s)
    OBVIOUS
  <2>2. PICK front \in Seq(Turn), t \in Turn : s = Append(front, t) /\ Len(s) = Len(front) + 1
    <3>1. s # <<>>
      BY <2>1
    <3> QED BY <3>1, LastTurn
  <2>3. Len(front) = n /\ Good(front)
    <3>1. Len(front) = n
      BY <2>1, <2>2
    <3> QED BY <3>1, <1>2
  <2>4. PICK out \in Seq(Exchange) : out = ExchangesFrom(front)
    BY ExchangesFit
  <2>5. ExchangesFrom(s) = Paired(out, t)
    BY <2>2, <2>4, ExchangesGrow
  <2>6. CASE t.asked # None
    <3>1. PICK x : x = [question |-> t.asked, show |-> "answer", of |-> t.by]
      OBVIOUS
    <3>2. Paired(out, t) = Append(out, x)
      BY <2>6, <3>1 DEF Paired
    <3>3. Append(out, x) # <<>> /\ Append(out, x)[Len(Append(out, x))] = x
      <4>1. x \in Exchange
        BY <2>6, <3>1 DEF Exchange, Turn
      <4> QED BY <2>4, <4>1
    <3> QED BY <2>2, <2>5, <2>6, <3>1, <3>2, <3>3, LastAskedGrows
  <2>7. CASE t.asked = None
    <3>1. Asking(front) # {} /\ LastAsked(s) = LastAsked(front)
      BY <2>1, <2>2, <2>7, LastAskedGrows
    <3>2. out # <<>> /\ out[Len(out)].question = LastAsked(front)
      BY <3>1, <2>3, <2>4
    <3>3. PICK m \in Nat : m = Len(out) /\ DOMAIN out = 1..m /\ m \in 1..m /\ out[m] \in Exchange
      BY <3>2
    <3>4. PICK x : x = [out[m] EXCEPT !.of = t.by]
      OBVIOUS
    <3>5. Paired(out, t) = [out EXCEPT ![m] = x] /\ x.question = out[m].question
      BY <2>7, <3>2, <3>3, <3>4 DEF Paired, Exchange
    <3>6. Len([out EXCEPT ![m] = x]) = m /\ [out EXCEPT ![m] = x][m] = x /\ [out EXCEPT ![m] = x] # <<>>
      <4>1. x \in Exchange
        BY <3>3, <3>4 DEF Exchange, Turn
      <4>2. [out EXCEPT ![m] = x] \in Seq(Exchange) /\ Len([out EXCEPT ![m] = x]) = m
        BY <3>3, <4>1
      <4> QED BY <3>3, <4>2
    <3> QED BY <2>5, <3>1, <3>2, <3>3, <3>5, <3>6
  <2> QED BY <2>6, <2>7
<1>3. Nat \subseteq P
  BY <1>1, <1>2, SetInduction
<1>4. Len(turns) \in Nat
  OBVIOUS
<1> HIDE DEF Good
<1>5. Good(turns)
  BY <1>3, <1>4
<1> QED BY <1>5 DEF Good

-----------------------------------------------------------------------------
(* Types.                                                                  *)

LEMMA InvestigationNames ==
  /\ Asks \subseteq Investigations /\ Old \in Investigations /\ Old \notin Asks
  /\ None \notin Investigations /\ None \notin Asks /\ Earlier \notin Asks
  /\ None \notin Questions /\ None # Earlier
BY AskConsoleAssumption DEF Asks, Investigations, Earlier

\* The turn and the request at hand, where they are.
LEMMA RowsHold ==
  ASSUME Rows
  PROVE  /\ \A r \in Asks : req[r] # None => req[r] \in Request
         /\ \A i \in Investigations : stored[i] # None => stored[i] \in Investigation
BY DEF Rows

LEMMA NothingShown ==
  /\ INITIAL \in Stream /\ <<>> \in Seq(Exchange) /\ Range(<<>>) = {}
  /\ INITIAL.status = "idle" /\ INITIAL.question = None /\ INITIAL.turn = None
  /\ INITIAL.answer = None /\ INITIAL.message = FALSE
BY DEF INITIAL, Stream, Range

LEMMA StartIsTyped == Init => Typed
<1> SUFFICES ASSUME Init PROVE Typed
  OBVIOUS
<1>1. PICK p, q \in Questions, m \in Models \cup {None} :
         stored = [i \in Investigations |->
                        IF i = Old THEN [model |-> m, turns |-> <<[asked |-> p, by |-> Earlier],
                                                                 [asked |-> q, by |-> Earlier]>>]
                        ELSE None]
  BY DEF Init
<1> DEFINE t == [asked |-> p, by |-> Earlier]
           u == [asked |-> q, by |-> Earlier]
<1>2. t \in Turn /\ u \in Turn
  BY DEF Turn
<1> HIDE DEF t, u
<1>3. <<t, u>> \in Seq(Turn)
  BY <1>2
<1>4. [model |-> m, turns |-> <<t, u>>] \in Investigation
  BY <1>3 DEF Investigation
<1>5. stored \in [Investigations -> Investigation \cup {None}]
  BY <1>1, <1>4 DEF t, u
<1>6. /\ req = [r \in Asks |-> None] /\ wire = [r \in Asks |-> "none"]
      /\ aborted = {} /\ disturbed = FALSE /\ stream = INITIAL /\ visit \in Visits
      /\ screen = [key |-> None, history |-> <<>>, inv |-> None, loading |-> FALSE, rerun |-> FALSE]
  BY DEF Init
<1>7. screen \in Screen /\ \A e \in Range(screen.history) : e.show \in {"message", "stopped"} => e.of = None
  BY <1>6, NothingShown DEF Screen
<1> QED BY <1>5, <1>6, <1>7, NothingShown DEF Typed, Rows, TypeOK

WireStates == {"none", "open", "payload", "body", "closed"}

LEMMA AbortFits ==
  ASSUME Typed
  PROVE  /\ Abort => aborted' \subseteq Asks /\ disturbed' \in BOOLEAN
         /\ Hushed \in [Asks -> WireStates]
         /\ Current \subseteq Asks /\ Reading \subseteq Asks
BY DEF Typed, TypeOK, Abort, Hushed, Current, Reading, WireStates

\* A turn as it is asked.
Opened(r, new, q, again) ==
    /\ wire[r] = "none" /\ \A s \in 1..(r - 1) : wire[s] # "none"
    /\ Abort /\ wire' = [Hushed EXCEPT ![r] = "open"]
    /\ req' = [req EXCEPT ![r] = new]
    /\ new.at = "sent" /\ new.question = q /\ new.inv = screen.inv
    /\ new.rerun = (again /\ screen.inv # None)
    /\ stream' \in Stream /\ stream'.status = "streaming" /\ stream'.question = q
    /\ stream'.turn = r /\ stream'.answer = None /\ stream'.message = FALSE

LEMMA Asked ==
  ASSUME Typed, NEW q \in Questions, NEW again \in BOOLEAN, Ask(q, again)
  PROVE  \E r \in Asks, new \in Request : Opened(r, new, q, again)
<1>1. PICK r \in Asks :
        /\ wire[r] = "none" /\ \A s \in 1..(r - 1) : wire[s] # "none"
        /\ Abort
        /\ wire' = [Hushed EXCEPT ![r] = "open"]
        /\ stream' = [INITIAL EXCEPT !.status = "streaming", !.question = q, !.turn = r]
        /\ \E picked \in Picks :
             req' = [req EXCEPT ![r] =
                       [at |-> "sent", question |-> q, answers |-> None, inv |-> screen.inv,
                        rerun |-> again /\ screen.inv # None, model |-> picked]]
  BY DEF Ask
<1>2. PICK picked \in Picks :
         req' = [req EXCEPT ![r] =
                       [at |-> "sent", question |-> q, answers |-> None, inv |-> screen.inv,
                        rerun |-> again /\ screen.inv # None, model |-> picked]]
  BY <1>1
<1>3. PICK new : new = [at |-> "sent", question |-> q, answers |-> None, inv |-> screen.inv,
                        rerun |-> again /\ screen.inv # None, model |-> picked]
  OBVIOUS
<1>4. picked \in Models \cup {None} /\ screen.inv \in Investigations \cup {None}
  BY DEF Picks, Typed, TypeOK, Screen
<1>5. new \in Request
  BY <1>3, <1>4 DEF Request, Points
<1>6. /\ stream' \in Stream /\ stream'.status = "streaming" /\ stream'.question = q
      /\ stream'.turn = r /\ stream'.answer = None /\ stream'.message = FALSE
  BY <1>1 DEF INITIAL, Stream
<1>7. /\ new.at = "sent" /\ new.question = q /\ new.inv = screen.inv
      /\ new.rerun = (again /\ screen.inv # None)
  BY <1>3
<1>8. req' = [req EXCEPT ![r] = new]
  BY <1>2, <1>3
<1> HIDE DEF Request, Stream, Ask
<1> QED BY <1>1, <1>5, <1>6, <1>7, <1>8 DEF Opened

LEMMA AskFits ==
  ASSUME Typed, NEW q \in Questions, NEW again \in BOOLEAN, Ask(q, again)
  PROVE  /\ req' \in [Asks -> Request \cup {None}] /\ wire' \in [Asks -> WireStates]
         /\ aborted' \subseteq Asks /\ disturbed' \in BOOLEAN /\ stream' \in Stream
<1>1. PICK r \in Asks, new \in Request : Opened(r, new, q, again)
  BY Asked
<1>2. req \in [Asks -> Request \cup {None}]
  BY DEF Typed, Rows
<1>3. wire' \in [Asks -> WireStates]
  BY <1>1, AbortFits DEF WireStates, Opened
<1> QED BY <1>1, <1>2, <1>3, AbortFits DEF Opened

\* Another step of a turn at the server, other than an answer saved.
Advances(r, new) ==
    /\ req[r] \in Request /\ new \in Request /\ req' = [req EXCEPT ![r] = new]
    /\ UNCHANGED <<visit, stored, client>>
    /\ new.inv = req[r].inv /\ new.question = req[r].question /\ new.rerun = req[r].rerun
    /\ req[r].at \in {"sent", "starting", "running", "saving"} /\ new.at \notin {"sent", "answered"}
    /\ req[r].at = "sent" => /\ new.at \in {"refused", "starting"}
                             /\ new.at = "starting" /\ new.inv # None => new.model = stored[new.inv].model
    /\ req[r].at # "sent" => new.at # "refused" /\ new.model = req[r].model
    /\ new.at = "running" => new.answers = IF new.rerun THEN LastAsked(stored[new.inv].turns)
                                           ELSE new.question
    /\ new.at = "saving" => req[r].at = "running" /\ new.answers = req[r].answers

\* The answer of a turn saved.
Saves(r, new) ==
    /\ req[r] \in Request /\ new \in Request /\ req' = [req EXCEPT ![r] = new]
    /\ UNCHANGED <<visit, client>>
    /\ new.inv = req[r].inv /\ new.question = req[r].question /\ new.rerun = req[r].rerun
    /\ new.model = req[r].model /\ new.answers = req[r].answers
    /\ req[r].at = "saving" /\ new.at = "answered"
    /\ Saved(r) \in Turn /\ Saved(r).by = r
    /\ CreatedBy(r) \in Investigations
    /\ stored' = [stored EXCEPT ![CreatedBy(r)] =
                    IF @ = None THEN [model |-> req[r].model, turns |-> <<Saved(r)>>]
                    ELSE [model |-> @.model, turns |-> Append(@.turns, Saved(r))]]

\* Every step of the server is one or the other.
LEMMA RouteAdvances ==
  ASSUME Typed, Threads, NEW r \in Asks, Route(r)
  PROVE  \E new : Advances(r, new)
<1>1. PICK runnable \in Registries :
    /\ At(r, "sent")
    /\ IF Offers(r, runnable) = {} THEN req' = [req EXCEPT ![r].at = "refused"]
       ELSE \E m \in Offers(r, runnable) :
              req' = [req EXCEPT ![r].at = "starting", ![r].model = m]
    /\ UNCHANGED <<visit, stored, client>>
  BY DEF Route
<1>2. req[r] \in Request /\ req[r].at = "sent" /\ req \in [Asks -> Request \cup {None}]
  BY <1>1, RowsHold DEF At, Typed, Rows
<1>3. CASE Offers(r, runnable) = {}
  <2>1. PICK new : new = [req[r] EXCEPT !.at = "refused"]
    OBVIOUS
  <2>2. req' = [req EXCEPT ![r] = new]
    BY <1>1, <1>3, <2>1
  <2>3. /\ new \in Request /\ new.at = "refused" /\ new.inv = req[r].inv
        /\ new.question = req[r].question /\ new.rerun = req[r].rerun
    BY <1>2, <2>1 DEF Request, Points
  <2> QED BY <1>1, <1>2, <2>2, <2>3 DEF Advances
<1>4. CASE Offers(r, runnable) # {}
  <2>1. PICK m \in Offers(r, runnable) : req' = [req EXCEPT ![r].at = "starting", ![r].model = m]
    BY <1>1, <1>4
  <2>2. runnable \subseteq Models
    BY DEF Registries
  <2>3. m \in Models \cup {None}
    BY <2>1, <2>2 DEF Offers, Resolved, Defaults
  <2>4. req[r].inv # None => m = stored[req[r].inv].model
    BY <2>1 DEF Offers, Resolved, Wanted
  <2>5. PICK new : new = [[req[r] EXCEPT !.at = "starting"] EXCEPT !.model = m]
    OBVIOUS
  <2>6. req' = [req EXCEPT ![r] = new]
    BY <2>1, <2>5, <1>2
  <2>7. /\ new \in Request /\ new.at = "starting" /\ new.inv = req[r].inv /\ new.model = m
        /\ new.question = req[r].question /\ new.rerun = req[r].rerun
    BY <1>2, <2>3, <2>5 DEF Request, Points
  <2> QED BY <1>1, <1>2, <2>4, <2>6, <2>7 DEF Advances
<1> QED BY <1>3, <1>4

LEMMA EndAdvances ==
  ASSUME Typed, NEW r \in Asks, req[r] # None, NEW end \in Points \ {"sent", "starting", "running", "answered"},
         req[r].at \in {"starting", "running", "saving"}, end = "saving" => req[r].at = "running",
         end # "refused", req' = [req EXCEPT ![r].at = end], UNCHANGED <<visit, stored, client>>
  PROVE  \E new : Advances(r, new)
<1>1. req[r] \in Request /\ req \in [Asks -> Request \cup {None}]
  BY RowsHold DEF Typed, Rows
<1>2. PICK new : new = [req[r] EXCEPT !.at = end]
  OBVIOUS
<1>3. req' = [req EXCEPT ![r] = new]
  BY <1>2
<1>4. /\ new \in Request /\ new.at = end /\ new.inv = req[r].inv /\ new.model = req[r].model
      /\ new.question = req[r].question /\ new.rerun = req[r].rerun /\ new.answers = req[r].answers
  BY <1>1, <1>2 DEF Request
<1> QED BY <1>1, <1>3, <1>4 DEF Advances

LEMMA ReadAdvances ==
  ASSUME Typed, Threads, NEW r \in Asks, Read(r)
  PROVE  \E new : Advances(r, new)
<1>1. req[r] \in Request /\ req[r].at = "starting" /\ req \in [Asks -> Request \cup {None}]
      /\ UNCHANGED <<visit, stored, client>>
  BY RowsHold DEF Read, At, Typed, Rows
<1> DEFINE asks == IF req[r].rerun THEN LastAsked(stored[req[r].inv].turns) ELSE req[r].question
<1>2. CASE req' = [req EXCEPT ![r].at = "running", ![r].answers = asks]
  <2>1. asks \in Questions
    <3>1. CASE req[r].rerun
      <4>1. req[r].inv \in Investigations /\ stored[req[r].inv] # None
        BY <1>1, <3>1, NoneIsNoRecord DEF Threads, Request
      <4>2. /\ stored[req[r].inv].turns \in Seq(Turn)
            /\ \E n \in DOMAIN stored[req[r].inv].turns : stored[req[r].inv].turns[n].asked # None
        BY <4>1, RowsHold DEF Threads, Typed, Investigation
      <4> QED BY <3>1, <4>2, LastAskedIsAQuestion
    <3>2. CASE ~req[r].rerun
      BY <1>1, <3>2 DEF Request
    <3> QED BY <3>1, <3>2
  <2>2. PICK new : new = [[req[r] EXCEPT !.at = "running"] EXCEPT !.answers = asks]
    OBVIOUS
  <2>3. req' = [req EXCEPT ![r] = new]
    BY <1>1, <1>2, <2>2
  <2>4. /\ new \in Request /\ new.at = "running" /\ new.inv = req[r].inv /\ new.model = req[r].model
        /\ new.question = req[r].question /\ new.rerun = req[r].rerun /\ new.answers = asks
    BY <1>1, <2>1, <2>2 DEF Request, Points
  <2> QED BY <1>1, <2>3, <2>4 DEF Advances
<1>3. ASSUME NEW end \in {"replied", "failed"}, req' = [req EXCEPT ![r].at = end]
      PROVE  \E new : Advances(r, new)
  <2>1. end \in Points \ {"sent", "starting", "running", "answered"} /\ end \notin {"saving", "refused"}
    BY <1>3 DEF Points
  <2>2. req[r] # None
    BY <1>1, NoneIsNoRecord
  <2> QED BY <1>1, <1>3, <2>1, <2>2, EndAdvances
<1> QED BY <1>2, <1>3 DEF Read

LEMMA ConcludeAdvances ==
  ASSUME Typed, NEW r \in Asks, Conclude(r)
  PROVE  \E new : Advances(r, new)
<1>1. /\ req[r] # None /\ req[r].at = "running" /\ UNCHANGED <<visit, stored, client>>
      /\ \E end \in {"saving", "replied", "failed", "cancelled"} : req' = [req EXCEPT ![r].at = end]
  BY DEF Conclude, At
<1>2. {"saving", "replied", "failed", "cancelled"} \subseteq Points \ {"sent", "starting", "running", "answered", "refused"}
  BY DEF Points
<1> QED BY <1>1, <1>2, EndAdvances

LEMMA SaveSaves ==
  ASSUME Typed, NEW r \in Asks, Save(r)
  PROVE  \E new : Advances(r, new) \/ Saves(r, new)
<1>1. /\ req[r] \in Request /\ req[r] # None /\ req[r].at = "saving" /\ UNCHANGED <<visit, client>>
      /\ req \in [Asks -> Request \cup {None}]
  BY RowsHold DEF Save, At, Typed, Rows
<1>2. CASE req' = [req EXCEPT ![r].at = "failed"] /\ UNCHANGED stored
  <2>1. "failed" \in Points \ {"sent", "starting", "running", "answered", "refused"}
    BY DEF Points
  <2> QED BY <1>1, <1>2, <2>1, EndAdvances
<1>3. CASE /\ req' = [req EXCEPT ![r].at = "answered"]
           /\ stored' = [stored EXCEPT ![CreatedBy(r)] =
                          IF @ = None THEN [model |-> req[r].model, turns |-> <<Saved(r)>>]
                          ELSE [model |-> @.model, turns |-> Append(@.turns, Saved(r))]]
  <2>1. PICK new : new = [req[r] EXCEPT !.at = "answered"]
    OBVIOUS
  <2>2. req' = [req EXCEPT ![r] = new]
    BY <1>3, <2>1
  <2>3. /\ new \in Request /\ new.at = "answered" /\ new.inv = req[r].inv /\ new.model = req[r].model
        /\ new.question = req[r].question /\ new.rerun = req[r].rerun /\ new.answers = req[r].answers
    BY <1>1, <2>1 DEF Request, Points
  <2>4. Saved(r) \in Turn /\ Saved(r).by = r
    BY <1>1 DEF Saved, Turn, Request
  <2>5. CreatedBy(r) \in Investigations
    BY <1>1, InvestigationNames DEF CreatedBy, Request
  <2> QED BY <1>1, <1>3, <2>2, <2>3, <2>4, <2>5 DEF Saves
<1> QED BY <1>2, <1>3 DEF Save

LEMMA ServerSteps ==
  ASSUME Typed, Threads, NEW r \in Asks, Serve(r)
  PROVE  \E new : Advances(r, new) \/ Saves(r, new)
BY RouteAdvances, ReadAdvances, ConcludeAdvances, SaveSaves DEF Serve

\* .. and the thread it was saved to.
Grows(i, r) ==
    /\ i \in Investigations /\ stored' \in [Investigations -> Investigation \cup {None}]
    /\ stored'[i] # None /\ \A j \in Investigations \ {i} : stored'[j] = stored[j]
    /\ stored[i] = None => /\ i = r /\ req[r].inv = None /\ ~req[r].rerun
                           /\ stored'[i].model = req[r].model
                           /\ stored'[i].turns = <<Saved(r)>>
                           /\ Range(stored'[i].turns) = {Saved(r)}
                           /\ ExchangesFrom(stored'[i].turns) = Paired(<<>>, Saved(r))
    /\ stored[i] # None => /\ req[r].inv = i /\ stored'[i].model = stored[i].model
                           /\ stored'[i].turns = Append(stored[i].turns, Saved(r))
                           /\ Range(stored'[i].turns) = Range(stored[i].turns) \cup {Saved(r)}
                           /\ ExchangesFrom(stored'[i].turns)
                                = Paired(ExchangesFrom(stored[i].turns), Saved(r))

LEMMA SavedGrows ==
  ASSUME Typed, Threads, NEW r \in Asks, NEW new, Saves(r, new),
         NEW i, i = CreatedBy(r)
  PROVE  Grows(i, r)
<1>1. PICK t \in Turn : t = Saved(r)
  BY DEF Saves
<1>2. /\ i \in Investigations /\ req[r] \in Request /\ req[r].at = "saving"
      /\ stored' = [stored EXCEPT ![i] = IF stored[i] = None THEN [model |-> req[r].model, turns |-> <<t>>]
                                         ELSE [model |-> stored[i].model, turns |-> Append(stored[i].turns, t)]]
  <2>1. i \in Investigations /\ req[r] \in Request /\ req[r].at = "saving"
    BY DEF Saves
  <2>2. stored' = [stored EXCEPT ![CreatedBy(r)] =
                    IF stored[CreatedBy(r)] = None THEN [model |-> req[r].model, turns |-> <<Saved(r)>>]
                    ELSE [model |-> stored[CreatedBy(r)].model,
                          turns |-> Append(stored[CreatedBy(r)].turns, Saved(r))]]
    BY DEF Saves, Typed, Rows
  <2> QED BY <1>1, <2>1, <2>2
<1>3. stored \in [Investigations -> Investigation \cup {None}] /\ req[r] # None
  BY <1>2, NoneIsNoRecord DEF Typed, Rows
<1>4. CASE stored[i] = None
  <2>1. req[r].inv = None /\ i = r /\ ~req[r].rerun
    <3>1. req[r].inv # None => i = req[r].inv /\ stored[req[r].inv] # None
      BY <1>3 DEF Threads, CreatedBy
    <3>2. req[r].inv = None
      BY <3>1, <1>4
    <3> QED BY <3>2, <1>3 DEF Threads, CreatedBy
  <2>2. PICK one \in Seq(Turn) : one = <<t>>
    <3>1. <<t>> \in Seq(Turn)
      BY <1>1
    <3> QED BY <3>1
  <2>3. PICK it : it = [model |-> req[r].model, turns |-> one]
    OBVIOUS
  <2>4. it \in Investigation /\ it.model = req[r].model /\ it.turns = one
    BY <2>3, <1>2 DEF Investigation, Request
  <2>5. stored' = [stored EXCEPT ![i] = it]
    BY <1>2, <1>4, <2>2, <2>3
  <2>6. Range(one) = {t}
    BY <2>2 DEF Range
  <2>7. ExchangesFrom(one) = Paired(<<>>, t)
    <3>1. <<>> \in Seq(Turn) /\ one = Append(<<>>, t)
      BY <2>2
    <3> QED BY <3>1, <1>1, ExchangesGrow, ExchangesOfNothing
  <2>8. it # None
    BY <2>4, NoneIsNoRecord
  <2> QED BY <1>1, <1>2, <1>3, <1>4, <2>1, <2>2, <2>4, <2>5, <2>6, <2>7, <2>8 DEF Grows
<1>5. CASE stored[i] # None
  <2>1. req[r].inv = i
    <3>1. ASSUME req[r].inv = None PROVE FALSE
      <4>1. i = r
        BY <3>1 DEF CreatedBy
      <4> QED BY <4>1, <1>2, <1>5 DEF Threads, At
    <3> QED BY <3>1 DEF CreatedBy
  <2>2. stored[i] \in Investigation
    BY <1>2, <1>3, <1>5
  <2>3. PICK turns \in Seq(Turn) : turns = stored[i].turns
    BY <2>2 DEF Investigation
  <2>4. PICK more \in Seq(Turn) : more = Append(turns, t)
    <3>1. Append(turns, t) \in Seq(Turn)
      BY <1>1
    <3> QED BY <3>1
  <2>5. PICK it : it = [model |-> stored[i].model, turns |-> more]
    OBVIOUS
  <2>6. it \in Investigation /\ it.model = stored[i].model /\ it.turns = more
    BY <2>2, <2>5 DEF Investigation
  <2>7. stored' = [stored EXCEPT ![i] = it]
    BY <1>2, <1>5, <2>3, <2>4, <2>5
  <2>8. Range(more) = Range(turns) \cup {t}
    <3>1. PICK m \in Nat : m = Len(turns)
      OBVIOUS
    <3>2. DOMAIN more = 1..(m + 1) /\ DOMAIN turns = 1..m
      BY <2>4, <3>1
    <3>3. more[m + 1] = t /\ \A n \in 1..m : more[n] = turns[n]
      BY <2>4, <3>1
    <3>4. 1..(m + 1) = (1..m) \cup {m + 1}
      OBVIOUS
    <3> QED BY <3>2, <3>3, <3>4 DEF Range
  <2>9. ExchangesFrom(more) = Paired(ExchangesFrom(turns), t)
    BY <2>4, <1>1, ExchangesGrow
  <2>10. it # None
    BY <2>6, NoneIsNoRecord
  <2> QED BY <1>1, <1>2, <1>3, <1>5, <2>1, <2>3, <2>4, <2>6, <2>7, <2>8, <2>9, <2>10 DEF Grows
<1> QED BY <1>4, <1>5

LEMMA ServerKeepsTypes ==
  ASSUME Typed, Threads, NEW r \in Asks, Serve(r)
  PROVE  Typed'
<1>1. PICK new : Advances(r, new) \/ Saves(r, new)
  BY ServerSteps
<1>2. req' = [req EXCEPT ![r] = new] /\ new \in Request /\ UNCHANGED <<visit, client>>
  BY <1>1 DEF Advances, Saves
<1>3. req' \in [Asks -> Request \cup {None}]
  BY <1>2 DEF Typed, Rows
<1>4. stored' \in [Investigations -> Investigation \cup {None}]
  <2>1. CASE Advances(r, new)
    BY <2>1 DEF Advances, Typed, Rows
  <2>2. CASE Saves(r, new)
    BY <2>2, SavedGrows DEF Grows
  <2> QED BY <1>1, <2>1, <2>2
<1> QED BY <1>2, <1>3, <1>4 DEF Typed, Rows, TypeOK, client

\* What a step of the server leaves as it was.
LEMMA AdvancedFrame ==
  ASSUME Typed, NEW r \in Asks, NEW new, Advances(r, new)
  PROVE  /\ \A q \in Asks : /\ At(q, "answered")' <=> At(q, "answered")
                            /\ req'[q] = None <=> req[q] = None
                            /\ req'[q].inv = req[q].inv /\ req'[q].rerun = req[q].rerun
                            /\ req'[q].question = req[q].question
                            /\ CreatedBy(q)' = CreatedBy(q) /\ Saved(q)' = Saved(q)
                            /\ q # r \/ At(q, "answered") => req'[q] = req[q]
         /\ req'[r] = new /\ req[r] # None /\ new # None /\ ~At(r, "answered")
         /\ stored' = stored /\ wire' = wire /\ aborted' = aborted /\ screen' = screen
         /\ stream' = stream /\ disturbed' = disturbed
<1>1. req \in [Asks -> Request \cup {None}]
  BY DEF Typed, Rows
<1>2. /\ req[r] # None /\ new # None /\ req'[r] = new /\ req[r].at # "answered" /\ new.at # "answered"
      /\ \A q \in Asks \ {r} : req'[q] = req[q]
      /\ new.inv = req[r].inv /\ new.rerun = req[r].rerun /\ new.question = req[r].question
  BY <1>1, NoneIsNoRecord DEF Advances
<1>3. \A q \in Asks : /\ At(q, "answered")' <=> At(q, "answered")
                      /\ req'[q] = None <=> req[q] = None
                      /\ req'[q].inv = req[q].inv /\ req'[q].rerun = req[q].rerun
                      /\ req'[q].question = req[q].question
                      /\ q # r \/ At(q, "answered") => req'[q] = req[q]
  BY <1>2 DEF At
<1>4. \A q \in Asks : CreatedBy(q)' = CreatedBy(q) /\ Saved(q)' = Saved(q)
  BY <1>3 DEF CreatedBy, Saved
<1> QED BY <1>2, <1>3, <1>4 DEF Advances, At, client

LEMMA SavedFrame ==
  ASSUME Typed, NEW r \in Asks, NEW new, Saves(r, new)
  PROVE  /\ \A q \in Asks : /\ At(q, "answered")' <=> At(q, "answered") \/ q = r
                            /\ req'[q] = None <=> req[q] = None
                            /\ req'[q].inv = req[q].inv /\ req'[q].rerun = req[q].rerun
                            /\ req'[q].model = req[q].model /\ req'[q].answers = req[q].answers
                            /\ req'[q].question = req[q].question
                            /\ CreatedBy(q)' = CreatedBy(q) /\ Saved(q)' = Saved(q)
                            /\ q # r => req'[q] = req[q]
         /\ req'[r] = new /\ req[r] # None /\ new # None /\ ~At(r, "answered")
         /\ wire' = wire /\ aborted' = aborted /\ screen' = screen
         /\ stream' = stream /\ disturbed' = disturbed
<1>1. req \in [Asks -> Request \cup {None}]
  BY DEF Typed, Rows
<1>2. /\ req[r] # None /\ new # None /\ req'[r] = new /\ req[r].at # "answered" /\ new.at = "answered"
      /\ \A q \in Asks \ {r} : req'[q] = req[q]
      /\ new.inv = req[r].inv /\ new.rerun = req[r].rerun /\ new.question = req[r].question
      /\ new.model = req[r].model /\ new.answers = req[r].answers
  BY <1>1, NoneIsNoRecord DEF Saves
<1>3. \A q \in Asks : /\ At(q, "answered")' <=> At(q, "answered") \/ q = r
                      /\ req'[q] = None <=> req[q] = None
                      /\ req'[q].inv = req[q].inv /\ req'[q].rerun = req[q].rerun
                      /\ req'[q].model = req[q].model /\ req'[q].answers = req[q].answers
                      /\ req'[q].question = req[q].question
                      /\ q # r => req'[q] = req[q]
  BY <1>2 DEF At
<1>4. \A q \in Asks : CreatedBy(q)' = CreatedBy(q) /\ Saved(q)' = Saved(q)
  BY <1>3 DEF CreatedBy, Saved
<1> QED BY <1>2, <1>3, <1>4 DEF Saves, At, client

-----------------------------------------------------------------------------
(* What the server's steps keep.                                           *)

LEMMA TurnsFit ==
  ASSUME Rows, NEW i \in Investigations, stored[i] # None
  PROVE  /\ stored[i].turns \in Seq(Turn)
         /\ \A t \in Range(stored[i].turns) : t \in Turn /\ t.by \in Asks \cup {Earlier}
<1>1. PICK turns \in Seq(Turn) : turns = stored[i].turns
  BY RowsHold DEF Investigation
<1>2. \A t \in Range(turns) : t \in Turn
  BY DEF Range
<1> QED BY <1>1, <1>2 DEF Turn

\* The threads are as they were.
LEMMA SameThreads ==
  ASSUME Typed, Threads, UNCHANGED <<stored, screen>>,
         \A q \in Asks : /\ At(q, "answered")' <=> At(q, "answered")
                         /\ req'[q] = None <=> req[q] = None
                         /\ req'[q].inv = req[q].inv /\ req'[q].rerun = req[q].rerun
                         /\ CreatedBy(q)' = CreatedBy(q)
  PROVE  Threads'
<1>1. \A i \in Investigations : stored[i] # None => stored[i] \in Investigation
  BY RowsHold DEF Typed
<1>2. ASSUME NEW i \in Investigations, stored[i] # None, NEW t \in Range(stored[i].turns)
      PROVE  t.by \in Asks \cup {Earlier}
  BY <1>2, TurnsFit DEF Typed
<1>3. ASSUME NEW i \in Investigations, stored'[i] # None, NEW t \in Range(stored'[i].turns), t.by # Earlier
      PROVE  At(t.by, "answered")'
  BY <1>2, <1>3 DEF Threads
<1>4. ASSUME NEW q \in Asks, At(q, "answered")' PROVE Holds(CreatedBy(q), q)'
  <2>1. Holds(CreatedBy(q), q)
    BY <1>4 DEF Threads
  <2> QED BY <2>1 DEF Holds
<1> QED BY <1>3, <1>4 DEF Threads

LEMMA AdvanceKeepsThreads ==
  ASSUME Typed, Threads, Bound, OneModelPerThread, NEW r \in Asks, NEW new, Advances(r, new)
  PROVE  Threads' /\ Bound' /\ OneModelPerThread'
<1>1. Threads'
  BY AdvancedFrame, SameThreads
<1>2. Bound'
  <2>1. SUFFICES ASSUME NEW q \in Asks, req'[q] # None, req'[q].inv # None, req'[q].at \notin {"sent", "refused"}
                 PROVE  req'[q].model = stored'[req'[q].inv].model
    BY DEF Bound
  <2>2. CASE q # r
    BY <2>1, <2>2, AdvancedFrame DEF Bound
  <2>3. CASE q = r
    <3>1. req'[r] = new /\ new.inv = req[r].inv /\ stored' = stored /\ req[r] # None
      BY AdvancedFrame DEF Advances
    <3>2. CASE req[r].at = "sent"
      BY <2>1, <2>3, <3>1, <3>2 DEF Advances
    <3>3. CASE req[r].at # "sent"
      BY <2>1, <2>3, <3>1, <3>3 DEF Advances, Bound
    <3> QED BY <3>2, <3>3
  <2> QED BY <2>2, <2>3
<1>3. OneModelPerThread'
  <2>1. SUFFICES ASSUME NEW i \in Investigations, stored'[i] # None, NEW t \in Range(stored'[i].turns), t.by # Earlier
                 PROVE  req'[t.by].model = stored'[i].model
    BY DEF OneModelPerThread
  <2>2. stored' = stored
    BY AdvancedFrame
  <2>3. t.by \in Asks
    BY <2>1, <2>2, TurnsFit DEF Typed
  <2>4. At(t.by, "answered")
    BY <2>1, <2>2 DEF Threads
  <2>5. req'[t.by] = req[t.by]
    BY <2>3, <2>4, AdvancedFrame
  <2> QED BY <2>1, <2>2, <2>5 DEF OneModelPerThread
<1> QED BY <1>1, <1>2, <1>3

LEMMA SaveKeepsThreads ==
  ASSUME Typed, Threads, Bound, OneModelPerThread, NEW r \in Asks, NEW new, Saves(r, new)
  PROVE  Threads' /\ Bound' /\ OneModelPerThread'
<1>1. PICK i : i = CreatedBy(r)
  OBVIOUS
<1> DEFINE t == Saved(r)
<1>2. /\ i \in Investigations /\ stored'[i] # None
      /\ \A j \in Investigations \ {i} : stored'[j] = stored[j]
      /\ stored[i] = None => i = r /\ req[r].inv = None
      /\ stored[i] = None => stored'[i].model = req[r].model /\ Range(stored'[i].turns) = {t}
      /\ stored[i] # None => /\ req[r].inv = i /\ stored'[i].model = stored[i].model
                             /\ Range(stored'[i].turns) = Range(stored[i].turns) \cup {t}
  <2>1. Grows(i, r)
    BY <1>1, SavedGrows
  <2> QED BY <2>1 DEF Grows
<1>3. t.by = r /\ t \in Turn /\ r # Earlier
  BY InvestigationNames DEF Saves
<1>4. \A j \in Investigations : stored[j] # None =>
        /\ stored'[j] # None /\ stored'[j].model = stored[j].model
        /\ Range(stored[j].turns) \subseteq Range(stored'[j].turns)
  BY <1>2
<1>5. \A j \in Investigations : \A u \in Range(stored'[j].turns) : stored'[j] # None =>
        \/ stored[j] # None /\ u \in Range(stored[j].turns)
        \/ j = i /\ u = t
  BY <1>2
<1>6. ASSUME NEW j \in Investigations, stored[j] # None, NEW u \in Range(stored[j].turns), u.by # Earlier
      PROVE  u.by \in Asks /\ At(u.by, "answered") /\ u.by # r
  <2>2. u.by \in Asks
    BY <1>6, TurnsFit DEF Typed
  <2>3. At(u.by, "answered")
    BY <1>6 DEF Threads
  <2> QED BY <2>2, <2>3, SavedFrame
<1> HIDE DEF t
<1>7. req[r].at = "saving" /\ req[r] # None
  BY SavedFrame DEF Saves
<1>8. Threads'
  <2>1. ASSUME NEW j \in Investigations, stored'[j] # None
        PROVE  \E n \in DOMAIN stored'[j].turns : stored'[j].turns[n].asked # None
    <3>1. CASE j # i
      BY <2>1, <3>1, <1>2 DEF Threads
    <3>2. CASE j = i /\ stored[i] # None
      <4>1. PICK n \in DOMAIN stored[i].turns : stored[i].turns[n].asked # None
        BY <1>2, <3>2 DEF Threads
      <4>2. stored[i].turns[n] \in Range(stored[i].turns)
        BY <4>1 DEF Range
      <4>3. stored[i].turns[n] \in Range(stored'[i].turns)
        BY <4>2, <1>2, <3>2
      <4> QED BY <3>2, <4>1, <4>3 DEF Range
    <3>3. CASE j = i /\ stored[i] = None
      <4>1. t \in Range(stored'[i].turns) /\ ~req[r].rerun
        BY <1>1, <1>2, <3>3, SavedGrows DEF Grows
      <4>2. t.asked # None
        <5>1. req[r].question \in Questions
          BY DEF Saves, Request
        <5> QED BY <5>1, <4>1, InvestigationNames DEF t, Saved
      <4> QED BY <3>3, <4>1, <4>2 DEF Range
    <3> QED BY <3>1, <3>2, <3>3
  <2>2. ASSUME NEW j \in Investigations, stored'[j] # None, NEW u \in Range(stored'[j].turns), u.by # Earlier
        PROVE  At(u.by, "answered")'
    <3>1. CASE stored[j] # None /\ u \in Range(stored[j].turns)
      BY <3>1, <2>2, <1>6, SavedFrame
    <3>2. CASE u = t
      BY <3>2, <1>3, SavedFrame
    <3> QED BY <3>1, <3>2, <2>2, <1>5
  <2>3. ASSUME NEW q \in Asks, At(q, "answered")' PROVE Holds(CreatedBy(q), q)'
    <3>1. CreatedBy(q)' = CreatedBy(q) /\ (At(q, "answered") \/ q = r)
      BY <2>3, SavedFrame
    <3>2. CASE q = r
      <4>1. t \in Range(stored'[i].turns)
        BY <1>2
      <4> QED BY <3>1, <3>2, <4>1, <1>1, <1>2, <1>3 DEF Holds
    <3>3. CASE At(q, "answered")
      <4>1. PICK j : j = CreatedBy(q)
        OBVIOUS
      <4>2. Holds(j, q)
        BY <4>1, <3>3 DEF Threads
      <4>3. j \in Investigations
        <5>1. req[q] \in Request
          BY <3>3, RowsHold DEF At, Typed
        <5> QED BY <5>1, <4>1, InvestigationNames DEF CreatedBy, Request
      <4>4. stored'[j] # None /\ \E u \in Range(stored'[j].turns) : u.by = q
        BY <4>2, <4>3, <1>4 DEF Holds
      <4> QED BY <3>1, <4>1, <4>4 DEF Holds
    <3> QED BY <3>1, <3>2, <3>3
  <2>4. ASSUME NEW q \in Asks, stored'[q] # None PROVE At(q, "answered")' /\ req'[q].inv = None
    <3>1. q \in Investigations
      BY InvestigationNames
    <3>2. CASE stored[q] # None
      BY <3>2, SavedFrame DEF Threads
    <3>3. CASE stored[q] = None
      <4>1. q = i
        BY <3>1, <3>3, <2>4, <1>2
      <4> QED BY <4>1, <3>3, <1>2, SavedFrame
    <3> QED BY <3>2, <3>3
  <2>5. ASSUME NEW q \in Asks, req'[q] # None
        PROVE  /\ req'[q].inv # None => stored'[req'[q].inv] # None
               /\ req'[q].rerun => req'[q].inv # None
    <3>1. req[q] # None /\ req'[q].inv = req[q].inv /\ req'[q].rerun = req[q].rerun
      BY <2>5, SavedFrame
    <3>2. req[q] \in Request
      BY <3>1, RowsHold DEF Typed
    <3>3. req[q].inv # None => req[q].inv \in Investigations
      BY <3>2 DEF Request
    <3> QED BY <3>1, <3>3, <1>4 DEF Threads
  <2>6. screen'.inv # None => stored'[screen'.inv] # None
    <3>1. screen' = screen /\ (screen.inv # None => screen.inv \in Investigations)
      BY SavedFrame DEF Typed, TypeOK, Screen
    <3> QED BY <3>1, <1>4 DEF Threads
  <2> QED BY <2>1, <2>2, <2>3, <2>4, <2>5, <2>6 DEF Threads
<1>9. Bound'
  <2>1. SUFFICES ASSUME NEW q \in Asks, req'[q] # None, req'[q].inv # None, req'[q].at \notin {"sent", "refused"}
                 PROVE  req'[q].model = stored'[req'[q].inv].model
    BY DEF Bound
  <2>2. req[q] # None /\ req'[q].inv = req[q].inv /\ req'[q].model = req[q].model
    BY <2>1, SavedFrame
  <2>3. req[q].at \notin {"sent", "refused"}
    BY <2>1, <1>7, SavedFrame
  <2>4. req[q].model = stored[req[q].inv].model
    BY <2>1, <2>2, <2>3 DEF Bound
  <2>5. req[q].inv \in Investigations /\ stored[req[q].inv] # None
    <3>1. req[q] \in Request
      BY <2>2, RowsHold DEF Typed
    <3> QED BY <3>1, <2>1, <2>2 DEF Threads, Request
  <2> QED BY <2>2, <2>4, <2>5, <1>4
<1>10. OneModelPerThread'
  <2>1. SUFFICES ASSUME NEW j \in Investigations, stored'[j] # None, NEW u \in Range(stored'[j].turns), u.by # Earlier
                 PROVE  req'[u.by].model = stored'[j].model
    BY DEF OneModelPerThread
  <2>2. CASE stored[j] # None /\ u \in Range(stored[j].turns)
    <3>1. req[u.by].model = stored[j].model
      BY <2>1, <2>2 DEF OneModelPerThread
    <3> QED BY <3>1, <2>1, <2>2, <1>4, <1>6, SavedFrame
  <2>3. CASE j = i /\ u = t
    <3>1. req'[r].model = req[r].model
      BY SavedFrame
    <3>2. CASE stored[i] = None
      BY <3>1, <3>2, <2>3, <1>2, <1>3
    <3>3. CASE stored[i] # None
      <4>1. req[r].inv = i /\ i # None
        BY <3>3, <1>2, InvestigationNames
      <4>2. req[r].model = stored[i].model
        BY <4>1, <1>7 DEF Bound
      <4> QED BY <3>1, <3>3, <4>2, <2>3, <1>2, <1>3
    <3> QED BY <3>2, <3>3
  <2> QED BY <2>1, <2>2, <2>3, <1>5
<1> QED BY <1>8, <1>9, <1>10

-----------------------------------------------------------------------------
(* What the browser's steps keep: types.                                   *)

HistoryFits(history) ==
    /\ history \in Seq(Exchange)
    /\ \A e \in Range(history) : e.show \in {"message", "stopped"} => e.of = None

LEMMA AppendFits ==
  ASSUME NEW history, HistoryFits(history), NEW e \in Exchange,
         e.show \in {"message", "stopped"} => e.of = None
  PROVE  HistoryFits(Append(history, e))
<1>1. PICK more \in Seq(Exchange) : more = Append(history, e)
  <2>1. Append(history, e) \in Seq(Exchange)
    BY DEF HistoryFits
  <2> QED BY <2>1
<1>2. PICK m \in Nat : m = Len(history)
  BY DEF HistoryFits
<1>3. /\ DOMAIN more = 1..(m + 1) /\ more[m + 1] = e /\ DOMAIN history = 1..m
      /\ \A n \in 1..m : more[n] = history[n]
  BY <1>1, <1>2 DEF HistoryFits
<1>4. 1..(m + 1) = (1..m) \cup {m + 1}
  OBVIOUS
<1>5. \A x \in Range(more) : x = e \/ x \in Range(history)
  BY <1>3, <1>4 DEF Range
<1> QED BY <1>1, <1>5 DEF HistoryFits

\* What a turn leaves in the history.
LEMMA SettledFits ==
  ASSUME Typed, Streams, ToSettle
  PROVE  /\ Settled \in Exchange
         /\ Settled.show \in {"message", "stopped"} => Settled.of = None
         /\ Settled.question = stream.question /\ Settled.of = stream.answer
         /\ Answered(Settled) <=> stream.answer # None
<1>1. stream.question \in Questions /\ stream.answer \in Asks \cup {None}
  BY DEF ToSettle, Typed, TypeOK, Stream
<1> QED BY <1>1 DEF Settled, Exchange, Answered

LEMMA PlaceFits ==
  ASSUME Typed, Streams, ToSettle
  PROVE  HistoryFits(Place(screen.history))
<1>1. PICK h : h = screen.history
  OBVIOUS
<1>2. HistoryFits(h)
  BY <1>1 DEF HistoryFits, Typed, TypeOK, Screen
<1>3. CASE ~screen.rerun
  <2>1. PICK e \in Exchange : e = Settled /\ (e.show \in {"message", "stopped"} => e.of = None)
    BY SettledFits
  <2>2. Place(h) = Append(h, e)
    BY <2>1, <1>3 DEF Place
  <2>3. HistoryFits(Append(h, e))
    BY <2>1, <1>2, AppendFits
  <2> QED BY <1>1, <2>2, <2>3
<1>4. CASE screen.rerun /\ Settled.show # "answer"
  BY <1>1, <1>2, <1>4 DEF Place
<1>5. CASE screen.rerun /\ Settled.show = "answer"
  <2>1. h # <<>>
    BY <1>1, <1>5 DEF Streams
  <2>2. PICK front \in Seq(Exchange), e \in Exchange :
           /\ h = Append(front, e) /\ e = h[Len(h)]
           /\ \A x : [h EXCEPT ![Len(h)] = x] = Append(front, x)
    BY <1>2, <2>1, LastExchange DEF HistoryFits
  <2>3. PICK x : x = [[e EXCEPT !.show = "answer"] EXCEPT !.of = Settled.of]
    OBVIOUS
  <2>4. Settled.of \in Asks \cup {None}
    BY SettledFits DEF Typed, TypeOK, Stream
  <2>5. x \in Exchange /\ x.show = "answer"
    BY <2>3, <2>4 DEF Exchange
  <2>6. Place(h) = [h EXCEPT ![Len(h)] = x]
    <3>1. PICK m \in Nat : m = Len(h) /\ m \in DOMAIN h
      BY <1>2, <2>1 DEF HistoryFits
    <3> QED BY <3>1, <2>1, <2>2, <2>3, <1>5 DEF Place
  <2>7. HistoryFits(front)
    <3>1. \A y \in Range(front) : y \in Range(h)
      <4>1. PICK m \in Nat : m = Len(front)
        OBVIOUS
      <4>2. DOMAIN front = 1..m /\ DOMAIN h = 1..(m + 1) /\ \A n \in 1..m : h[n] = front[n]
        BY <4>1, <2>2
      <4> QED BY <4>2 DEF Range
    <3> QED BY <3>1, <1>2 DEF HistoryFits
  <2>8. HistoryFits(Append(front, x))
    BY <2>5, <2>7, AppendFits
  <2> QED BY <1>1, <2>2, <2>6, <2>8
<1> QED BY <1>3, <1>4, <1>5

LEMMA RequestsNameThreads ==
  ASSUME Rows, NEW r \in Asks, req[r] # None
  PROVE  CreatedBy(r) \in Investigations /\ req[r].inv \in Investigations \cup {None}
<1>1. req[r] \in Request
  BY RowsHold
<1> QED BY <1>1, InvestigationNames DEF CreatedBy, Request

LEMMA SubmitKeepsTypes ==
  ASSUME Typed, Streams, Submit \/ Rerun
  PROVE  Typed'
<1>1. CASE Submit
  <2>1. PICK q \in Questions : Ask(q, FALSE) /\ UNCHANGED <<visit, stored, screen>>
    BY <1>1 DEF Submit
  <2>2. /\ req' \in [Asks -> Request \cup {None}] /\ wire' \in [Asks -> WireStates]
        /\ aborted' \subseteq Asks /\ disturbed' \in BOOLEAN /\ stream' \in Stream
    BY <2>1, AskFits
  <2> QED BY <2>1, <2>2 DEF Typed, Rows, TypeOK, WireStates
<1>2. CASE Rerun
  <2>1. Ask(Latest.question, TRUE) /\ UNCHANGED <<visit, stored>>
        /\ screen' = [screen EXCEPT !.rerun = TRUE] /\ screen.history # <<>>
    BY <1>2 DEF Rerun
  <2>2. Latest.question \in Questions
    <3>1. PICK h \in Seq(Exchange) : h = screen.history
      BY DEF Typed, TypeOK, Screen
    <3>2. h[Len(h)] \in Exchange
      BY <3>1, <2>1
    <3> QED BY <3>1, <3>2 DEF Latest, Exchange
  <2>3. /\ req' \in [Asks -> Request \cup {None}] /\ wire' \in [Asks -> WireStates]
        /\ aborted' \subseteq Asks /\ disturbed' \in BOOLEAN /\ stream' \in Stream
    BY <2>1, <2>2, AskFits
  <2>4. screen' \in Screen /\ screen'.history = screen.history
    BY <2>1 DEF Typed, TypeOK, Screen
  <2> QED BY <2>1, <2>3, <2>4 DEF Typed, Rows, TypeOK, WireStates
<1> QED BY <1>1, <1>2

LEMMA SettleKeepsTypes ==
  ASSUME Typed, Streams, Settle
  PROVE  Typed'
<1>1. /\ ToSettle /\ Abort /\ wire' = Hushed /\ stream' = INITIAL /\ UNCHANGED <<visit, server>>
      /\ screen' = [screen EXCEPT !.history = Place(screen.history), !.inv = Continues, !.rerun = FALSE]
  BY DEF Settle
<1>2. HistoryFits(Place(screen.history))
  BY <1>1, PlaceFits
<1>3. Continues \in Investigations \cup {None}
  <2>1. CASE stream.answer = None
    BY <2>1 DEF Continues, Typed, TypeOK, Screen
  <2>2. CASE stream.answer # None
    <3>1. stream.answer \in Asks /\ req[stream.answer] # None
      BY <2>2 DEF Streams, At, Typed, TypeOK, Stream
    <3> QED BY <2>2, <3>1, RequestsNameThreads DEF Continues, Typed
  <2> QED BY <2>1, <2>2
<1>4. screen' \in Screen /\ screen'.history = Place(screen.history)
  BY <1>1, <1>2, <1>3 DEF Typed, TypeOK, Screen, HistoryFits
<1>5. wire' \in [Asks -> WireStates] /\ aborted' \subseteq Asks /\ disturbed' \in BOOLEAN
  BY <1>1, AbortFits
<1>6. stream' \in Stream
  BY <1>1, NothingShown
<1> QED BY <1>1, <1>2, <1>4, <1>5, <1>6 DEF Typed, Rows, TypeOK, WireStates, HistoryFits, server

LEMMA StopKeepsTypes ==
  ASSUME Typed, Stop
  PROVE  Typed'
<1>1. wire' \in [Asks -> WireStates] /\ aborted' \subseteq Asks /\ disturbed' \in BOOLEAN
  BY AbortFits DEF Stop
<1>2. stream' \in Stream
  BY DEF Stop, Typed, TypeOK, Stream
<1> QED BY <1>1, <1>2 DEF Stop, Typed, Rows, TypeOK, WireStates, server

LEMMA MountKeepsTypes ==
  ASSUME Typed, NEW i \in Investigations \cup {None}, Mount(i)
  PROVE  Typed'
<1>1. aborted' \subseteq Asks /\ disturbed' \in BOOLEAN
  BY AbortFits DEF Mount
<1>2. wire' \in [Asks -> WireStates]
  BY DEF Mount, WireStates
<1>3. stream' \in Stream
  BY NothingShown DEF Mount
<1>4. screen' \in Screen /\ screen'.history = <<>>
  BY NothingShown DEF Mount, Screen
<1> QED BY <1>1, <1>2, <1>3, <1>4, NothingShown DEF Mount, Typed, Rows, TypeOK, WireStates, server

LEMMA LoadKeepsTypes ==
  ASSUME Typed, Threads, Streams, Loaded \/ LoadFailed
  PROVE  Typed'
<1>1. CASE Loaded
  <2>1. PICK turns : turns = stored[screen.inv].turns
    OBVIOUS
  <2>2. turns \in Seq(Turn)
    <3>1. screen.inv \in Investigations /\ stored[screen.inv] # None
      BY <1>1 DEF Loaded, Streams, Threads, Typed, TypeOK, Screen
    <3> QED BY <2>1, <3>1, TurnsFit DEF Typed
  <2>3. PICK out \in Seq(Exchange) : out = ExchangesFrom(turns) /\ \A e \in Range(out) : Answered(e)
    BY <2>2, ExchangesFit
  <2>4. HistoryFits(out)
    BY <2>3 DEF HistoryFits, Answered
  <2>5. HistoryFits(screen.history)
    BY DEF HistoryFits, Typed, TypeOK, Screen
  <2>6. screen' = [screen EXCEPT !.loading = FALSE,
                    !.history = IF screen.history = <<>> THEN out ELSE screen.history]
    BY <1>1, <2>1, <2>3 DEF Loaded
  <2>7. screen' \in Screen /\ HistoryFits(screen'.history)
    BY <2>4, <2>5, <2>6 DEF HistoryFits, Typed, TypeOK, Screen
  <2> QED BY <1>1, <2>7 DEF Loaded, Typed, Rows, TypeOK, HistoryFits, server
<1>2. CASE LoadFailed
  <2>1. screen' \in Screen /\ screen'.history = screen.history
    BY <1>2 DEF LoadFailed, Typed, TypeOK, Screen
  <2> QED BY <1>2, <2>1 DEF LoadFailed, Typed, Rows, TypeOK, server
<1> QED BY <1>1, <1>2

LEMMA ArrivalKeepsTypes ==
  ASSUME Typed, NEW r \in Asks, Arrival(r) \/ Lost(r)
  PROVE  Typed'
<1>1. /\ UNCHANGED <<visit, server, screen>>
      /\ wire' \in [Asks -> WireStates]
      /\ aborted' \subseteq Asks /\ disturbed' \in BOOLEAN
  BY DEF Arrival, Payload, Done, ErrorFrame, Refusal, RefusalBody, Lost, Typed, TypeOK, WireStates
<1>2. stream' \in Stream
  BY DEF Arrival, Payload, Done, ErrorFrame, Refusal, RefusalBody, Lost, Typed, TypeOK, Stream
<1> QED BY <1>1, <1>2 DEF Typed, Rows, TypeOK, WireStates, server

-----------------------------------------------------------------------------
(* What the browser's steps keep: the threads.                             *)

\* A turn asked changes nothing but itself.
LEMMA OpenedFrame ==
  ASSUME Typed, Streams, NEW r \in Asks, NEW new \in Request, NEW q, NEW again, Opened(r, new, q, again)
  PROVE  /\ req[r] = None /\ req'[r] = new /\ new # None /\ ~At(r, "answered") /\ ~At(r, "answered")'
         /\ \A s \in Asks \ {r} : /\ req'[s] = req[s] /\ CreatedBy(s)' = CreatedBy(s)
                                  /\ At(s, "answered")' <=> At(s, "answered")
         /\ \A s \in Asks : s < r => wire[s] # "none"
<1>1. req \in [Asks -> Request \cup {None}] /\ wire[r] = "none"
  BY DEF Typed, Rows, Opened
<1>2. /\ req[r] = None /\ req'[r] = new /\ new # None /\ new.at = "sent"
      /\ \A s \in Asks \ {r} : req'[s] = req[s]
  BY <1>1, NoneIsNoRecord DEF Opened, Streams
<1>3. \A s \in Asks : s < r => s \in 1..(r - 1)
  BY DEF Asks
<1> QED BY <1>2, <1>3 DEF At, CreatedBy, Opened

LEMMA AskKeepsThreads ==
  ASSUME Typed, Threads, Bound, OneModelPerThread, Streams,
         NEW q \in Questions, NEW again \in BOOLEAN, Ask(q, again), stored' = stored,
         screen'.inv = screen.inv
  PROVE  Threads' /\ Bound' /\ OneModelPerThread'
<1>1. PICK r \in Asks, new \in Request : Opened(r, new, q, again)
  BY Asked
<1>2. /\ req[r] = None /\ req'[r] = new /\ new # None /\ ~At(r, "answered") /\ ~At(r, "answered")'
      /\ \A s \in Asks \ {r} : /\ req'[s] = req[s] /\ CreatedBy(s)' = CreatedBy(s)
                               /\ At(s, "answered")' <=> At(s, "answered")
  BY <1>1, OpenedFrame
<1>3. new.at = "sent" /\ new.inv = screen.inv /\ (new.rerun => screen.inv # None)
  BY <1>1 DEF Opened
<1>4. ASSUME NEW i \in Investigations, stored[i] # None, NEW t \in Range(stored[i].turns), t.by # Earlier
      PROVE  t.by \in Asks \ {r} /\ At(t.by, "answered")
  <2>1. At(t.by, "answered")
    BY <1>4 DEF Threads
  <2>2. t.by \in Asks
    BY <1>4, TurnsFit DEF Typed
  <2> QED BY <2>1, <2>2, <1>2
<1>5. Threads'
  <2>1. ASSUME NEW i \in Investigations, stored'[i] # None
        PROVE  \E n \in DOMAIN stored'[i].turns : stored'[i].turns[n].asked # None
    BY <2>1 DEF Threads
  <2>2. ASSUME NEW i \in Investigations, stored'[i] # None, NEW t \in Range(stored'[i].turns), t.by # Earlier
        PROVE  At(t.by, "answered")'
    BY <2>2, <1>4, <1>2
  <2>3. ASSUME NEW s \in Asks, At(s, "answered")' PROVE Holds(CreatedBy(s), s)'
    <3>1. s # r /\ CreatedBy(s)' = CreatedBy(s) /\ At(s, "answered")
      BY <2>3, <1>2
    <3>2. Holds(CreatedBy(s), s)
      BY <3>1 DEF Threads
    <3> QED BY <3>1, <3>2 DEF Holds
  <2>4. ASSUME NEW s \in Asks, stored'[s] # None PROVE At(s, "answered")' /\ req'[s].inv = None
    BY <2>4, <1>2 DEF Threads
  <2>5. ASSUME NEW s \in Asks, req'[s] # None
        PROVE  /\ req'[s].inv # None => stored'[req'[s].inv] # None
               /\ req'[s].rerun => req'[s].inv # None
    BY <2>5, <1>2, <1>3 DEF Threads
  <2>6. screen'.inv # None => stored'[screen'.inv] # None
    BY DEF Threads
  <2> QED BY <2>1, <2>2, <2>3, <2>4, <2>5, <2>6 DEF Threads
<1>6. Bound'
  BY <1>2, <1>3 DEF Bound
<1>7. OneModelPerThread'
  BY <1>2, <1>4 DEF OneModelPerThread
<1> QED BY <1>5, <1>6, <1>7

LEMMA SameServer ==
  ASSUME Typed, Threads, Bound, OneModelPerThread, UNCHANGED server,
         screen'.inv # None => stored[screen'.inv] # None
  PROVE  Threads' /\ Bound' /\ OneModelPerThread'
<1>1. stored' = stored /\ req' = req
  BY DEF server
<1>2. Bound' /\ OneModelPerThread'
  BY <1>1 DEF Bound, OneModelPerThread
<1>3. \A r : At(r, "answered")' <=> At(r, "answered")
  BY <1>1 DEF At
<1>4. \A r : CreatedBy(r)' = CreatedBy(r)
  BY <1>1 DEF CreatedBy
<1>5. \A r \in Asks : At(r, "answered") => stored[CreatedBy(r)] # None /\ \E t \in Range(stored[CreatedBy(r)].turns) : t.by = r
  BY DEF Threads, Holds
<1>6. \A r \in Asks : At(r, "answered")' => Holds(CreatedBy(r), r)'
  BY <1>1, <1>3, <1>4, <1>5 DEF Holds
<1> QED BY <1>1, <1>2, <1>3, <1>6 DEF Threads

LEMMA BrowserKeepsThreads ==
  ASSUME Typed, Threads, Bound, OneModelPerThread, Streams,
         User \/ Settle \/ Loaded \/ LoadFailed \/ \E r \in Asks : Arrival(r) \/ Lost(r)
  PROVE  Threads' /\ Bound' /\ OneModelPerThread'
<1>1. CASE Submit
  <2>1. PICK q \in Questions : Ask(q, FALSE) /\ UNCHANGED <<visit, stored, screen>>
    BY <1>1 DEF Submit
  <2> QED BY <2>1, AskKeepsThreads
<1>2. CASE Rerun
  <2>1. Ask(Latest.question, TRUE) /\ stored' = stored /\ screen'.inv = screen.inv /\ screen.history # <<>>
    BY <1>2 DEF Rerun, Typed, TypeOK, Screen
  <2>2. Latest.question \in Questions
    <3>1. PICK h \in Seq(Exchange) : h = screen.history
      BY DEF Typed, TypeOK, Screen
    <3>2. h[Len(h)] \in Exchange
      BY <3>1, <2>1
    <3> QED BY <3>1, <3>2 DEF Latest, Exchange
  <2> QED BY <2>1, <2>2, AskKeepsThreads
<1>3. CASE NewChat \/ SelectThread
  <2>1. PICK i \in Investigations \cup {None} : Mount(i) /\ (i # None => stored[i] # None)
    BY <1>3 DEF NewChat, SelectThread
  <2>2. screen'.inv = i /\ UNCHANGED server
    BY <2>1 DEF Mount
  <2> QED BY <2>1, <2>2, SameServer
<1>4. CASE Settle
  <2>1. UNCHANGED server /\ screen'.inv = Continues
    BY <1>4 DEF Settle, Typed, TypeOK, Screen
  <2>2. Continues # None => stored[Continues] # None
    BY DEF Continues, Streams, Threads, Holds, Typed, TypeOK, Stream
  <2> QED BY <2>1, <2>2, SameServer
<1>5. CASE Stop \/ Loaded \/ LoadFailed \/ \E r \in Asks : Arrival(r) \/ Lost(r)
  <2>1. UNCHANGED server /\ screen'.inv = screen.inv
    BY <1>5 DEF Stop, Loaded, LoadFailed, Arrival, Payload, Done, ErrorFrame, Refusal, RefusalBody,
                Lost, server, Typed, TypeOK, Screen
  <2>2. screen.inv # None => stored[screen.inv] # None
    BY DEF Threads
  <2> QED BY <2>1, <2>2, SameServer
<1> QED BY <1>1, <1>2, <1>3, <1>4, <1>5 DEF User

-----------------------------------------------------------------------------
(* What every step keeps: the stream and the answers on screen.            *)

\* No turn opens or reopens its connection.
NothingOpens ==
    \A s \in Asks : /\ wire'[s] = "none" <=> wire[s] = "none"
                    /\ wire'[s] \in {"open", "payload"} => wire[s] \in {"open", "payload"}

LEMMA SameCurrent ==
  ASSUME NothingOpens PROVE Current' = Current /\ Reading' \subseteq Reading
BY DEF NothingOpens, Current, Reading

LEMMA HushedOpensNothing ==
  ASSUME Typed, Streams, wire' = Hushed
  PROVE  NothingOpens /\ \A s \in Asks : wire'[s] \notin {"open", "payload"}
<1>1. \A s \in Asks : wire[s] \in {"open", "payload"} => s \in Reading
  BY DEF Streams, Reading
<1>2. \A s \in Asks : wire'[s] = IF s \in Reading THEN "closed" ELSE wire[s]
  BY DEF Hushed
<1> QED BY <1>1, <1>2 DEF NothingOpens, Reading

\* The stream goes on with its turn, whatever arrives.
LEMMA StreamGoesOn ==
  ASSUME Typed, Streams, UNCHANGED <<server, screen>>, NothingOpens,
         stream'.turn = stream.turn, stream'.question = stream.question,
         stream'.status # "idle" \/ stream'.status = stream.status,
         stream.turn = None =>
           /\ stream'.answer = None /\ ~stream'.message /\ stream'.status \in {"idle", "error"},
         stream'.answer # None =>
           stream'.answer = stream.answer \/ (stream'.answer = stream.turn /\ At(stream.turn, "answered"))
  PROVE  Streams'
<1>1. req' = req /\ screen' = screen
  BY DEF server
<1>2. Current' = Current /\ Reading' \subseteq Reading
  BY SameCurrent
<1>3. \A r : At(r, "answered")' <=> At(r, "answered")
  BY <1>1 DEF At
<1>4. Latest' = Latest
  BY <1>1 DEF Latest
<1>5. \A r \in Asks : req'[r] = None <=> wire'[r] = "none"
  BY <1>1 DEF Streams, NothingOpens
<1>6. \A r, s \in Asks : wire'[r] # "none" /\ s < r => wire'[s] # "none"
  BY DEF Streams, NothingOpens
<1>7. (\A r \in Reading : r = stream.turn)' /\ \A r \in Asks : wire'[r] \in {"open", "payload"} => r \in Current'
  BY <1>2 DEF Streams, NothingOpens
<1>8. stream'.turn = None =>
         /\ stream'.question = None /\ stream'.answer = None /\ ~stream'.message
         /\ stream'.status \in {"idle", "error"} /\ ~screen'.rerun
  BY <1>1 DEF Streams
<1>9. stream'.turn # None =>
         /\ stream'.turn \in Current' /\ stream'.status # "idle" /\ ~screen'.loading
         /\ stream'.question = req'[stream'.turn].question /\ req'[stream'.turn].inv = screen'.inv
  BY <1>1, <1>2 DEF Streams
<1>10. stream'.answer # None => stream'.answer = stream'.turn /\ At(stream.answer, "answered")'
  <2>1. stream'.answer # None => stream'.answer = stream.turn /\ At(stream.turn, "answered")
    BY DEF Streams
  <2>2. \A r : At(r, "answered") <=> req[r] # None /\ req[r].at = "answered"
    BY DEF At
  <2>3. At(stream.answer, "answered")' <=> req'[stream'.answer] # None /\ req'[stream'.answer].at = "answered"
    BY DEF At
  <2> QED BY <1>1, <2>1, <2>2, <2>3
<1>11. (screen.loading => screen.inv # None /\ screen.history = <<>>)'
  BY <1>1 DEF Streams
<1>12. (screen.rerun => screen.history # <<>> /\ Answered(Latest))'
  BY <1>1, <1>4 DEF Streams, Answered
<1> QED BY <1>5, <1>6, <1>7, <1>8, <1>9, <1>10, <1>11, <1>12 DEF Streams

\* The stream starts afresh.
LEMMA StreamResets ==
  ASSUME Typed, Streams, UNCHANGED server, NothingOpens, stream' = INITIAL,
         \A s \in Asks : wire'[s] \notin {"open", "payload"},
         ~screen'.rerun, screen'.loading => screen'.inv # None /\ screen'.history = <<>>
  PROVE  Streams'
<1>1. req' = req
  BY DEF server
<1>2. \A r \in Asks : req'[r] = None <=> wire'[r] = "none"
  BY <1>1 DEF Streams, NothingOpens
<1>3. \A r, s \in Asks : wire'[r] # "none" /\ s < r => wire'[s] # "none"
  BY DEF Streams, NothingOpens
<1>4. Reading' = {}
  BY DEF Reading, Current
<1>5. /\ stream'.turn = None /\ stream'.question = None /\ stream'.answer = None /\ ~stream'.message
      /\ stream'.status = "idle"
  BY NothingShown
<1> QED BY <1>2, <1>3, <1>4, <1>5 DEF Streams

\* A turn is asked.
LEMMA AskKeepsStreams ==
  ASSUME Typed, Streams, NEW q \in Questions, NEW again \in BOOLEAN, Ask(q, again),
         screen'.inv = screen.inv, screen'.history = screen.history, screen'.loading = screen.loading,
         ~screen.loading, screen'.rerun => screen.history # <<>> /\ Answered(Latest)
  PROVE  Streams'
<1>1. PICK r \in Asks, new \in Request : Opened(r, new, q, again)
  BY Asked
<1>2. /\ req[r] = None /\ req'[r] = new /\ new # None
      /\ \A s \in Asks \ {r} : req'[s] = req[s]
      /\ \A s \in Asks : s < r => wire[s] # "none"
  BY <1>1, OpenedFrame
<1>3. /\ wire[r] = "none" /\ wire' = [Hushed EXCEPT ![r] = "open"]
      /\ new.question = q /\ new.inv = screen.inv
      /\ stream'.status = "streaming" /\ stream'.question = q
      /\ stream'.turn = r /\ stream'.answer = None /\ stream'.message = FALSE
  BY <1>1 DEF Opened
<1>4. \A s \in Asks : wire[s] # "none" => s < r
  BY <1>3 DEF Streams, Asks
<1>5. \A s \in Asks : wire'[s] = IF s = r THEN "open" ELSE IF s \in Reading THEN "closed" ELSE wire[s]
  BY <1>3 DEF Hushed
<1>6. \A s \in Asks : wire[s] \in {"open", "payload"} => s \in Reading
  BY DEF Streams, Reading
<1>7. \A s \in Asks : /\ s # r => (wire'[s] = "none" <=> wire[s] = "none")
                      /\ wire'[s] \in {"open", "payload"} => s = r
  BY <1>5, <1>6 DEF Reading
<1>8. wire'[r] = "open"
  BY <1>5
<1>9. r \in Current'
  <2>1. \A s \in Asks : wire'[s] # "none" => s <= r
    BY <1>4, <1>7 DEF Asks
  <2> QED BY <2>1, <1>8 DEF Current
<1>10. Reading' \subseteq {r}
  BY <1>7 DEF Reading, Current
<1>11. r # None
  BY InvestigationNames
<1>12. \A s \in Asks : req'[s] = None <=> wire'[s] = "none"
  BY <1>2, <1>7, <1>8 DEF Streams
<1>13. \A s, t \in Asks : wire'[s] # "none" /\ t < s => wire'[t] # "none"
  BY <1>2, <1>4, <1>7, <1>8 DEF Streams
<1>14. screen'.rerun => screen'.history # <<>> /\ Answered(Latest)'
  <2>1. Latest' = Latest
    BY DEF Latest
  <2> QED BY <2>1 DEF Answered
<1> QED BY <1>2, <1>3, <1>7, <1>9, <1>10, <1>11, <1>12, <1>13, <1>14 DEF Streams

\* What a rerun asks is on screen.
LEMMA LatestIsAnExchange ==
  ASSUME Typed, screen.history # <<>>
  PROVE  Latest \in Exchange /\ Latest.question \in Questions
<1>1. PICK h \in Seq(Exchange) : h = screen.history
  BY DEF Typed, TypeOK, Screen
<1>2. h[Len(h)] \in Exchange
  BY <1>1
<1> QED BY <1>1, <1>2 DEF Latest, Exchange

LEMMA UserKeepsStreams ==
  ASSUME Typed, Streams, User
  PROVE  Streams'
<1>1. CASE Submit
  <2>1. PICK q \in Questions : Ask(q, FALSE) /\ screen' = screen
    BY <1>1 DEF Submit
  <2>2. ~screen.loading
    BY <1>1 DEF Submit, Quiet, Streams
  <2>3. screen.rerun => screen.history # <<>> /\ Answered(Latest)
    BY DEF Streams
  <2> QED BY <2>1, <2>2, <2>3, AskKeepsStreams
<1>2. CASE Rerun
  <2>1. /\ Ask(Latest.question, TRUE) /\ screen.history # <<>> /\ Answered(Latest)
        /\ screen' = [screen EXCEPT !.rerun = TRUE]
    BY <1>2 DEF Rerun
  <2>2. Latest.question \in Questions /\ ~screen.loading
    BY <2>1, LatestIsAnExchange DEF Streams
  <2>3. screen'.inv = screen.inv /\ screen'.history = screen.history /\ screen'.loading = screen.loading
    BY <2>1 DEF Typed, TypeOK, Screen
  <2> QED BY <2>1, <2>2, <2>3, AskKeepsStreams
<1>3. CASE Stop
  <2>1. UNCHANGED <<server, screen>> /\ wire' = Hushed /\ stream' = [stream EXCEPT !.status = "aborted"]
        /\ stream.status = "streaming"
    BY <1>3 DEF Stop
  <2>2. NothingOpens
    BY <2>1, HushedOpensNothing
  <2>3. /\ stream'.turn = stream.turn /\ stream'.question = stream.question /\ stream'.status = "aborted"
        /\ stream'.answer = stream.answer /\ stream'.message = stream.message
    BY <2>1 DEF Typed, TypeOK, Stream
  <2>4. stream.turn # None
    BY <2>1 DEF Streams
  <2> QED BY <2>1, <2>2, <2>3, <2>4, StreamGoesOn
<1>4. CASE NewChat \/ SelectThread
  <2>1. PICK i \in Investigations \cup {None} : Mount(i)
    BY <1>4 DEF NewChat, SelectThread
  <2>2. /\ screen' = [key |-> i, history |-> <<>>, inv |-> i, loading |-> i # None, rerun |-> FALSE]
        /\ stream' = INITIAL /\ wire' = [r \in Asks |-> IF wire[r] = "none" THEN "none" ELSE "closed"]
        /\ UNCHANGED server
    BY <2>1 DEF Mount
  <2>3. NothingOpens /\ \A s \in Asks : wire'[s] \notin {"open", "payload"}
    BY <2>2 DEF NothingOpens
  <2>4. ~screen'.rerun /\ (screen'.loading => screen'.inv # None /\ screen'.history = <<>>)
    BY <2>2
  <2> QED BY <2>2, <2>3, <2>4, StreamResets
<1> QED BY <1>1, <1>2, <1>3, <1>4 DEF User

LEMMA EffectsKeepStreams ==
  ASSUME Typed, Streams, Settle \/ Loaded \/ LoadFailed
  PROVE  Streams'
<1>1. CASE Settle
  <2>1. /\ screen' = [screen EXCEPT !.history = Place(screen.history), !.inv = Continues, !.rerun = FALSE]
        /\ stream' = INITIAL /\ wire' = Hushed /\ UNCHANGED server /\ ToSettle
    BY <1>1 DEF Settle
  <2>2. ~screen'.rerun /\ screen'.loading = screen.loading
    BY <2>1 DEF Typed, TypeOK, Screen
  <2>3. ~screen.loading
    BY <2>1 DEF ToSettle, Streams
  <2> QED BY <2>1, <2>2, <2>3, HushedOpensNothing, StreamResets
<1>2. CASE Loaded \/ LoadFailed
  <2>1. UNCHANGED <<server, wire, stream>> /\ screen.loading
    BY <1>2 DEF Loaded, LoadFailed
  <2>2. screen'.loading = FALSE /\ screen'.inv = screen.inv /\ screen'.rerun = screen.rerun
    BY <1>2 DEF Loaded, LoadFailed, Typed, TypeOK, Screen
  <2>3. stream.turn = None /\ ~screen.rerun
    BY <2>1 DEF Streams
  <2>4. req' = req /\ wire' = wire /\ stream' = stream
    BY <2>1 DEF server
  <2>5. Current' = Current /\ Reading' = Reading
    BY <2>4 DEF Current, Reading
  <2>6. stream.answer = None
    BY <2>3 DEF Streams
  <2> QED BY <2>2, <2>3, <2>4, <2>5, <2>6 DEF Streams
<1> QED BY <1>1, <1>2

LEMMA ArrivalKeepsStreams ==
  ASSUME Typed, Streams, NEW r \in Asks, Arrival(r) \/ Lost(r)
  PROVE  Streams'
<1>1. UNCHANGED <<server, screen>> /\ NothingOpens
  BY DEF Arrival, Payload, Done, ErrorFrame, Refusal, RefusalBody, Lost, NothingOpens, Heard, Reading,
         Typed, TypeOK
<1>2. stream'.turn = stream.turn /\ stream'.question = stream.question
  BY DEF Arrival, Payload, Done, ErrorFrame, Refusal, RefusalBody, Lost, Typed, TypeOK, Stream
<1>3. wire[r] \in {"open", "payload"} => r = stream.turn
  BY DEF Streams, Reading
<1>4. r # None
  BY InvestigationNames
<1>5. CASE Payload(r)
  <2>1. r = stream.turn /\ req[r].at \in {"answered", "replied"} /\ req[r] # None
    BY <1>3, <1>5 DEF Payload, Heard, Streams
  <2>2. /\ stream'.status = stream.status
        /\ stream'.answer = IF req[r].at = "answered" THEN r ELSE stream.answer
    BY <1>5 DEF Payload, Typed, TypeOK, Stream
  <2>3. At(stream.turn, "answered") <=> req[r].at = "answered"
    BY <2>1 DEF At
  <2> QED BY <1>1, <1>2, <1>4, <2>1, <2>2, <2>3, StreamGoesOn
<1>6. CASE Done(r) \/ ErrorFrame(r) \/ Lost(r)
  <2>1. r = stream.turn
    BY <1>3, <1>6 DEF Done, ErrorFrame, Heard, Lost, Reading
  <2>2. /\ stream'.status # "idle" /\ stream'.answer = stream.answer
    BY <1>6 DEF Done, ErrorFrame, Lost, Typed, TypeOK, Stream
  <2> QED BY <1>1, <1>2, <1>4, <2>1, <2>2, StreamGoesOn
<1>7. CASE Refusal(r) \/ RefusalBody(r)
  <2>1. /\ stream'.status \in {stream.status, "error"} /\ stream'.answer = stream.answer
        /\ stream'.message = stream.message
    BY <1>7 DEF Refusal, RefusalBody, Typed, TypeOK, Stream
  <2>2. stream.turn = None => stream.answer = None /\ ~stream.message /\ stream.status \in {"idle", "error"}
    BY DEF Streams
  <2> QED BY <1>1, <1>2, <2>1, <2>2, StreamGoesOn
<1> QED BY <1>5, <1>6, <1>7 DEF Arrival

LEMMA ServerKeepsStreams ==
  ASSUME Typed, Threads, Streams, NEW r \in Asks, Serve(r)
  PROVE  Streams'
<1>1. PICK new : Advances(r, new) \/ Saves(r, new)
  BY ServerSteps
<1>2. /\ \A q \in Asks : /\ At(q, "answered") => At(q, "answered")'
                         /\ req'[q] = None <=> req[q] = None
                         /\ req'[q].inv = req[q].inv /\ req'[q].question = req[q].question
      /\ wire' = wire /\ screen' = screen /\ stream' = stream
  BY <1>1, AdvancedFrame, SavedFrame
<1>3. Current' = Current /\ Reading' = Reading /\ Latest' = Latest
  BY <1>2 DEF Current, Reading, Latest
<1>4. stream.answer # None => stream.answer \in Asks
  BY DEF Typed, TypeOK, Stream
<1>5. stream.turn # None => stream.turn \in Asks
  BY DEF Typed, TypeOK, Stream
<1>6. (stream.answer # None => stream.answer = stream.turn /\ At(stream.answer, "answered"))'
  <2>1. stream.answer # None => stream.answer = stream.turn /\ At(stream.answer, "answered")
    BY DEF Streams
  <2>2. stream.answer # None => At(stream.answer, "answered")'
    <3>1. PICK a : a = stream.answer
      OBVIOUS
    <3>2. a # None => At(a, "answered")'
      BY <1>2, <1>4, <2>1, <3>1
    <3> QED BY <1>2, <3>1, <3>2 DEF At
  <2> QED BY <1>2, <2>1, <2>2
<1>7. \A q \in Asks : req'[q] = None <=> wire'[q] = "none"
  BY <1>2 DEF Streams
<1>8. stream'.turn # None =>
         /\ stream'.turn \in Current' /\ stream'.status # "idle" /\ ~screen'.loading
         /\ stream'.question = req'[stream'.turn].question /\ req'[stream'.turn].inv = screen'.inv
  BY <1>2, <1>3, <1>5 DEF Streams
<1> QED BY <1>2, <1>3, <1>6, <1>7, <1>8 DEF Streams, Answered

LEMMA SameAnswers ==
  ASSUME AnswersAreStored, stored' = stored, screen'.history = screen.history, screen'.inv = screen.inv
  PROVE  AnswersAreStored'
BY DEF AnswersAreStored, Holds, Answered

\* An answer on screen was there before, or is the one that arrived.
LEMMA PlaceShows ==
  ASSUME Typed, Streams, ToSettle, NEW e \in Range(Place(screen.history)), Answered(e)
  PROVE  \/ e \in Range(screen.history)
         \/ /\ stream.answer # None /\ e.of = stream.answer
            /\ e.question = IF screen.rerun THEN Latest.question ELSE stream.question
<1>1. PICK h \in Seq(Exchange) : h = screen.history
  BY DEF Typed, TypeOK, Screen
<1>2. PICK x \in Exchange : x = Settled
  BY SettledFits
<1>3. x.of = stream.answer /\ x.question = stream.question /\ (Answered(x) <=> stream.answer # None)
  BY <1>2, SettledFits
<1>4. CASE ~screen.rerun
  <2>1. Place(h) = Append(h, x)
    BY <1>2, <1>4 DEF Place
  <2>2. PICK m \in Nat : m = Len(h)
    OBVIOUS
  <2>3. PICK n \in 1..(m + 1) : e = Append(h, x)[n]
    BY <1>1, <2>1, <2>2 DEF Range
  <2>4. CASE n \in 1..m
    BY <1>1, <2>2, <2>3, <2>4 DEF Range
  <2>5. CASE n = m + 1
    <3>1. Append(h, x)[m + 1] = x
      BY <2>2
    <3>2. e = x
      BY <2>3, <2>5, <3>1
    <3> QED BY <1>3, <1>4, <3>2
  <2> QED BY <2>2, <2>3, <2>4, <2>5
<1>5. CASE screen.rerun /\ Settled.show # "answer"
  BY <1>1, <1>5 DEF Place
<1>6. CASE screen.rerun /\ Settled.show = "answer"
  <2>1. h # <<>> /\ Latest = h[Len(h)]
    BY <1>1, <1>6 DEF Streams, Latest
  <2>2. PICK m \in Nat : m = Len(h) /\ DOMAIN h = 1..m /\ m \in 1..m
    BY <2>1
  <2>3. PICK y : y = [[h[m] EXCEPT !.show = "answer"] EXCEPT !.of = x.of]
    OBVIOUS
  <2>4. y.of = x.of /\ y.question = h[m].question
    <3>1. h[m] \in Exchange
      BY <2>2
    <3> QED BY <2>3, <3>1 DEF Exchange
  <2>5. Place(h) = [h EXCEPT ![m] = y]
    BY <1>2, <1>6, <2>1, <2>2, <2>3 DEF Place
  <2>6. PICK n \in 1..m : e = [h EXCEPT ![m] = y][n]
    BY <1>1, <2>2, <2>5 DEF Range
  <2>7. CASE n = m
    <3>1. Answered(Settled)
      BY <1>6 DEF Answered
    <3> QED BY <1>2, <1>3, <1>6, <2>1, <2>2, <2>4, <2>6, <2>7, <3>1
  <2>8. CASE n # m
    BY <1>1, <2>2, <2>6, <2>8 DEF Range
  <2> QED BY <2>7, <2>8
<1> QED BY <1>4, <1>5, <1>6

\* The thread continued is the one on screen, or the one the first answer made.
LEMMA ContinuesTheThread ==
  ASSUME Typed, Streams
  PROVE  /\ screen.inv # None => Continues = screen.inv
         /\ stream.answer # None => Continues = CreatedBy(stream.answer)
BY DEF Continues, Streams, CreatedBy

LEMMA BrowserKeepsAnswers ==
  ASSUME Typed, Threads, Streams, AnswersAreStored,
         User \/ Settle \/ Loaded \/ LoadFailed \/ \E r \in Asks : Arrival(r) \/ Lost(r)
  PROVE  AnswersAreStored'
<1>1. CASE Submit \/ Rerun \/ Stop \/ LoadFailed \/ \E r \in Asks : Arrival(r) \/ Lost(r)
  <2>1. stored' = stored /\ screen'.history = screen.history /\ screen'.inv = screen.inv
    BY <1>1 DEF Submit, Rerun, Stop, LoadFailed, Arrival, Payload, Done, ErrorFrame, Refusal, RefusalBody,
                Lost, server, Typed, TypeOK, Screen
  <2> QED BY <2>1, SameAnswers
<1>2. CASE NewChat \/ SelectThread
  <2>1. screen'.history = <<>>
    BY <1>2 DEF NewChat, SelectThread, Mount
  <2> QED BY <2>1, NothingShown DEF AnswersAreStored
<1>3. CASE Loaded
  <2>1. /\ screen' = [screen EXCEPT !.loading = FALSE,
                    !.history = IF screen.history = <<>> THEN ExchangesFrom(stored[screen.inv].turns) ELSE screen.history]
        /\ screen.loading /\ stored' = stored
    BY <1>3 DEF Loaded, server
  <2>2. screen.history = <<>> /\ screen.inv # None /\ stored[screen.inv] # None
    BY <2>1 DEF Streams, Threads
  <2>3. screen.inv \in Investigations
    BY <2>2 DEF Typed, TypeOK, Screen
  <2>4. screen'.history = ExchangesFrom(stored[screen.inv].turns) /\ screen'.inv = screen.inv
    BY <2>1, <2>2 DEF Typed, TypeOK, Screen
  <2>5. \A e \in Range(ExchangesFrom(stored[screen.inv].turns)) : \E t \in Range(stored[screen.inv].turns) : t.by = e.of
    BY <2>2, <2>3, TurnsFit, ExchangesFit DEF Typed
  <2> QED BY <2>1, <2>2, <2>4, <2>5 DEF AnswersAreStored, Holds
<1>4. CASE Settle
  <2>1. /\ screen' = [screen EXCEPT !.history = Place(screen.history), !.inv = Continues, !.rerun = FALSE]
        /\ stored' = stored /\ ToSettle
    BY <1>4 DEF Settle, server
  <2>2. screen'.history = Place(screen.history) /\ screen'.inv = Continues
    BY <2>1 DEF Typed, TypeOK, Screen
  <2>3. ASSUME NEW e \in Range(Place(screen.history)), Answered(e)
        PROVE  Continues # None /\ Holds(Continues, e.of)
    <3>1. CASE e \in Range(screen.history)
      <4>1. screen.inv # None /\ Holds(screen.inv, e.of)
        BY <2>3, <3>1 DEF AnswersAreStored
      <4> QED BY <4>1, ContinuesTheThread
    <3>2. CASE stream.answer # None /\ e.of = stream.answer
      <4>1. stream.answer \in Asks /\ At(stream.answer, "answered") /\ req[stream.answer] # None
        BY <3>2 DEF Streams, At, Typed, TypeOK, Stream
      <4>2. Holds(CreatedBy(stream.answer), stream.answer) /\ CreatedBy(stream.answer) \in Investigations
        BY <4>1, RequestsNameThreads DEF Threads, Typed
      <4> QED BY <3>2, <4>2, ContinuesTheThread, InvestigationNames
    <3> QED BY <2>1, <2>3, <3>1, <3>2, PlaceShows
  <2> QED BY <2>1, <2>2, <2>3 DEF AnswersAreStored, Holds, Answered
<1> QED BY <1>1, <1>2, <1>3, <1>4 DEF User

LEMMA ServerKeepsAnswers ==
  ASSUME Typed, Threads, AnswersAreStored, NEW r \in Asks, Serve(r)
  PROVE  AnswersAreStored'
<1>1. PICK new : Advances(r, new) \/ Saves(r, new)
  BY ServerSteps
<1>2. CASE Advances(r, new)
  <2>1. stored' = stored /\ screen' = screen
    BY <1>2, AdvancedFrame
  <2> QED BY <2>1, SameAnswers
<1>3. CASE Saves(r, new)
  <2>1. PICK i : i = CreatedBy(r)
    OBVIOUS
  <2>2. Grows(i, r)
    BY <1>3, <2>1, SavedGrows
  <2>3. \A j \in Investigations : stored[j] # None =>
           stored'[j] # None /\ Range(stored[j].turns) \subseteq Range(stored'[j].turns)
    BY <2>2 DEF Grows
  <2>4. screen' = screen /\ (screen.inv # None => screen.inv \in Investigations)
    BY <1>3, SavedFrame DEF Typed, TypeOK, Screen
  <2> QED BY <2>3, <2>4 DEF AnswersAreStored, Holds, Answered
<1> QED BY <1>1, <1>2, <1>3

-----------------------------------------------------------------------------
(* Undisturbed, the screen is the thread.                                  *)

Undisturbed == Alone /\ Mirrored /\ StoredFit /\ Told /\ AnswersFitTheirQuestions

LEMMA StartHolds == Init => IInv
<1> SUFFICES ASSUME Init PROVE IInv
  OBVIOUS
<1>1. Typed
  BY StartIsTyped
<1>2. /\ \A r \in Asks : req[r] = None /\ wire[r] = "none"
      /\ disturbed = FALSE /\ stream = INITIAL /\ screen.history = <<>> /\ screen.inv = None
      /\ ~screen.loading /\ ~screen.rerun
  BY DEF Init
<1>3. PICK p, q \in Questions, m \in Models \cup {None} :
         stored = [i \in Investigations |->
                        IF i = Old THEN [model |-> m, turns |-> <<[asked |-> p, by |-> Earlier],
                                                                 [asked |-> q, by |-> Earlier]>>]
                        ELSE None]
  BY DEF Init
<1>4. \A r \in Asks : stored[r] = None
  BY <1>3, InvestigationNames
<1>5. ASSUME NEW i \in Investigations, stored[i] # None
      PROVE  /\ \E n \in DOMAIN stored[i].turns : stored[i].turns[n].asked # None
             /\ \A t \in Range(stored[i].turns) : t.by = Earlier
  <2>1. stored[i].turns = <<[asked |-> p, by |-> Earlier], [asked |-> q, by |-> Earlier]>>
    BY <1>3, <1>5
  <2>2. PICK turns : turns = stored[i].turns
    OBVIOUS
  <2>3. DOMAIN turns = 1..2 /\ turns[1].asked = p /\ turns[1].by = Earlier /\ turns[2].by = Earlier
    BY <2>1, <2>2
  <2>4. \E n \in DOMAIN turns : turns[n].asked # None
    BY <2>3, InvestigationNames
  <2>5. \A t \in Range(turns) : t.by = Earlier
    BY <2>3 DEF Range
  <2> QED BY <2>2, <2>4, <2>5
<1>6. Threads /\ OneModelPerThread
  <2>1. \A r : r \in Asks => ~At(r, "answered")
    BY <1>2 DEF At
  <2>2. Threads
    BY <1>2, <1>4, <1>5, <2>1 DEF Threads
  <2> QED BY <1>5, <2>2 DEF OneModelPerThread
<1>7. Bound
  BY <1>2 DEF Bound
<1>8. Streams
  <2>1. Current = {} /\ Reading = {}
    BY <1>2 DEF Current, Reading
  <2> QED BY <1>2, <2>1, NothingShown DEF Streams
<1>9. AnswersAreStored /\ AnswersFitTheirQuestions
  BY <1>2, NothingShown DEF AnswersAreStored, AnswersFitTheirQuestions
<1>10. Alone /\ Mirrored /\ Told
  BY <1>2, NothingShown DEF Alone, Mirrored, Told
<1>11. StoredFit
  <2>1. ASSUME NEW i \in Investigations, stored[i] # None,
               NEW e \in Range(ExchangesFrom(stored[i].turns))
        PROVE  e.of \notin Asks
    BY <2>1, <1>1, <1>5, TurnsFit, ExchangesFit, InvestigationNames DEF Typed
  <2> QED BY <2>1 DEF StoredFit
<1> QED BY <1>1, <1>6, <1>7, <1>8, <1>9, <1>10, <1>11 DEF IInv

\* An answer that is stored, or shown, is of a turn that is answered.
LEMMA StoredAreAnswered ==
  ASSUME Typed, Threads, NEW i \in Investigations, stored[i] # None,
         NEW e \in Range(ExchangesFrom(stored[i].turns)), e.of \in Asks
  PROVE  At(e.of, "answered")
<1>1. PICK t \in Range(stored[i].turns) : t.by = e.of
  BY TurnsFit, ExchangesFit DEF Typed
<1>2. t.by # Earlier
  BY <1>1, InvestigationNames
<1> QED BY <1>1, <1>2 DEF Threads

LEMMA ShownAreAnswered ==
  ASSUME Typed, Threads, AnswersAreStored, NEW e \in Range(screen.history), Answered(e), e.of \in Asks
  PROVE  At(e.of, "answered")
<1>1. screen.inv \in Investigations /\ Holds(screen.inv, e.of)
  BY DEF AnswersAreStored, Typed, TypeOK, Screen
<1>2. e.of # Earlier
  BY InvestigationNames
<1> QED BY <1>1, <1>2 DEF Threads, Holds

\* What was answered stays as it was answered.
LEMMA SameFit ==
  ASSUME Typed, Threads, AnswersAreStored, ~disturbed,
         \A r \in Asks : At(r, "answered") => req'[r].answers = req[r].answers
  PROVE  /\ StoredFit /\ stored' = stored => StoredFit'
         /\ AnswersFitTheirQuestions /\ screen'.history = screen.history => AnswersFitTheirQuestions'
<1>1. ASSUME StoredFit, stored' = stored PROVE StoredFit'
  <2>1. ASSUME NEW i \in Investigations, stored'[i] # None,
               NEW e \in Range(ExchangesFrom(stored'[i].turns)), e.of \in Asks
        PROVE  req'[e.of].answers = e.question
    <3>1. stored[i] # None /\ e \in Range(ExchangesFrom(stored[i].turns))
      BY <1>1, <2>1
    <3>2. At(e.of, "answered")
      BY <2>1, <3>1, StoredAreAnswered
    <3>3. req[e.of].answers = e.question
      BY <1>1, <2>1, <3>1 DEF StoredFit
    <3> QED BY <2>1, <3>2, <3>3
  <2> QED BY <2>1 DEF StoredFit
<1>2. ASSUME AnswersFitTheirQuestions, screen'.history = screen.history PROVE AnswersFitTheirQuestions'
  <2>1. ASSUME NEW e \in Range(screen'.history), Answered(e), e.of \in Asks
        PROVE  req'[e.of].answers = e.question
    <3>1. e \in Range(screen.history)
      BY <1>2, <2>1
    <3>2. At(e.of, "answered")
      BY <2>1, <3>1, ShownAreAnswered
    <3>3. req[e.of].answers = e.question
      BY <1>2, <2>1, <3>1 DEF AnswersFitTheirQuestions
    <3> QED BY <2>1, <3>2, <3>3
  <2> QED BY <2>1 DEF AnswersFitTheirQuestions, Answered
<1> QED BY <1>1, <1>2

\* A request abandoned before its end disturbs the conversation: when nothing is
\* left to settle, no turn is under way.
LEMMA AbandonsNothing ==
  ASSUME Typed, Streams, Alone, Abort, ~ToSettle, ~disturbed'
  PROVE  ~disturbed /\ stream.turn = None
<1>1. ~disturbed /\ \A r \in Current : wire[r] = "closed"
  BY DEF Abort, Typed, TypeOK
<1>2. ASSUME stream.turn # None PROVE FALSE
  <2>1. stream.turn \in Current /\ stream.turn \in Asks /\ stream.status # "idle"
    BY <1>2 DEF Streams, Typed, TypeOK, Stream
  <2>2. stream.status # "streaming" /\ stream.status # "aborted"
    BY <1>1, <1>2, <2>1 DEF Alone
  <2>3. stream.status \in {"done", "error"}
    BY <2>1, <2>2 DEF Typed, TypeOK, Stream
  <2>4. req[stream.turn] # None
    BY <2>1 DEF Streams, Current
  <2>5. req[stream.turn].question \in Questions
    BY <2>1, <2>4, RowsHold DEF Typed, Request
  <2>6. stream.question # None
    BY <1>2, <2>5, InvestigationNames DEF Streams
  <2> QED BY <2>3, <2>6 DEF ToSettle
<1> QED BY <1>1, <1>2

LEMMA AskKeepsCalm ==
  ASSUME Typed, Threads, Streams, AnswersAreStored, Undisturbed, ~ToSettle, ~disturbed',
         NEW q \in Questions, NEW again \in BOOLEAN, Ask(q, again), stored' = stored,
         screen'.inv = screen.inv, screen'.history = screen.history,
         screen'.loading = screen.loading, screen'.rerun = (screen.rerun \/ again),
         again => screen.inv # None
  PROVE  Undisturbed'
<1>1. PICK r \in Asks, new \in Request : Opened(r, new, q, again)
  BY Asked
<1>2. /\ req[r] = None /\ req'[r] = new /\ new # None /\ ~At(r, "answered") /\ ~At(r, "answered")'
      /\ \A s \in Asks \ {r} : req'[s] = req[s]
  BY <1>1, OpenedFrame
<1>3. ~disturbed /\ stream.turn = None
  BY <1>1, AbandonsNothing DEF Opened, Undisturbed
<1>4. \A s \in Asks : req[s] # None => req[s].at \in Ended /\ wire[s] = "closed"
  BY <1>3, InvestigationNames DEF Undisturbed, Alone
<1>5. ~screen.rerun
  BY <1>3 DEF Streams
<1>6. /\ stream'.turn = r /\ stream'.status = "streaming" /\ stream'.turn # None
      /\ new.at = "sent" /\ new.rerun = screen'.rerun
      /\ wire' = [Hushed EXCEPT ![r] = "open"]
  BY <1>1, <1>5, InvestigationNames DEF Opened
<1>7. wire'[r] = "open" /\ \A s \in Asks \ {r} : wire'[s] = IF s \in Reading THEN "closed" ELSE wire[s]
  BY <1>6 DEF Hushed
<1>8. Alone'
  BY <1>2, <1>4, <1>6, <1>7 DEF Alone
<1>9. Mirrored'
  <2>1. ~At(stream.turn, "answered")'
    BY <1>2, <1>6 DEF At
  <2>2. ~screen'.loading => ~screen.loading
    OBVIOUS
  <2>3. ShownAnswers' = ShownAnswers
    BY DEF ShownAnswers
  <2> QED BY <1>3, <2>1, <2>3 DEF Undisturbed, Mirrored
<1>10. Told'
  BY <1>2, <1>6 DEF Told
<1>11. StoredFit' /\ AnswersFitTheirQuestions'
  <2>1. \A s \in Asks : At(s, "answered") => req'[s].answers = req[s].answers
    BY <1>2
  <2> QED BY <1>3, <2>1, SameFit DEF Undisturbed
<1> QED BY <1>8, <1>9, <1>10, <1>11 DEF Undisturbed

\* What stands under a history: the turn that settles is added as it was stored.
LEMMA PlaceAnswers ==
  ASSUME Typed, Streams, ToSettle,
         NEW t, t = [asked |-> IF screen.rerun THEN None ELSE stream.question, by |-> stream.answer]
  PROVE  AnswersOf(Place(screen.history)) =
           IF stream.answer = None THEN ShownAnswers ELSE Paired(ShownAnswers, t)
<1>1. PICK h \in Seq(Exchange) : h = screen.history
  BY DEF Typed, TypeOK, Screen
<1>2. PICK x \in Exchange : x = Settled
  BY SettledFits
<1>3. /\ x.of = stream.answer /\ x.question = stream.question /\ (Answered(x) <=> stream.answer # None)
  BY <1>2, SettledFits
<1>4. stream.answer \in Asks \cup {None} /\ stream.question # None
  BY DEF ToSettle, Typed, TypeOK, Stream
<1>5. CASE ~screen.rerun
  <2>1. Place(h) = Append(h, x)
    BY <1>2, <1>5 DEF Place
  <2>2. AnswersOf(Append(h, x)) = IF Answered(x) THEN Append(AnswersOf(h), x) ELSE AnswersOf(h)
    BY AnswersGrow
  <2>3. CASE stream.answer = None
    BY <1>1, <1>3, <2>1, <2>2, <2>3 DEF ShownAnswers
  <2>4. CASE stream.answer # None
    <3>1. x.show = "answer"
      BY <1>3, <2>4 DEF Answered
    <3>2. x = [question |-> stream.question, show |-> "answer", of |-> stream.answer]
      BY <1>2, <1>3, <3>1 DEF Exchange
    <3>3. t.asked = stream.question /\ t.by = stream.answer
      BY <1>5
    <3>4. Paired(AnswersOf(h), t) = Append(AnswersOf(h), x)
      BY <1>4, <3>2, <3>3 DEF Paired
    <3> QED BY <1>1, <1>3, <2>1, <2>2, <2>4, <3>4 DEF ShownAnswers
  <2> QED BY <2>3, <2>4
<1>6. CASE screen.rerun /\ stream.answer = None
  <2>1. Place(h) = h
    BY <1>2, <1>3, <1>6 DEF Place, Answered
  <2> QED BY <1>1, <1>6, <2>1 DEF ShownAnswers
<1>7. CASE screen.rerun /\ stream.answer # None
  <2>1. h # <<>> /\ Answered(h[Len(h)])
    BY <1>1, <1>7 DEF Streams, Latest
  <2>2. PICK by \in Asks : by = stream.answer
    BY <1>4, <1>7
  <2>3. Place(h) = [h EXCEPT ![Len(h)].show = "answer", ![Len(h)].of = by]
    <3>1. Settled.show = "answer" /\ Settled.of = by
      BY <1>2, <1>3, <1>7, <2>2 DEF Answered
    <3> QED BY <1>7, <2>1, <3>1 DEF Place
  <2>4. t = [asked |-> None, by |-> by]
    BY <1>7, <2>2
  <2>5. AnswersOf(Place(h)) = Paired(AnswersOf(h), t)
    BY <2>1, <2>3, <2>4, AnswersOfRerun
  <2> QED BY <1>1, <1>7, <2>5 DEF ShownAnswers
<1> QED BY <1>5, <1>6, <1>7

LEMMA UserKeepsCalm ==
  ASSUME Typed, Threads, Streams, AnswersAreStored, Undisturbed, User, ~disturbed'
  PROVE  Undisturbed'
<1>1. CASE Submit
  <2>1. PICK q \in Questions : Ask(q, FALSE) /\ ~ToSettle /\ stored' = stored /\ screen' = screen
    BY <1>1 DEF Submit
  <2>2. screen'.rerun = (screen.rerun \/ FALSE)
    BY <2>1 DEF Typed, TypeOK, Screen
  <2> QED BY <2>1, <2>2, AskKeepsCalm
<1>2. CASE Rerun
  <2>1. /\ Ask(Latest.question, TRUE) /\ ~ToSettle /\ stored' = stored
        /\ screen' = [screen EXCEPT !.rerun = TRUE] /\ screen.history # <<>> /\ Answered(Latest)
    BY <1>2 DEF Rerun
  <2>2. Latest.question \in Questions
    BY <2>1, LatestIsAnExchange
  <2>3. /\ screen'.inv = screen.inv /\ screen'.history = screen.history
        /\ screen'.loading = screen.loading /\ screen'.rerun = (screen.rerun \/ TRUE)
    BY <2>1 DEF Typed, TypeOK, Screen
  <2>4. Latest \in Range(screen.history)
    <3>1. PICK h \in Seq(Exchange) : h = screen.history
      BY DEF Typed, TypeOK, Screen
    <3>2. Len(h) \in DOMAIN h
      BY <2>1, <3>1
    <3> QED BY <3>1, <3>2 DEF Latest, Range
  <2>5. screen.inv # None
    BY <2>1, <2>4 DEF AnswersAreStored
  <2> QED BY <2>1, <2>2, <2>3, <2>5, AskKeepsCalm
<1>3. CASE Stop
  <2>1. stream.status = "streaming" /\ Abort
    BY <1>3 DEF Stop
  <2>2. ~disturbed /\ \A r \in Current : wire[r] = "closed"
    BY <2>1 DEF Abort, Typed, TypeOK
  <2>3. stream.turn # None /\ stream.turn \in Current
    BY <2>1 DEF Streams
  <2> QED BY <2>1, <2>2, <2>3 DEF Undisturbed, Alone
<1>4. CASE NewChat \/ SelectThread
  <2>1. PICK i \in Investigations \cup {None} : Mount(i)
    BY <1>4 DEF NewChat, SelectThread
  <2>2. /\ screen' = [key |-> i, history |-> <<>>, inv |-> i, loading |-> i # None, rerun |-> FALSE]
        /\ stream' = INITIAL /\ wire' = [r \in Asks |-> IF wire[r] = "none" THEN "none" ELSE "closed"]
        /\ stored' = stored /\ req' = req /\ ~ToSettle /\ Abort
    BY <2>1 DEF Mount, server
  <2>3. ~disturbed /\ stream.turn = None
    BY <2>2, AbandonsNothing DEF Undisturbed
  <2>4. stream'.turn = None /\ stream'.status = "idle"
    BY <2>2, NothingShown
  <2>5. \A r \in Asks : req[r] # None => req[r].at \in Ended /\ wire[r] = "closed"
    BY <2>3, InvestigationNames DEF Undisturbed, Alone
  <2>6. Alone'
    BY <2>2, <2>4, <2>5 DEF Alone
  <2>7. Mirrored' /\ Told'
    BY <2>2, <2>4 DEF Mirrored, Told
  <2>8. StoredFit'
    BY <2>2, <2>3, SameFit DEF Undisturbed
  <2>9. AnswersFitTheirQuestions'
    BY <2>2, NothingShown DEF AnswersFitTheirQuestions
  <2> QED BY <2>6, <2>7, <2>8, <2>9 DEF Undisturbed
<1> QED BY <1>1, <1>2, <1>3, <1>4 DEF User

LEMMA LoadKeepsCalm ==
  ASSUME Typed, Threads, Streams, AnswersAreStored, Undisturbed, Loaded \/ LoadFailed, ~disturbed'
  PROVE  Undisturbed'
<1>1. Loaded /\ ~disturbed
  BY DEF Loaded, LoadFailed
<1>2. /\ screen.loading /\ stored' = stored /\ req' = req /\ wire' = wire /\ stream' = stream
      /\ screen' = [screen EXCEPT !.loading = FALSE, !.history =
                      IF screen.history = <<>> THEN ExchangesFrom(stored[screen.inv].turns) ELSE screen.history]
  BY <1>1 DEF Loaded, server
<1>3. /\ stream.turn = None /\ screen.history = <<>> /\ screen.inv \in Investigations
      /\ stored[screen.inv] # None
  BY <1>2 DEF Streams, Threads, Typed, TypeOK, Screen
<1>4. PICK out \in Seq(Exchange) :
         out = ExchangesFrom(stored[screen.inv].turns) /\ \A e \in Range(out) : Answered(e)
  BY <1>3, TurnsFit, ExchangesFit DEF Typed
<1>5. screen'.history = out /\ screen'.inv = screen.inv
  BY <1>2, <1>3, <1>4 DEF Typed, TypeOK, Screen
<1>6. Alone'
  BY <1>1, <1>2, <1>3 DEF Undisturbed, Alone
<1>7. Mirrored'
  <2>1. ShownAnswers' = out
    BY <1>4, <1>5, AnswersOfAnswers DEF ShownAnswers
  <2>2. ExchangesFrom(stored'[screen'.inv].turns) = out
    BY <1>2, <1>4, <1>5
  <2> QED BY <1>2, <1>3, <2>1, <2>2 DEF Mirrored
<1>8. Told'
  BY <1>2, <1>3 DEF Told
<1>9. StoredFit'
  BY <1>1, <1>2, SameFit DEF Undisturbed
<1>10. AnswersFitTheirQuestions'
  <2>1. \A e \in Range(out) : e.of \in Asks => req[e.of].answers = e.question
    BY <1>1, <1>3, <1>4 DEF Undisturbed, StoredFit
  <2> QED BY <1>2, <1>5, <2>1 DEF AnswersFitTheirQuestions
<1> QED BY <1>6, <1>7, <1>8, <1>9, <1>10 DEF Undisturbed

LEMMA SettleKeepsCalm ==
  ASSUME Typed, Threads, Streams, AnswersAreStored, Undisturbed, Settle, ~disturbed'
  PROVE  Undisturbed'
<1>1. /\ ToSettle /\ Abort /\ wire' = Hushed /\ stream' = INITIAL /\ stored' = stored /\ req' = req
      /\ screen' = [screen EXCEPT !.history = Place(screen.history), !.inv = Continues, !.rerun = FALSE]
  BY DEF Settle, server
<1>2. /\ screen'.history = Place(screen.history) /\ screen'.inv = Continues
      /\ screen'.loading = screen.loading
  BY <1>1 DEF Typed, TypeOK, Screen
<1>3. ~disturbed /\ stream'.turn = None /\ stream'.status = "idle"
  BY <1>1, NothingShown DEF Abort, Typed, TypeOK
<1>4. PICK r \in Asks : r = stream.turn /\ r # None
  BY <1>1 DEF ToSettle, Streams, Typed, TypeOK, Stream
<1>5. /\ wire[r] = "closed" /\ ~screen.loading /\ req[r].rerun = screen.rerun
      /\ stream.question = req[r].question /\ req[r] # None
  <2>1. wire[r] = "closed" /\ req[r].rerun = screen.rerun
    BY <1>1, <1>3, <1>4 DEF Undisturbed, Alone, ToSettle
  <2>2. req[r] # None
    BY <2>1, <1>4 DEF Streams
  <2> QED BY <2>1, <2>2, <1>4 DEF Streams
<1>6. /\ req[r].at \in Ended
      /\ req[r].at = "answered" => stream.answer = r
      /\ req[r].at # "answered" => stream.answer = None
  <2>1. stream.status \in {"done", "error"}
    BY <1>1, <1>3 DEF ToSettle, Undisturbed, Alone
  <2>2. /\ stream.status = "done" =>
             req[r].at \in {"answered", "replied"} /\ (req[r].at = "answered" => stream.answer = r)
        /\ stream.status = "error" => req[r].at \in {"refused", "failed"}
    BY <1>3, <1>4 DEF Undisturbed, Alone
  <2>3. stream.answer # None => req[r].at = "answered"
    BY <1>4 DEF Streams, At
  <2> QED BY <2>1, <2>2, <2>3 DEF Ended
<1>7. Alone'
  <2>1. ASSUME NEW s \in Asks, req[s] # None PROVE req[s].at \in Ended /\ wire'[s] = "closed"
    <3>1. req[s].at \in Ended /\ wire[s] = "closed"
      BY <2>1, <1>3, <1>4, <1>5, <1>6 DEF Undisturbed, Alone
    <3> QED BY <3>1, <1>1 DEF Hushed
  <2> QED BY <1>1, <1>3, <2>1 DEF Alone
<1>8. Mirrored'
  <2>1. PICK t : t = [asked |-> IF screen.rerun THEN None ELSE stream.question, by |-> stream.answer]
    OBVIOUS
  <2>2. AnswersOf(Place(screen.history)) =
          IF stream.answer = None THEN ShownAnswers ELSE Paired(ShownAnswers, t)
    BY <1>1, <2>1, PlaceAnswers
  <2>3. ShownAnswers' = AnswersOf(Place(screen.history))
    BY <1>2 DEF ShownAnswers
  <2>4. CASE req[r].at = "answered"
    <3>1. stream.answer = r /\ r # None /\ At(stream.turn, "answered")
      BY <1>4, <1>5, <1>6, <2>4 DEF At
    <3>2. t = Saved(r)
      BY <2>1, <3>1, <1>5 DEF Saved
    <3>3. ExchangesFrom(stored[CreatedBy(r)].turns) = Paired(ShownAnswers, Saved(r))
      BY <1>3, <1>4, <1>5, <3>1 DEF Undisturbed, Mirrored
    <3>4. Continues = CreatedBy(r)
      BY <3>1, ContinuesTheThread
    <3> QED BY <1>1, <1>2, <1>3, <2>2, <2>3, <3>1, <3>2, <3>3, <3>4 DEF Mirrored
  <2>5. CASE req[r].at # "answered"
    <3>1. stream.answer = None /\ ~At(stream.turn, "answered")
      BY <1>4, <1>6, <2>5 DEF At
    <3>2. screen.inv # None => ShownAnswers = ExchangesFrom(stored[screen.inv].turns)
      BY <1>3, <1>5, <3>1 DEF Undisturbed, Mirrored
    <3>3. Continues = screen.inv
      BY <3>1 DEF Continues
    <3> QED BY <1>1, <1>2, <1>3, <2>2, <2>3, <3>1, <3>2, <3>3 DEF Mirrored
  <2> QED BY <2>4, <2>5
<1>9. Told'
  BY <1>3 DEF Told
<1>10. StoredFit'
  BY <1>1, <1>3, SameFit DEF Undisturbed
<1>11. AnswersFitTheirQuestions'
  <2>1. ASSUME NEW e \in Range(Place(screen.history)), Answered(e), e.of \in Asks
        PROVE  req[e.of].answers = e.question
    <3>1. CASE e \in Range(screen.history)
      BY <1>3, <2>1, <3>1 DEF Undisturbed, AnswersFitTheirQuestions
    <3>2. CASE /\ stream.answer # None /\ e.of = stream.answer
               /\ e.question = IF screen.rerun THEN Latest.question ELSE stream.question
      <4>1. e.of = r /\ req[r].at = "answered"
        BY <1>6, <3>2
      <4>2. req[r].answers = IF screen.rerun THEN Latest.question ELSE stream.question
        BY <1>3, <1>4, <4>1 DEF Undisturbed, Told
      <4> QED BY <3>2, <4>1, <4>2
    <3> QED BY <1>1, <2>1, <3>1, <3>2, PlaceShows
  <2> QED BY <1>1, <1>2, <2>1 DEF AnswersFitTheirQuestions, Answered
<1> QED BY <1>7, <1>8, <1>9, <1>10, <1>11 DEF Undisturbed

\* What arrives is of the turn shown, the only one that is still read.
LEMMA ArrivalKeepsCalm ==
  ASSUME Typed, Threads, Streams, AnswersAreStored, Undisturbed, ~disturbed',
         NEW r \in Asks, Arrival(r) \/ Lost(r)
  PROVE  Undisturbed'
<1>1. /\ Arrival(r) /\ ~disturbed /\ stored' = stored /\ req' = req /\ screen' = screen
  BY DEF Arrival, Payload, Done, ErrorFrame, Refusal, RefusalBody, Lost, server
<1>2. stream'.turn = stream.turn /\ stream'.question = stream.question
  BY <1>1 DEF Arrival, Payload, Done, ErrorFrame, Refusal, RefusalBody, Typed, TypeOK, Stream
<1>3. r = stream.turn /\ r # None
  <2>1. wire[r] \notin {"none", "closed"}
    BY <1>1 DEF Arrival, Payload, Done, ErrorFrame, Refusal, RefusalBody, Heard
  <2>2. req[r] # None
    BY <2>1 DEF Streams
  <2> QED BY <1>1, <2>1, <2>2, InvestigationNames DEF Undisturbed, Alone
<1>4. /\ stream.status \notin {"idle", "aborted"} /\ req[r].rerun = screen.rerun
      /\ stream.status = "streaming" <=> wire[r] # "closed"
      /\ wire[r] = "body" => req[r].at = "refused"
      /\ wire[r] = "payload" \/ stream.status = "done" =>
           req[r].at \in {"answered", "replied"} /\ (req[r].at = "answered" => stream.answer = r)
      /\ stream.status = "error" => req[r].at \in {"refused", "failed"}
      /\ \A s \in Asks \ {r} : req[s] # None => req[s].at \in Ended /\ wire[s] = "closed"
  BY <1>1, <1>3 DEF Undisturbed, Alone, Streams
<1>5. \A s \in Asks \ {r} : wire'[s] = wire[s]
  BY <1>1 DEF Arrival, Payload, Done, ErrorFrame, Refusal, RefusalBody, Typed, TypeOK
<1>6. /\ stream'.status # "aborted"
      /\ stream'.status = "streaming" <=> wire'[r] # "closed"
      /\ wire'[r] = "body" => req[r].at = "refused"
      /\ wire'[r] = "payload" \/ stream'.status = "done" =>
           req[r].at \in {"answered", "replied"} /\ (req[r].at = "answered" => stream'.answer = r)
      /\ stream'.status = "error" => req[r].at \in {"refused", "failed"}
  <2>1. CASE Payload(r)
    <3>1. /\ wire[r] = "open" /\ wire'[r] = "payload" /\ req[r].at \in {"answered", "replied"}
          /\ stream'.status = stream.status /\ (req[r].at = "answered" => stream'.answer = r)
      BY <2>1 DEF Payload, Heard, Typed, TypeOK, Stream
    <3> QED BY <1>4, <3>1
  <2>2. CASE Done(r)
    <3>1. /\ wire[r] = "payload" /\ wire'[r] = "closed" /\ stream'.status = "done"
          /\ stream'.answer = stream.answer
      BY <2>2 DEF Done, Typed, TypeOK, Stream
    <3> QED BY <1>4, <3>1
  <2>3. CASE ErrorFrame(r)
    <3>1. req[r].at = "failed" /\ wire'[r] = "closed" /\ stream'.status = "error"
      BY <2>3 DEF ErrorFrame, Typed, TypeOK, Stream
    <3> QED BY <3>1
  <2>4. CASE Refusal(r)
    <3>1. /\ wire[r] = "open" /\ req[r].at = "refused" /\ wire'[r] = "body"
          /\ stream'.status = stream.status
      BY <2>4 DEF Refusal, Heard, Typed, TypeOK
    <3> QED BY <1>4, <3>1
  <2>5. CASE RefusalBody(r)
    <3>1. wire[r] = "body" /\ wire'[r] = "closed" /\ stream'.status = "error"
      BY <2>5 DEF RefusalBody, Typed, TypeOK, Stream
    <3> QED BY <1>4, <3>1
  <2> QED BY <1>1, <2>1, <2>2, <2>3, <2>4, <2>5 DEF Arrival
<1>7. Alone'
  BY <1>1, <1>2, <1>3, <1>4, <1>5, <1>6 DEF Alone
<1>8. Mirrored'
  <2>1. ShownAnswers' = ShownAnswers /\ (At(stream.turn, "answered")' <=> At(stream.turn, "answered"))
        /\ CreatedBy(stream.turn)' = CreatedBy(stream.turn) /\ Saved(stream.turn)' = Saved(stream.turn)
    BY <1>1, <1>2 DEF ShownAnswers, At, CreatedBy, Saved
  <2> QED BY <1>1, <1>2, <2>1 DEF Undisturbed, Mirrored
<1>9. Told'
  BY <1>1, <1>2 DEF Undisturbed, Told, Latest
<1>10. StoredFit' /\ AnswersFitTheirQuestions'
  BY <1>1, SameFit DEF Undisturbed
<1> QED BY <1>7, <1>8, <1>9, <1>10 DEF Undisturbed

\* A turn the server still works on is the turn shown, and nothing of it has arrived.
LEMMA UnderWay ==
  ASSUME Typed, Threads, Streams, Alone, ~disturbed,
         NEW r \in Asks, req[r] # None, req[r].at \in {"sent", "starting", "running", "saving"}
  PROVE  /\ r = stream.turn /\ r # None /\ ~screen.loading
         /\ req[r].inv = screen.inv /\ req[r].rerun = screen.rerun /\ req[r].question = stream.question
         /\ stream.status \notin {"done", "error", "aborted"} /\ wire[r] \notin {"body", "payload"}
         /\ \A s \in Asks \ {r} : req[s] # None => req[s].at \in Ended /\ wire[s] = "closed"
<1>1. r = stream.turn /\ r # None
  BY InvestigationNames DEF Alone, Ended
<1>2. /\ ~screen.loading /\ req[r].inv = screen.inv /\ req[r].question = stream.question
  BY <1>1 DEF Streams
<1>3. /\ req[r].rerun = screen.rerun
      /\ stream.status \notin {"done", "error", "aborted"} /\ wire[r] \notin {"body", "payload"}
  BY <1>1 DEF Alone
<1>4. \A s \in Asks \ {r} : req[s] # None => req[s].at \in Ended /\ wire[s] = "closed"
  BY <1>1 DEF Alone
<1> QED BY <1>1, <1>2, <1>3, <1>4

\* The answer a rerun replaces is the last one stored, and stands under the last
\* question stored.
LEMMA RerunTellsTheLast ==
  ASSUME Typed, Threads, Streams, Mirrored, ~disturbed, stream.turn # None,
         ~At(stream.turn, "answered"), screen.rerun, screen.inv # None
  PROVE  /\ ShownAnswers # <<>> /\ ShownAnswers[Len(ShownAnswers)] = Latest
         /\ ShownAnswers = ExchangesFrom(stored[screen.inv].turns)
         /\ LastAsked(stored[screen.inv].turns) = Latest.question
<1>1. screen.inv \in Investigations /\ stored[screen.inv] # None /\ ~screen.loading
  BY DEF Streams, Threads, Typed, TypeOK, Screen
<1>2. PICK turns \in Seq(Turn) : turns = stored[screen.inv].turns
  BY <1>1, TurnsFit DEF Typed
<1>3. Asking(turns) # {}
  <2>1. \E n \in DOMAIN turns : turns[n].asked # None
    BY <1>1, <1>2 DEF Threads
  <2> QED BY <2>1 DEF Asking
<1>4. ShownAnswers # <<>> /\ ShownAnswers[Len(ShownAnswers)] = Latest
  <2>1. PICK h \in Seq(Exchange) : h = screen.history
    BY DEF Typed, TypeOK, Screen
  <2>2. h # <<>> /\ Answered(h[Len(h)])
    BY <2>1 DEF Streams, Latest
  <2> QED BY <2>1, <2>2, LastAnswer DEF ShownAnswers, Latest
<1>5. ShownAnswers = ExchangesFrom(turns)
  BY <1>1, <1>2 DEF Mirrored
<1> QED BY <1>2, <1>3, <1>4, <1>5, LastQuestion

LEMMA AdvanceKeepsCalm ==
  ASSUME Typed, Threads, Streams, AnswersAreStored, Undisturbed, ~disturbed',
         NEW r \in Asks, NEW new, Advances(r, new)
  PROVE  Undisturbed'
<1>1. /\ \A q \in Asks : /\ At(q, "answered")' <=> At(q, "answered")
                         /\ q # r \/ At(q, "answered") => req'[q] = req[q]
      /\ req'[r] = new /\ req[r] # None /\ new # None /\ ~At(r, "answered")
      /\ stored' = stored /\ wire' = wire /\ screen' = screen /\ stream' = stream /\ ~disturbed
  BY AdvancedFrame
<1>2. /\ req[r].at \in {"sent", "starting", "running", "saving"} /\ new.at \notin {"sent", "answered"}
      /\ new.rerun = req[r].rerun /\ new.inv = req[r].inv /\ new.question = req[r].question
      /\ new.at = "running" => new.answers = IF new.rerun THEN LastAsked(stored[new.inv].turns)
                                             ELSE new.question
      /\ new.at = "saving" => req[r].at = "running" /\ new.answers = req[r].answers
  BY DEF Advances
<1>3. /\ r = stream.turn /\ r # None /\ ~screen.loading
      /\ req[r].inv = screen.inv /\ req[r].rerun = screen.rerun /\ req[r].question = stream.question
      /\ stream.status \notin {"done", "error", "aborted"} /\ wire[r] \notin {"body", "payload"}
      /\ \A s \in Asks \ {r} : req[s] # None => req[s].at \in Ended /\ wire[s] = "closed"
  BY <1>1, <1>2, UnderWay DEF Undisturbed
<1>4. Alone'
  <2>1. stream.status = "streaming" <=> wire[r] # "closed"
    BY <1>1, <1>3 DEF Undisturbed, Alone
  <2> QED BY <1>1, <1>2, <1>3, <2>1 DEF Alone
<1>5. Mirrored'
  <2>1. ~At(stream.turn, "answered") /\ ~At(stream.turn, "answered")' /\ ShownAnswers' = ShownAnswers
    <3>1. ~At(r, "answered")'
      BY <1>1
    <3> QED BY <1>1, <1>3, <3>1 DEF At, ShownAnswers
  <2> QED BY <1>1, <2>1 DEF Undisturbed, Mirrored
<1>6. Told'
  <2>1. Latest' = Latest
    BY <1>1 DEF Latest
  <2>2. CASE new.at = "running" /\ screen.rerun
    <3>1. req[r].inv # None
      BY <1>1, <1>3, <2>2 DEF Threads
    <3>2. LastAsked(stored[screen.inv].turns) = Latest.question
      BY <1>1, <1>3, <2>2, <3>1, RerunTellsTheLast DEF Undisturbed
    <3> QED BY <1>1, <1>2, <1>3, <2>1, <2>2, <3>2 DEF Told
  <2>3. CASE new.at = "running" /\ ~screen.rerun
    BY <1>1, <1>2, <1>3, <2>3 DEF Told
  <2>4. CASE new.at = "saving"
    <3>1. req[r].answers = IF screen.rerun THEN Latest.question ELSE stream.question
      BY <1>1, <1>2, <1>3, <2>4 DEF Undisturbed, Told
    <3> QED BY <1>1, <1>2, <1>3, <2>1, <2>4, <3>1 DEF Told
  <2>5. CASE new.at \notin {"running", "saving"}
    BY <1>1, <1>2, <1>3, <2>5 DEF Told
  <2> QED BY <2>2, <2>3, <2>4, <2>5
<1>7. StoredFit' /\ AnswersFitTheirQuestions'
  BY <1>1, SameFit DEF Undisturbed
<1> QED BY <1>4, <1>5, <1>6, <1>7 DEF Undisturbed

LEMMA SaveKeepsCalm ==
  ASSUME Typed, Threads, Streams, AnswersAreStored, Undisturbed, ~disturbed',
         NEW r \in Asks, NEW new, Saves(r, new)
  PROVE  Undisturbed'
<1>1. /\ \A q \in Asks : /\ At(q, "answered")' <=> At(q, "answered") \/ q = r
                         /\ req'[q].answers = req[q].answers
                         /\ CreatedBy(q)' = CreatedBy(q) /\ Saved(q)' = Saved(q)
                         /\ q # r => req'[q] = req[q]
      /\ req'[r] = new /\ req[r] # None /\ new # None /\ ~At(r, "answered")
      /\ wire' = wire /\ screen' = screen /\ stream' = stream /\ ~disturbed
  BY SavedFrame
<1>2. /\ req[r].at = "saving" /\ new.at = "answered" /\ new.rerun = req[r].rerun
      /\ new.inv = req[r].inv /\ new.answers = req[r].answers
      /\ Saved(r) \in Turn /\ Saved(r).by = r
  BY DEF Saves
<1>3. /\ r = stream.turn /\ r # None /\ ~screen.loading
      /\ req[r].inv = screen.inv /\ req[r].rerun = screen.rerun /\ req[r].question = stream.question
      /\ stream.status \notin {"done", "error", "aborted"} /\ wire[r] \notin {"body", "payload"}
      /\ \A s \in Asks \ {r} : req[s] # None => req[s].at \in Ended /\ wire[s] = "closed"
  BY <1>1, <1>2, UnderWay DEF Undisturbed
<1>4. Alone'
  <2>1. stream.status = "streaming" <=> wire[r] # "closed"
    BY <1>1, <1>3 DEF Undisturbed, Alone
  <2> QED BY <1>1, <1>2, <1>3, <2>1 DEF Alone
<1>5. PICK i : i = CreatedBy(r) /\ Grows(i, r)
  BY SavedGrows
<1>6. ExchangesFrom(stored'[i].turns) = Paired(ShownAnswers, Saved(r))
  <2>1. CASE stored[i] = None
    <3>1. ExchangesFrom(stored'[i].turns) = Paired(<<>>, Saved(r)) /\ screen.inv = None
      BY <1>3, <1>5, <2>1 DEF Grows
    <3>2. screen.history \in Seq(Exchange) /\ \A e \in Range(screen.history) : ~Answered(e)
      BY <3>1 DEF AnswersAreStored, Typed, TypeOK, Screen
    <3>3. ShownAnswers = <<>>
      BY <3>2, AnswersOfAnswers DEF ShownAnswers
    <3> QED BY <3>1, <3>3
  <2>2. CASE stored[i] # None
    <3>1. /\ ExchangesFrom(stored'[i].turns) = Paired(ExchangesFrom(stored[i].turns), Saved(r))
          /\ screen.inv = i /\ i # None
      BY <1>3, <1>5, <2>2, InvestigationNames DEF Grows
    <3>2. ShownAnswers = ExchangesFrom(stored[i].turns)
      BY <1>1, <1>3, <3>1 DEF Undisturbed, Mirrored
    <3> QED BY <3>1, <3>2
  <2> QED BY <2>1, <2>2
<1>7. Mirrored'
  <2>1. /\ At(stream.turn, "answered")' /\ ShownAnswers' = ShownAnswers
        /\ CreatedBy(stream.turn)' = i /\ Saved(stream.turn)' = Saved(r)
    <3>1. At(r, "answered")' /\ CreatedBy(r)' = i /\ Saved(r)' = Saved(r)
      BY <1>1, <1>5
    <3> QED BY <1>1, <1>3, <3>1 DEF At, ShownAnswers, CreatedBy, Saved
  <2> QED BY <1>1, <1>3, <1>6, <2>1 DEF Mirrored
<1>8. req[r].answers = IF screen.rerun THEN Latest.question ELSE stream.question
  BY <1>1, <1>2, <1>3 DEF Undisturbed, Told
<1>9. Told'
  <2>1. Latest' = Latest
    BY <1>1 DEF Latest
  <2> QED BY <1>1, <1>2, <1>3, <1>8, <2>1 DEF Told
<1>10. StoredFit'
  <2>1. ASSUME NEW j \in Investigations, stored'[j] # None,
               NEW e \in Range(ExchangesFrom(stored'[j].turns)), e.of \in Asks
        PROVE  req'[e.of].answers = e.question
    <3>1. ASSUME stored[j] # None, e \in Range(ExchangesFrom(stored[j].turns))
          PROVE  req'[e.of].answers = e.question
      BY <1>1, <2>1, <3>1 DEF Undisturbed, StoredFit
    <3>2. CASE j # i
      BY <1>5, <2>1, <3>1, <3>2 DEF Grows
    <3>3. CASE j = i
      <4>1. PICK out \in Seq(Exchange) : out = ShownAnswers
        BY AnswersOfAnswers DEF ShownAnswers, Typed, TypeOK, Screen
      <4>2. e \in Range(Paired(out, Saved(r)))
        BY <1>6, <2>1, <3>3, <4>1
      <4>3. CASE e \in Range(out)
        <5>1. PICK n \in 1..Len(out) : e = out[n]
          BY <4>1, <4>3 DEF Range
        <5>2. stored[i] # None
          <6>1. ASSUME stored[i] = None PROVE FALSE
            <7>1. screen.inv = None
              BY <1>3, <1>5, <6>1 DEF Grows
            <7>2. screen.history \in Seq(Exchange) /\ \A x \in Range(screen.history) : ~Answered(x)
              BY <7>1 DEF AnswersAreStored, Typed, TypeOK, Screen
            <7>3. out = <<>>
              BY <4>1, <7>2, AnswersOfAnswers DEF ShownAnswers
            <7> QED BY <5>1, <7>3
          <6> QED BY <6>1
        <5>3. screen.inv = i /\ i # None
          BY <1>3, <1>5, <5>2, InvestigationNames DEF Grows
        <5>4. out = ExchangesFrom(stored[i].turns)
          BY <1>1, <1>3, <4>1, <5>3 DEF Undisturbed, Mirrored
        <5> QED BY <3>1, <3>3, <4>3, <5>2, <5>4
      <4>4. CASE /\ e.of = Saved(r).by /\ (Saved(r).asked # None => e.question = Saved(r).asked)
                 /\ Saved(r).asked = None => out # <<>> /\ e.question = out[Len(out)].question
        <5>1. e.of = r
          BY <1>2, <4>4
        <5>2. CASE screen.rerun
          <6>1. Saved(r).asked = None
            BY <1>3, <5>2 DEF Saved
          <6>2. screen.inv # None
            BY <1>1, <1>3, <5>2 DEF Threads
          <6>3. out[Len(out)] = Latest
            BY <1>1, <1>3, <4>1, <5>2, <6>2, RerunTellsTheLast DEF Undisturbed
          <6> QED BY <1>1, <1>8, <4>4, <5>1, <5>2, <6>1, <6>3
        <5>3. CASE ~screen.rerun
          <6>1. Saved(r).asked = stream.question
            BY <1>3, <5>3 DEF Saved
          <6>2. req[r] \in Request
            BY DEF Saves
          <6>3. stream.question # None
            BY <1>3, <6>2, InvestigationNames DEF Request
          <6> QED BY <1>1, <1>8, <4>4, <5>1, <5>3, <6>1, <6>3
        <5> QED BY <5>2, <5>3
      <4> QED BY <1>2, <4>1, <4>2, <4>3, <4>4, PairedShows
    <3> QED BY <3>2, <3>3
  <2> QED BY <2>1 DEF StoredFit
<1>11. AnswersFitTheirQuestions'
  BY <1>1, SameFit DEF Undisturbed
<1> QED BY <1>4, <1>7, <1>9, <1>10, <1>11 DEF Undisturbed

LEMMA EveryStepKeepsCalm ==
  ASSUME Typed, Threads, Streams, AnswersAreStored, Undisturbed, Next
  PROVE  Undisturbed'
<1>1. CASE disturbed'
  BY <1>1 DEF Undisturbed, Alone, Mirrored, StoredFit, Told, AnswersFitTheirQuestions
<1>2. CASE ~disturbed'
  <2>1. CASE User
    BY <1>2, <2>1, UserKeepsCalm
  <2>2. CASE Settle
    BY <1>2, <2>2, SettleKeepsCalm
  <2>3. CASE Loaded \/ LoadFailed
    BY <1>2, <2>3, LoadKeepsCalm
  <2>4. ASSUME NEW r \in Asks, Arrival(r) \/ Lost(r) PROVE Undisturbed'
    BY <1>2, <2>4, ArrivalKeepsCalm
  <2>5. ASSUME NEW r \in Asks, Serve(r) PROVE Undisturbed'
    <3>1. PICK new : Advances(r, new) \/ Saves(r, new)
      BY <2>5, ServerSteps
    <3> QED BY <1>2, <3>1, AdvanceKeepsCalm, SaveKeepsCalm
  <2> QED BY <2>1, <2>2, <2>3, <2>4, <2>5 DEF Next
<1> QED BY <1>1, <1>2

-----------------------------------------------------------------------------
(* Theorems.                                                               *)

LEMMA StutterKeeps ==
  ASSUME IInv, UNCHANGED vars
  PROVE  IInv'
<1>1. /\ visit' = visit /\ stored' = stored /\ req' = req /\ wire' = wire /\ aborted' = aborted
      /\ screen' = screen /\ stream' = stream /\ disturbed' = disturbed
  BY DEF vars, server, client
<1>2. Typed'
  BY <1>1 DEF IInv, Typed, Rows, TypeOK
<1>3. Threads' /\ Bound' /\ OneModelPerThread'
  <2>1. UNCHANGED server /\ (screen'.inv # None => stored[screen'.inv] # None)
    BY <1>1 DEF IInv, Threads, server
  <2> QED BY <2>1, SameServer DEF IInv
<1>4. Streams'
  <2>1. /\ Current' = Current /\ Reading' = Reading /\ Latest' = Latest
        /\ At(stream.answer, "answered")' <=> At(stream.answer, "answered")
    BY <1>1 DEF Current, Reading, Latest, At
  <2> QED BY <1>1, <2>1 DEF IInv, Streams, Answered
<1>5. AnswersAreStored'
  BY <1>1, SameAnswers DEF IInv
<1>6. Alone'
  BY <1>1 DEF IInv, Alone
<1>7. Mirrored' /\ Told'
  <2>1. ShownAnswers' = ShownAnswers /\ (At(stream.turn, "answered")' <=> At(stream.turn, "answered"))
        /\ CreatedBy(stream.turn)' = CreatedBy(stream.turn) /\ Saved(stream.turn)' = Saved(stream.turn)
        /\ Latest' = Latest
    BY <1>1 DEF ShownAnswers, At, CreatedBy, Saved, Latest
  <2> QED BY <1>1, <2>1 DEF IInv, Mirrored, Told
<1>8. StoredFit' /\ AnswersFitTheirQuestions'
  BY <1>1 DEF IInv, StoredFit, AnswersFitTheirQuestions, Answered
<1> QED BY <1>2, <1>3, <1>4, <1>5, <1>6, <1>7, <1>8 DEF IInv

LEMMA StepKeeps == IInv /\ [Next]_vars => IInv'
<1> SUFFICES ASSUME IInv, Next PROVE IInv'
  BY StutterKeeps
<1>1. /\ Typed /\ Threads /\ Bound /\ OneModelPerThread /\ Streams /\ AnswersAreStored
      /\ Undisturbed
  BY DEF IInv, Undisturbed
<1>2. CASE User \/ Settle \/ Loaded \/ LoadFailed \/ \E r \in Asks : Arrival(r) \/ Lost(r)
  <2>1. Threads' /\ Bound' /\ OneModelPerThread' /\ AnswersAreStored'
    BY <1>1, <1>2, BrowserKeepsThreads, BrowserKeepsAnswers
  <2>2. Typed' /\ Streams'
    <3>1. CASE User
      <4>1. CASE NewChat \/ SelectThread
        <5>1. PICK i \in Investigations \cup {None} : Mount(i)
          BY <4>1 DEF NewChat, SelectThread
        <5> QED BY <1>1, <3>1, <5>1, MountKeepsTypes, UserKeepsStreams
      <4> QED BY <1>1, <3>1, <4>1, SubmitKeepsTypes, StopKeepsTypes, UserKeepsStreams DEF User
    <3>2. CASE Settle
      BY <1>1, <3>2, SettleKeepsTypes, EffectsKeepStreams
    <3>3. CASE Loaded \/ LoadFailed
      BY <1>1, <3>3, LoadKeepsTypes, EffectsKeepStreams
    <3>4. ASSUME NEW r \in Asks, Arrival(r) \/ Lost(r) PROVE Typed' /\ Streams'
      BY <1>1, <3>4, ArrivalKeepsTypes, ArrivalKeepsStreams
    <3> QED BY <1>2, <3>1, <3>2, <3>3, <3>4
  <2> QED BY <1>1, <2>1, <2>2, EveryStepKeepsCalm DEF IInv, Undisturbed
<1>3. ASSUME NEW r \in Asks, Serve(r) PROVE IInv'
  <2>1. PICK new : Advances(r, new) \/ Saves(r, new)
    BY <1>1, <1>3, ServerSteps
  <2>2. Threads' /\ Bound' /\ OneModelPerThread'
    BY <1>1, <2>1, AdvanceKeepsThreads, SaveKeepsThreads
  <2>3. Typed' /\ Streams' /\ AnswersAreStored'
    BY <1>1, <1>3, ServerKeepsTypes, ServerKeepsStreams, ServerKeepsAnswers
  <2> QED BY <1>1, <2>2, <2>3, EveryStepKeepsCalm DEF IInv, Undisturbed
<1> QED BY <1>2, <1>3 DEF Next

\* The invariant of the conversation: what is stored, what the hook shows of the
\* turn it reads, and, as long as nothing was abandoned or lost, the one turn that
\* may be under way between the two.
THEOREM ConversationInductive == Spec => []IInv
BY StartHolds, StepKeeps, PTL DEF Spec

\* Every variable of the tab and of the server keeps its type, whatever is asked,
\* stopped, loaded or lost.
THEOREM ConversationTypes == Spec => []TypeOK
<1>1. IInv => TypeOK
  BY DEF IInv, Typed
<1> QED BY <1>1, ConversationInductive, PTL

\* The route binds a follow-up to the model of its Investigation: all the answers
\* stored in one were given by that model, for any models and however many turns.
THEOREM ThreadsKeepTheirModel == Spec => []OneModelPerThread
<1>1. IInv => OneModelPerThread
  BY DEF IInv
<1> QED BY <1>1, ConversationInductive, PTL

\* The settle effect and the rebuilding of a thread agree: every answer on screen is
\* stored where the next follow-up goes, and an undisturbed conversation at rest is
\* what a reload would show.
THEOREM ScreensMirrorThreads == Spec => []ScreenMirrorsThread
<1>1. IInv => ScreenMirrorsThread
  <2>1. SUFFICES ASSUME IInv PROVE ScreenMirrorsThread
    OBVIOUS
  <2>2. \A e \in Range(screen.history) : Answered(e) =>
           /\ screen.inv # None /\ stored[screen.inv] # None
           /\ \E t \in Range(stored[screen.inv].turns) : t.by = e.of
    BY <2>1 DEF IInv, AnswersAreStored, Holds
  <2>3. ASSUME ~disturbed, Resting, screen.inv # None
        PROVE  ShownAnswers = ExchangesFrom(stored[screen.inv].turns)
    <3>1. stream.turn = None /\ ~screen.loading
      BY <2>1, <2>3 DEF IInv, Streams, Resting
    <3> QED BY <2>1, <2>3, <3>1 DEF IInv, Mirrored
  <2> QED BY <2>2, <2>3 DEF ScreenMirrorsThread
<1> QED BY <1>1, ConversationInductive, PTL

\* A rerun is asked with the last question shown and answered with the last one
\* stored; undisturbed, these are one, and so are the question an answer stands
\* under and the one it was given to.
THEOREM AnswersFit == Spec => []AnswersFitTheirQuestions
<1>1. IInv => AnswersFitTheirQuestions
  BY DEF IInv
<1> QED BY <1>1, ConversationInductive, PTL

================================================================================
