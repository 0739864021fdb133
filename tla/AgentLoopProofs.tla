--------------------------- MODULE AgentLoopProofs --------------------------
(***************************************************************************)
(* Proofs about AgentLoop for every set of tool calls, every window and    *)
(* every limit: the conversation stays sound through every order of turns, *)
(* retries, results, trims, seeds and cancellations.                       *)
(*                                                                         *)
(* The lists of messages are joined, shortened and sieved; the first part  *)
(* says what each of these keeps.  The second says it of the operations of *)
(* AgentState, the third of the steps of the loop.  The last is about the  *)
(* requests: what they take, and the results they carry.                   *)
(***************************************************************************)
EXTENDS AgentLoop, SequenceLemmas

----------------------------------------------------------------------------
(* Sound lists of messages *)

\* Message i is a result of a call of message j, in the results behind it.
Answers(q, j, i) ==
    /\ q[j].role = "assistant" /\ q[i].call \in q[j].calls
    /\ \A k \in j + 1 .. i : q[k].role = "tool"
    /\ q[i].named \/ q[j].of = 0

ToolsAnswer(q) ==
    \A i \in DOMAIN q : q[i].role = "tool" => \E j \in 1 .. i - 1 : Answers(q, j, i)

\* Between two answers of the model there is a message that is not the
\* system's, so that no sieve makes them neighbours.
Apart(q) ==
    \A i, j \in DOMAIN q : i < j /\ q[i].role = "assistant" /\ q[j].role = "assistant" =>
      \E k \in i + 1 .. j - 1 : q[k].role \in {"user", "tool"}

Sound(q) == ToolsAnswer(q) /\ Apart(q)

\* An answer of the model may follow.
Open(q) ==
    (\E i \in DOMAIN q : q[i].role = "assistant") => q[Len(q)].role \in {"user", "tool"}

\* Only results follow the answer j.
Block(q, j) ==
    /\ j \in DOMAIN q /\ q[j].role = "assistant"
    /\ \A k \in j + 1 .. Len(q) : q[k].role = "tool"

\* Every call of the last answer has its result.
IsLastAnswer(q, j) ==
    /\ j \in DOMAIN q /\ q[j].role = "assistant"
    /\ \A k \in j + 1 .. Len(q) : q[k].role # "assistant"

Settled(q) ==
    \A j \in DOMAIN q : IsLastAnswer(q, j) =>
      \A c \in q[j].calls : \E i \in j + 1 .. Len(q) : q[i].role = "tool" /\ q[i].call = c

\* The answers and results of u are those of the end of q, in their order; h
\* says where they stand.
OfModel(m) == m.role \in {"assistant", "tool"}

Carried(u, q, h) ==
    /\ \A i \in DOMAIN u : OfModel(u[i]) => h[i] \in DOMAIN q /\ u[i] = q[h[i]]
    /\ \A i, j \in DOMAIN u : OfModel(u[i]) /\ OfModel(u[j]) => (i < j <=> h[i] < h[j])
    /\ \A i \in DOMAIN u, k \in DOMAIN q :
         u[i].role = "assistant" /\ h[i] < k /\ OfModel(q[k]) =>
           \E m \in DOMAIN u : h[m] = k /\ u[m] = q[k]

\* They are settled there if they were.
LEMMA CarriedSettles ==
    ASSUME NEW q \in Seq(Message), NEW u \in Seq(Message), NEW h, Carried(u, q, h), Settled(q)
    PROVE  Settled(u)
  <1> SUFFICES ASSUME NEW j \in DOMAIN u, IsLastAnswer(u, j), NEW c \in u[j].calls
               PROVE  \E i \in j + 1 .. Len(u) : u[i].role = "tool" /\ u[i].call = c
    BY DEF Settled
  <1> DEFINE g == h[j]
             n == Len(q)
  <1>1. /\ DOMAIN u = 1 .. Len(u) /\ Len(u) \in Nat /\ DOMAIN q = 1 .. n /\ n \in Nat
        /\ u[j].role = "assistant" /\ \A k \in j + 1 .. Len(u) : u[k].role # "assistant"
    BY DEF IsLastAnswer
  <1>2. g \in 1 .. n /\ u[j] = q[g] /\ OfModel(u[j])
    BY <1>1 DEF Carried, OfModel
  <1>3. ASSUME NEW k \in g + 1 .. n, OfModel(q[k])
        PROVE  \E m \in j + 1 .. Len(u) : u[m] = q[k]
    <2>1. k \in DOMAIN q /\ g < k
      BY <1>1, <1>2
    <2>2. PICK m \in DOMAIN u : h[m] = k /\ u[m] = q[k]
      BY <1>1, <1>3, <2>1 DEF Carried
    <2>3. j < m
      BY <1>2, <1>3, <2>1, <2>2 DEF Carried
    <2>4. m \in j + 1 .. Len(u)
      BY <1>1, <2>3
    <2>5. QED
      BY <2>2, <2>4
  <1>4. IsLastAnswer(q, g)
    <2>1. ASSUME NEW k \in g + 1 .. n, q[k].role = "assistant"
          PROVE  FALSE
      BY <1>1, <1>3, <2>1 DEF OfModel
    <2>2. QED
      BY <1>1, <1>2, <2>1 DEF IsLastAnswer
  <1>5. PICK i \in g + 1 .. n : q[i].role = "tool" /\ q[i].call = c
    <2>1. g \in DOMAIN q /\ c \in q[g].calls
      BY <1>1, <1>2
    <2> HIDE DEF g
    <2>2. QED
      BY <1>4, <2>1 DEF Settled
  <1>6. PICK m \in j + 1 .. Len(u) : u[m] = q[i]
    BY <1>3, <1>5 DEF OfModel
  <1>7. QED
    BY <1>5, <1>6

\* Messages of the system in front.
LEMMA FrontKeeps ==
    ASSUME NEW f \in Seq(Message), NEW q \in Seq(Message), NEW u \in Seq(Message),
           IsJoined(u, f, q), \A i \in DOMAIN f : f[i].role = "system", Sound(q)
    PROVE  Sound(u) /\ (Open(q) => Open(u)) /\ (Settled(q) => Settled(u))
  <1> DEFINE l == Len(f)
             n == Len(q)
  <1>1. /\ DOMAIN u = 1 .. l + n /\ DOMAIN f = 1 .. l /\ DOMAIN q = 1 .. n
        /\ l \in Nat /\ n \in Nat /\ Len(u) = l + n
        /\ \A i \in DOMAIN f : u[i] = f[i]
        /\ \A i \in DOMAIN q : u[l + i] = q[i]
    BY JoinedFrom
  <1> HIDE DEF l, n
  <1>2. \A i \in 1 .. l + n : u[i].role # "system" =>
          i - l \in 1 .. n /\ u[i] = q[i - l] /\ l + (i - l) = i
    BY <1>1
  <1>3. ToolsAnswer(u)
    <2> SUFFICES ASSUME NEW i \in 1 .. l + n, u[i].role = "tool"
                 PROVE  \E j \in 1 .. i - 1 : Answers(u, j, i)
      BY <1>1 DEF ToolsAnswer
    <2>1. i - l \in 1 .. n /\ u[i] = q[i - l]
      BY <1>2
    <2>2. PICK j \in 1 .. (i - l) - 1 : Answers(q, j, i - l)
      BY <1>1, <2>1 DEF Sound, ToolsAnswer
    <2>3. j \in 1 .. n /\ l + j \in 1 .. i - 1
      BY <1>1, <2>1, <2>2
    <2>4. u[l + j] = q[j]
      BY <1>1, <2>3
    <2>5. \A k \in (l + j) + 1 .. i : k - l \in j + 1 .. i - l /\ k - l \in 1 .. n /\ l + (k - l) = k
      BY <1>1, <2>1, <2>3
    <2>6. \A k \in (l + j) + 1 .. i : u[k] = q[k - l]
      BY <1>1, <2>5
    <2>7. Answers(u, l + j, i)
      BY <2>1, <2>2, <2>4, <2>5, <2>6 DEF Answers
    <2>8. QED
      BY <2>3, <2>7
  <1>4. Apart(u)
    <2> SUFFICES ASSUME NEW i \in 1 .. l + n, NEW j \in 1 .. l + n, i < j,
                        u[i].role = "assistant", u[j].role = "assistant"
                 PROVE  \E k \in i + 1 .. j - 1 : u[k].role \in {"user", "tool"}
      BY <1>1 DEF Apart
    <2>1. /\ i - l \in 1 .. n /\ j - l \in 1 .. n /\ i - l < j - l
          /\ u[i] = q[i - l] /\ u[j] = q[j - l]
      BY <1>1, <1>2
    <2>2. PICK k \in (i - l) + 1 .. (j - l) - 1 : q[k].role \in {"user", "tool"}
      BY <1>1, <2>1 DEF Sound, Apart
    <2>3. k \in 1 .. n /\ l + k \in i + 1 .. j - 1
      BY <1>1, <2>1, <2>2
    <2>4. u[l + k] = q[k]
      BY <1>1, <2>3
    <2>5. QED
      BY <2>2, <2>3, <2>4
  <1>5. ASSUME Open(q)
        PROVE  Open(u)
    <2> SUFFICES ASSUME NEW i \in 1 .. l + n, u[i].role = "assistant"
                 PROVE  u[l + n].role \in {"user", "tool"}
      BY <1>1 DEF Open
    <2>1. i - l \in 1 .. n /\ u[i] = q[i - l]
      BY <1>2
    <2>2. q[n].role \in {"user", "tool"}
      BY <1>1, <1>5, <2>1 DEF Open, n
    <2>3. n \in 1 .. n
      BY <1>1, <2>1
    <2>4. QED
      BY <1>1, <2>2, <2>3
  <1>6. Settled(q) => Settled(u)
    <2> DEFINE h == [i \in 1 .. l + n |-> i - l]
    <2>1. \A i \in 1 .. l + n : h[i] = i - l
      OBVIOUS
    <2> HIDE DEF h
    <2>2. \A i \in 1 .. l + n : OfModel(u[i]) => h[i] \in 1 .. n /\ u[i] = q[h[i]]
      BY <1>2, <2>1 DEF OfModel
    <2>3. ASSUME NEW i \in 1 .. l + n, NEW j \in 1 .. l + n
          PROVE  i < j <=> h[i] < h[j]
      <3>1. h[i] = i - l /\ h[j] = j - l
        BY <2>1
      <3>2. QED
        BY <1>1, <3>1
    <2>4. ASSUME NEW k \in 1 .. n
          PROVE  l + k \in 1 .. l + n /\ h[l + k] = k /\ u[l + k] = q[k]
      <3>1. l + k \in 1 .. l + n /\ (l + k) - l = k
        BY <1>1
      <3>2. QED
        BY <1>1, <2>1, <3>1
    <2>5. Carried(u, q, h)
      BY <1>1, <2>2, <2>3, <2>4 DEF Carried
    <2>6. QED
      BY <2>5, CarriedSettles
  <1>7. QED
    BY <1>3, <1>4, <1>5, <1>6 DEF Sound

\* Messages behind the list leave what was in it sound.
LEMMA BehindKeeps ==
    ASSUME NEW q \in Seq(Message), NEW t \in Seq(Message), NEW u \in Seq(Message),
           IsJoined(u, q, t), Sound(q)
    PROVE  /\ \A i \in 1 .. Len(q) : u[i].role = "tool" => \E j \in 1 .. i - 1 : Answers(u, j, i)
           /\ \A i, j \in 1 .. Len(q) :
                i < j /\ u[i].role = "assistant" /\ u[j].role = "assistant" =>
                  \E k \in i + 1 .. j - 1 : u[k].role \in {"user", "tool"}
  <1> DEFINE l == Len(q)
  <1>1. DOMAIN q = 1 .. l /\ l \in Nat /\ \A i \in 1 .. l : u[i] = q[i]
    BY JoinedFrom
  <1> HIDE DEF l
  <1>2. ASSUME NEW i \in 1 .. l, u[i].role = "tool"
        PROVE  \E j \in 1 .. i - 1 : Answers(u, j, i)
    <2>1. PICK j \in 1 .. i - 1 : Answers(q, j, i)
      BY <1>1, <1>2 DEF Sound, ToolsAnswer
    <2>2. j \in 1 .. l /\ \A k \in j + 1 .. i : k \in 1 .. l
      BY <1>1
    <2>3. Answers(u, j, i)
      BY <1>1, <2>1, <2>2 DEF Answers
    <2>4. QED
      BY <2>3
  <1>3. ASSUME NEW i \in 1 .. l, NEW j \in 1 .. l, i < j,
               u[i].role = "assistant", u[j].role = "assistant"
        PROVE  \E k \in i + 1 .. j - 1 : u[k].role \in {"user", "tool"}
    <2>1. PICK k \in i + 1 .. j - 1 : q[k].role \in {"user", "tool"}
      BY <1>1, <1>3 DEF Sound, Apart
    <2>2. k \in 1 .. l
      BY <1>1
    <2>3. QED
      BY <1>1, <2>1, <2>2
  <1>4. QED
    BY <1>2, <1>3 DEF l

IsOne(t, m) == Len(t) = 1 /\ t[1] = m

\* One more message.
LEMMA OneMore ==
    ASSUME NEW q \in Seq(Message), NEW t \in Seq(Message), NEW u \in Seq(Message),
           IsJoined(u, q, t), Sound(q), NEW m, IsOne(t, m), m.role # "tool"
    PROVE  /\ m.role = "assistant" /\ Open(q) => Sound(u)
           /\ m.role = "user" => Sound(u) /\ Open(u) /\ (Settled(q) => Settled(u))
           /\ Len(u) = Len(q) + 1 /\ DOMAIN u = 1 .. Len(u) /\ u[Len(u)] = m
           /\ \A i \in DOMAIN q : i \in DOMAIN u /\ u[i] = q[i]
           /\ \A i \in DOMAIN u : i \in DOMAIN q \/ i = Len(u)
  <1> DEFINE l == Len(q)
  <1>1. DOMAIN t = 1 .. 1 /\ 1 \in DOMAIN t /\ Len(t) = 1 /\ t[1] = m
    BY DEF IsOne
  <1>3. /\ DOMAIN u = 1 .. l + 1 /\ DOMAIN q = 1 .. l /\ l \in Nat /\ Len(u) = l + 1
        /\ \A i \in 1 .. l : i \in 1 .. l + 1 /\ u[i] = q[i]
        /\ u[l + 1] = m
    <2>1. /\ DOMAIN u = 1 .. Len(q) + Len(t) /\ DOMAIN q = 1 .. Len(q)
          /\ Len(q) \in Nat /\ Len(u) = Len(q) + Len(t)
          /\ \A i \in DOMAIN q : i \in DOMAIN u /\ u[i] = q[i]
          /\ \A i \in DOMAIN t : u[Len(q) + i] = t[i]
      BY JoinedFrom
    <2>2. u[l + 1] = m
      BY <1>1, <2>1
    <2> HIDE DEF l
    <2>3. QED
      BY <1>1, <2>1, <2>2 DEF l
  <1>4. /\ \A i \in 1 .. l : u[i].role = "tool" => \E j \in 1 .. i - 1 : Answers(u, j, i)
        /\ \A i, j \in 1 .. l :
             i < j /\ u[i].role = "assistant" /\ u[j].role = "assistant" =>
               \E k \in i + 1 .. j - 1 : u[k].role \in {"user", "tool"}
    BY BehindKeeps
  <1> HIDE DEF l
  <1>5. \A i \in 1 .. l + 1 : i \in 1 .. l \/ i = l + 1
    BY <1>3
  <1>6. ToolsAnswer(u)
    BY <1>3, <1>4, <1>5 DEF ToolsAnswer
  <1>7. ASSUME m.role = "user"
        PROVE  Apart(u) /\ Open(u) /\ (Settled(q) => Settled(u))
    <2>1. Apart(u)
      BY <1>3, <1>4, <1>5, <1>7 DEF Apart
    <2>2. Open(u)
      BY <1>3, <1>7 DEF Open
    <2>3. Settled(q) => Settled(u)
      <3> DEFINE h == [i \in 1 .. l + 1 |-> i]
      <3>1. \A i \in 1 .. l + 1 : h[i] = i
        OBVIOUS
      <3> HIDE DEF h
      <3>2. \A i \in 1 .. l + 1 : OfModel(u[i]) => i \in 1 .. l /\ u[i] = q[i]
        BY <1>3, <1>5, <1>7 DEF OfModel
      <3>3. Carried(u, q, h)
        BY <1>3, <3>1, <3>2 DEF Carried
      <3>4. QED
        BY <3>3, CarriedSettles
    <2>4. QED
      BY <2>1, <2>2, <2>3
  <1>8. ASSUME m.role = "assistant", Open(q)
        PROVE  Apart(u)
    <2> SUFFICES ASSUME NEW i \in 1 .. l + 1, NEW j \in 1 .. l + 1, i < j,
                        u[i].role = "assistant", u[j].role = "assistant"
                 PROVE  \E k \in i + 1 .. j - 1 : u[k].role \in {"user", "tool"}
      BY <1>3 DEF Apart
    <2>1. i \in 1 .. l
      BY <1>3
    <2>2. CASE j \in 1 .. l
      BY <1>4, <2>1, <2>2
    <2>3. CASE j = l + 1
      <3>1. q[l].role \in {"user", "tool"}
        BY <1>3, <1>8, <2>1 DEF Open, l
      <3>2. l \in 1 .. l /\ u[l] = q[l]
        BY <1>3, <2>1
      <3>3. i # l
        BY <3>1, <3>2
      <3>4. l \in i + 1 .. j - 1
        BY <1>3, <2>1, <2>3, <3>3
      <3>5. QED
        BY <3>1, <3>2, <3>4
    <2>4. QED
      BY <1>5, <2>2, <2>3
  <1>9. QED
    BY <1>3, <1>5, <1>6, <1>7, <1>8 DEF Sound, l

\* Results behind the block they belong to.
LEMMA ResultsKeep ==
    ASSUME NEW q \in Seq(Message), NEW t \in Seq(Message), NEW u \in Seq(Message),
           IsJoined(u, q, t), Sound(q), NEW j, Block(q, j),
           \A i \in DOMAIN t : /\ t[i].role = "tool" /\ t[i].call \in q[j].calls
                               /\ t[i].named \/ q[j].of = 0
    PROVE  Sound(u) /\ Block(u, j) /\ u[j] = q[j] /\ (t # <<>> => Open(u))
  <1> DEFINE l == Len(q)
             n == Len(t)
  <1>1. /\ DOMAIN u = 1 .. l + n /\ DOMAIN q = 1 .. l /\ DOMAIN t = 1 .. n
        /\ l \in Nat /\ n \in Nat /\ Len(u) = l + n
        /\ \A i \in 1 .. l : u[i] = q[i]
        /\ \A i \in 1 .. n : u[l + i] = t[i]
        /\ \A i \in 1 .. l + n : i \in 1 .. l \/ (i - l \in 1 .. n /\ u[i] = t[i - l])
    BY JoinedFrom
  <1>2. /\ \A i \in 1 .. l : u[i].role = "tool" => \E k \in 1 .. i - 1 : Answers(u, k, i)
        /\ \A i, k \in 1 .. l :
             i < k /\ u[i].role = "assistant" /\ u[k].role = "assistant" =>
               \E h \in i + 1 .. k - 1 : u[h].role \in {"user", "tool"}
    BY BehindKeeps
  <1>3. /\ j \in 1 .. l /\ q[j].role = "assistant"
        /\ \A k \in j + 1 .. l : q[k].role = "tool"
    BY <1>1 DEF Block
  <1>4. t # <<>> => n \in 1 .. n
    BY <1>1
  <1> HIDE DEF l, n
  <1>5. u[j] = q[j]
    BY <1>1, <1>3
  <1>6. \A k \in j + 1 .. l + n : u[k].role = "tool"
    <2> SUFFICES ASSUME NEW k \in j + 1 .. l + n
                 PROVE  u[k].role = "tool"
      OBVIOUS
    <2>1. k \in 1 .. l + n
      BY <1>3
    <2>2. CASE k \in 1 .. l
      <3>1. k \in j + 1 .. l
        BY <1>1, <1>3, <2>2
      <3>2. QED
        BY <1>1, <1>3, <2>2, <3>1
    <2>3. CASE k - l \in 1 .. n /\ u[k] = t[k - l]
      BY <1>1, <2>3
    <2>4. QED
      BY <1>1, <2>1, <2>2, <2>3
  <1>7. Block(u, j)
    BY <1>1, <1>3, <1>5, <1>6 DEF Block
  <1>8. ToolsAnswer(u)
    <2> SUFFICES ASSUME NEW i \in 1 .. l + n, u[i].role = "tool"
                 PROVE  \E k \in 1 .. i - 1 : Answers(u, k, i)
      BY <1>1 DEF ToolsAnswer
    <2>1. CASE i \in 1 .. l
      BY <1>2, <2>1
    <2>2. CASE i - l \in 1 .. n /\ u[i] = t[i - l]
      <3>1. j \in 1 .. i - 1 /\ \A k \in j + 1 .. i : k \in j + 1 .. l + n
        BY <1>1, <1>3, <2>2
      <3>2. Answers(u, j, i)
        BY <1>1, <1>3, <1>5, <1>6, <2>2, <3>1 DEF Answers
      <3>3. QED
        BY <3>1, <3>2
    <2>3. QED
      BY <1>1, <2>1, <2>2
  <1>9. Apart(u)
    <2>1. \A k \in 1 .. l + n : u[k].role = "assistant" => k \in 1 .. l
      <3> SUFFICES ASSUME NEW k \in 1 .. l + n, k \notin 1 .. l
                   PROVE  u[k].role # "assistant"
        OBVIOUS
      <3>1. k \in j + 1 .. l + n
        BY <1>1, <1>3
      <3>2. QED
        BY <1>6, <3>1
    <2>2. QED
      BY <1>1, <1>2, <2>1 DEF Apart
  <1>10. ASSUME t # <<>>
         PROVE  Open(u)
    <2>1. n \in 1 .. n
      BY <1>4, <1>10
    <2>2. l + n \in j + 1 .. l + n
      BY <1>1, <1>3, <2>1
    <2>3. QED
      BY <1>1, <1>6, <2>2 DEF Open
  <1>11. QED
    BY <1>5, <1>7, <1>8, <1>9, <1>10 DEF Sound

\* The list without its first d messages, at a place where no result is cut
\* off from its answer.
LEMMA CutKeeps ==
    ASSUME NEW q \in Seq(Message), Sound(q), NEW d \in 0 .. Len(q),
           d = Len(q) \/ q[d + 1].role # "tool",
           NEW t \in Seq(Message), Len(t) = Len(q) - d,
           \A i \in 1 .. Len(t) : t[i] = q[d + i]
    PROVE  Sound(t) /\ (Open(q) => Open(t)) /\ (Settled(q) => Settled(t))
  <1> DEFINE l == Len(q)
             n == Len(t)
  <1>1. /\ DOMAIN q = 1 .. l /\ DOMAIN t = 1 .. n /\ l \in Nat /\ n \in Nat /\ d \in Nat
        /\ n = l - d /\ d <= l
        /\ \A i \in 1 .. n : t[i] = q[d + i]
    OBVIOUS
  <1>2. d = l \/ q[d + 1].role # "tool"
    OBVIOUS
  <1> HIDE DEF l, n
  <1>3. \A i \in 1 .. n : d + i \in 1 .. l /\ d < d + i
    BY <1>1
  <1>4. ToolsAnswer(t)
    <2> SUFFICES ASSUME NEW i \in 1 .. n, t[i].role = "tool"
                 PROVE  \E j \in 1 .. i - 1 : Answers(t, j, i)
      BY <1>1 DEF ToolsAnswer
    <2>1. PICK j \in 1 .. (d + i) - 1 : Answers(q, j, d + i)
      BY <1>1, <1>3 DEF Sound, ToolsAnswer
    <2>2. d < j
      <3> SUFFICES ASSUME j <= d
                   PROVE  FALSE
        BY <1>1
      <3>1. d + 1 \in j + 1 .. d + i /\ d # l
        BY <1>1, <1>3
      <3>2. QED
        BY <1>2, <2>1, <3>1 DEF Answers
    <2>3. j - d \in 1 .. i - 1 /\ j - d \in 1 .. n /\ d + (j - d) = j
      BY <1>1, <2>1, <2>2
    <2>4. t[j - d] = q[j]
      BY <1>1, <2>3
    <2>5. \A k \in (j - d) + 1 .. i : k \in 1 .. n /\ d + k \in j + 1 .. d + i
      BY <1>1, <2>2, <2>3
    <2>6. Answers(t, j - d, i)
      BY <1>1, <2>1, <2>4, <2>5 DEF Answers
    <2>7. QED
      BY <2>3, <2>6
  <1>5. Apart(t)
    <2> SUFFICES ASSUME NEW i \in 1 .. n, NEW j \in 1 .. n, i < j,
                        t[i].role = "assistant", t[j].role = "assistant"
                 PROVE  \E k \in i + 1 .. j - 1 : t[k].role \in {"user", "tool"}
      BY <1>1 DEF Apart
    <2>1. d + i < d + j
      BY <1>1
    <2>2. PICK k \in (d + i) + 1 .. (d + j) - 1 : q[k].role \in {"user", "tool"}
      BY <1>1, <1>3, <2>1 DEF Sound, Apart
    <2>3. k - d \in i + 1 .. j - 1 /\ k - d \in 1 .. n /\ d + (k - d) = k
      BY <1>1, <2>2
    <2>4. t[k - d] = q[k]
      BY <1>1, <2>3
    <2>5. QED
      BY <2>2, <2>3, <2>4
  <1>6. ASSUME Open(q)
        PROVE  Open(t)
    <2> SUFFICES ASSUME NEW i \in 1 .. n, t[i].role = "assistant"
                 PROVE  t[n].role \in {"user", "tool"}
      BY <1>1 DEF Open, n
    <2>1. q[l].role \in {"user", "tool"}
      BY <1>1, <1>3, <1>6 DEF Open, l
    <2>2. n \in 1 .. n /\ d + n = l
      BY <1>1
    <2>3. QED
      BY <1>1, <2>1, <2>2
  <1>7. Settled(q) => Settled(t)
    <2> DEFINE h == [i \in 1 .. n |-> d + i]
    <2>1. \A i \in 1 .. n : h[i] = d + i
      OBVIOUS
    <2> HIDE DEF h
    <2>2. \A i \in 1 .. n : h[i] \in 1 .. l /\ t[i] = q[h[i]]
      BY <1>1, <1>3, <2>1
    <2>3. ASSUME NEW i \in 1 .. n, NEW j \in 1 .. n
          PROVE  i < j <=> h[i] < h[j]
      <3>1. h[i] = d + i /\ h[j] = d + j
        BY <2>1
      <3>2. QED
        BY <1>1, <3>1
    <2>4. ASSUME NEW i \in 1 .. n, NEW k \in 1 .. l, h[i] < k
          PROVE  \E m \in 1 .. n : h[m] = k /\ t[m] = q[k]
      <3>1. h[i] = d + i
        BY <2>1
      <3>2. k - d \in 1 .. n /\ d + (k - d) = k
        BY <1>1, <2>4, <3>1
      <3>3. h[k - d] = k /\ t[k - d] = q[k]
        BY <2>1, <2>2, <3>2
      <3>4. QED
        BY <3>2, <3>3
    <2>5. Carried(t, q, h)
      BY <1>1, <2>2, <2>3, <2>4 DEF Carried
    <2>6. QED
      BY <2>5, CarriedSettles
  <1>8. QED
    BY <1>4, <1>5, <1>6, <1>7 DEF Sound

----------------------------------------------------------------------------
(* Sieving *)

\* f goes through the list.
Sieves(f, q, b) ==
    /\ f \in [0 .. Len(q) -> Seq(Message)] /\ f[0] = <<>>
    /\ \A i \in 1 .. Len(q) :
         f[i] = IF (q[i].role = "system") = b THEN Append(f[i - 1], q[i]) ELSE f[i - 1]

\* Sieve is the last value of a function that does.
LEMMA SieveIterates ==
    ASSUME NEW q \in Seq(Message), NEW b
    PROVE  \E f : Sieves(f, q, b) /\ Sieve(q, b) = f[Len(q)]
  <1> DEFINE n == Len(q)
             A == Seq(Message)
             e == <<>>
             Next1(i, x) == IF (q[i].role = "system") = b THEN Append(x, q[i]) ELSE x
             Solves(g) == g = [i \in 0 .. n |-> IF i = 0 THEN e ELSE Next1(i, g[i - 1])]
             G == [i \in 1 .. n |-> [x \in A |-> Next1(i, x)]]
  <1>1. n \in Nat /\ e \in A
    OBVIOUS
  <1>2. \A i \in 1 .. n, x \in A : Next1(i, x) \in A
    OBVIOUS
  <1>3. Sieve(q, b) = (CHOOSE g : Solves(g))[n]
    BY DEF Sieve
  <1> HIDE DEF n, A, e, Next1
  <1>4. PICK f : Iterated(f, n, A, e, G)
    <2>1. G \in [1 .. n -> [A -> A]]
      BY <1>2
    <2> HIDE DEF G
    <2>2. QED
      BY <1>1, <2>1, Iterates
  <1>5. \A i \in 0 .. n : i = 0 \/ (i \in 1 .. n /\ i - 1 \in 0 .. n)
    BY <1>1
  <1>6. \A i \in 1 .. n : f[i] = Next1(i, f[i - 1])
    <2> USE DEF Iterated
    <2> SUFFICES ASSUME NEW i \in 1 .. n
                 PROVE  f[i] = Next1(i, f[i - 1])
      OBVIOUS
    <2>1. i - 1 \in 0 .. n
      BY <1>1
    <2>2. f[i] = G[i][f[i - 1]] /\ f[i - 1] \in A
      BY <1>4, <2>1
    <2>3. QED
      BY <2>2
  <1>7. Solves(f)
    BY <1>1, <1>4, <1>5, <1>6 DEF Iterated
  <1> DEFINE c == CHOOSE g : Solves(g)
  <1>8. Solves(c)
    <2> HIDE DEF Solves
    <2>1. QED
      BY <1>7, Zenon
  <1> HIDE DEF c
  <1>9. c[0] = e /\ \A i \in 1 .. n : c[i] = Next1(i, c[i - 1])
    BY <1>1, <1>8
  <1> DEFINE T == {i \in 0 .. n : c[i] = f[i]}
  <1>10. n \in T
    <2>1. 0 \in T
      BY <1>1, <1>4, <1>9 DEF Iterated
    <2>2. \A i \in 1 .. n : i - 1 \in T => i \in T
      BY <1>1, <1>6, <1>9
    <2> HIDE DEF T
    <2>3. 0 .. n \subseteq T
      BY <1>1, <2>1, <2>2, UpTo
    <2>4. QED
      BY <1>1, <2>3
  <1>11. Sieve(q, b) = f[n]
    BY <1>3, <1>10 DEF c
  <1>12. QED
    BY <1>4, <1>6, <1>11 DEF Iterated, Sieves, n, A, e, Next1

\* The messages of p are those of the first n of q that are the system's, or
\* that are not; h says where they stand.
Thinned(p, q, n, b, h) ==
    /\ p \in Seq(Message) /\ h \in [1 .. Len(p) -> 1 .. n]
    /\ \A i \in 1 .. Len(p) : p[i] = q[h[i]] /\ (q[h[i]].role = "system") = b
    /\ \A i, j \in 1 .. Len(p) : i < j => h[i] < h[j]
    /\ \A k \in 1 .. n : (q[k].role = "system") = b => \E i \in 1 .. Len(p) : h[i] = k

\* One more message is looked at.
LEMMA ThinnedOn ==
    ASSUME NEW q \in Seq(Message), NEW n \in Nat, n + 1 <= Len(q), NEW b,
           NEW p, NEW h, Thinned(p, q, n, b, h)
    PROVE  /\ (q[n + 1].role = "system") = b =>
                \E g : Thinned(Append(p, q[n + 1]), q, n + 1, b, g)
           /\ (q[n + 1].role = "system") # b => Thinned(p, q, n + 1, b, h)
  <1> DEFINE l == Len(p)
             e == q[n + 1]
             u == Append(p, e)
             g == [i \in 1 .. l + 1 |-> IF i = l + 1 THEN n + 1 ELSE h[i]]
  <1>1. /\ p \in Seq(Message) /\ h \in [1 .. l -> 1 .. n] /\ l \in Nat
        /\ \A i \in 1 .. l : p[i] = q[h[i]] /\ (q[h[i]].role = "system") = b
        /\ \A i, j \in 1 .. l : i < j => h[i] < h[j]
        /\ \A k \in 1 .. n : (q[k].role = "system") = b => \E i \in 1 .. l : h[i] = k
    BY DEF Thinned
  <1>2. e \in Message
    OBVIOUS
  <1>3. u \in Seq(Message) /\ Len(u) = l + 1 /\ u[l + 1] = e /\ \A i \in 1 .. l : u[i] = p[i]
    BY <1>1, <1>2
  <1>4. g \in [1 .. l + 1 -> 1 .. n + 1] /\ g[l + 1] = n + 1 /\ \A i \in 1 .. l : g[i] = h[i]
    BY <1>1
  <1>5. \A i \in 1 .. l + 1 : i \in 1 .. l \/ i = l + 1
    BY <1>1
  <1>6. \A k \in 1 .. n + 1 : k \in 1 .. n \/ k = n + 1
    OBVIOUS
  <1>7. \A i \in 1 .. l : h[i] \in 1 .. n /\ h[i] < n + 1 /\ i < l + 1 /\ ~(l + 1 < i)
    BY <1>1
  <1>8. ~(l + 1 < l + 1) /\ l + 1 \in 1 .. l + 1 /\ \A i \in 1 .. l : i \in 1 .. l + 1
    BY <1>1
  <1>9. ASSUME (e.role = "system") = b
        PROVE  Thinned(u, q, n + 1, b, g)
    <2> HIDE DEF l, u, g
    <2>1. \A i \in 1 .. l + 1 : u[i] = q[g[i]] /\ (q[g[i]].role = "system") = b
      BY <1>1, <1>3, <1>4, <1>5, <1>9
    <2>2. \A i, j \in 1 .. l + 1 : i < j => g[i] < g[j]
      BY <1>1, <1>4, <1>5, <1>7, <1>8
    <2>3. \A k \in 1 .. n + 1 : (q[k].role = "system") = b => \E i \in 1 .. l + 1 : g[i] = k
      BY <1>1, <1>4, <1>6, <1>8
    <2>4. QED
      BY <1>3, <1>4, <2>1, <2>2, <2>3 DEF Thinned
  <1>10. ASSUME (e.role = "system") # b
         PROVE  Thinned(p, q, n + 1, b, h)
    <2> HIDE DEF l, u, g
    <2>1. h \in [1 .. l -> 1 .. n + 1]
      BY <1>1
    <2>2. \A k \in 1 .. n + 1 : (q[k].role = "system") = b => \E i \in 1 .. l : h[i] = k
      BY <1>1, <1>6, <1>10
    <2>3. QED
      BY <1>1, <2>1, <2>2 DEF Thinned, l
  <1> HIDE DEF g
  <1>11. QED
    BY <1>9, <1>10

\* What Sieve leaves.
LEMMA SieveIs ==
    ASSUME NEW q \in Seq(Message), NEW b
    PROVE  \E h : Thinned(Sieve(q, b), q, Len(q), b, h)
  <1> DEFINE n == Len(q)
  <1>1. n \in Nat
    OBVIOUS
  <1> PICK f : Sieves(f, q, b) /\ Sieve(q, b) = f[n]
    BY SieveIterates
  <1>2. /\ f[0] = <<>> /\ Sieve(q, b) = f[n]
        /\ \A i \in 1 .. n :
             f[i] = IF (q[i].role = "system") = b THEN Append(f[i - 1], q[i]) ELSE f[i - 1]
    BY DEF Sieves
  <1> DEFINE T == {i \in 0 .. n : \E h : Thinned(f[i], q, i, b, h)}
  <1>3. 0 \in T
    <2> DEFINE e == [i \in 1 .. 0 |-> 0]
    <2>1. Len(<<>>) = 0 /\ <<>> \in Seq(Message) /\ 1 .. 0 = {}
      OBVIOUS
    <2>2. e \in [1 .. 0 -> 1 .. 0]
      BY <2>1
    <2> HIDE DEF e
    <2>3. Thinned(<<>>, q, 0, b, e)
      BY <2>1, <2>2 DEF Thinned
    <2>4. QED
      BY <1>1, <1>2, <2>3
  <1>4. ASSUME NEW i \in 1 .. n, i - 1 \in T
        PROVE  i \in T
    <2> DEFINE m == i - 1
    <2>1. m \in Nat /\ m + 1 = i /\ m + 1 <= n
      BY <1>1
    <2>2. PICK h : Thinned(f[m], q, m, b, h)
      BY <1>4
    <2> HIDE DEF m
    <2>3. /\ (q[m + 1].role = "system") = b =>
               \E g : Thinned(Append(f[m], q[m + 1]), q, m + 1, b, g)
          /\ (q[m + 1].role = "system") # b => Thinned(f[m], q, m + 1, b, h)
      BY <2>1, <2>2, ThinnedOn
    <2>4. f[i] = IF (q[i].role = "system") = b THEN Append(f[m], q[i]) ELSE f[m]
      BY <1>2 DEF m
    <2>5. \E g : Thinned(f[i], q, i, b, g)
      BY <2>1, <2>3, <2>4
    <2>6. i \in 0 .. n
      BY <1>1
    <2>7. QED
      BY <2>5, <2>6
  <1>5. n \in T
    <2> HIDE DEF T, n
    <2>1. 0 .. n \subseteq T
      BY <1>1, <1>3, <1>4, UpTo
    <2>2. QED
      BY <1>1, <2>1
  <1>6. QED
    BY <1>2, <1>5

\* Without the messages of the system.
LEMMA ThinKeeps ==
    ASSUME NEW q \in Seq(Message), Sound(q), NEW p, NEW h, Thinned(p, q, Len(q), FALSE, h)
    PROVE  Sound(p) /\ (Open(q) => Open(p)) /\ (Settled(q) => Settled(p))
  <1> DEFINE l == Len(p)
             n == Len(q)
  <1>1. /\ p \in Seq(Message) /\ DOMAIN p = 1 .. l /\ l \in Nat
        /\ DOMAIN q = 1 .. n /\ n \in Nat
        /\ \A i \in 1 .. l : h[i] \in 1 .. n /\ p[i] = q[h[i]]
        /\ \A i, j \in 1 .. l : i < j => h[i] < h[j]
        /\ \A k \in 1 .. n : q[k].role # "system" => \E i \in 1 .. l : h[i] = k
    BY DEF Thinned
  <1> HIDE DEF l, n
  <1>2. \A i, j \in 1 .. l : h[i] < h[j] => i < j
    <2> SUFFICES ASSUME NEW i \in 1 .. l, NEW j \in 1 .. l, h[i] < h[j], ~(i < j)
                 PROVE  FALSE
      OBVIOUS
    <2>1. i = j \/ j < i
      OBVIOUS
    <2>2. h[i] \in Nat /\ h[j] \in Nat
      BY <1>1
    <2>3. QED
      BY <1>1, <2>1, <2>2
  <1>3. ToolsAnswer(p)
    <2> SUFFICES ASSUME NEW i \in 1 .. l, p[i].role = "tool"
                 PROVE  \E j \in 1 .. i - 1 : Answers(p, j, i)
      BY <1>1 DEF ToolsAnswer
    <2>1. PICK k \in 1 .. h[i] - 1 : Answers(q, k, h[i])
      BY <1>1 DEF Sound, ToolsAnswer
    <2>2. k \in 1 .. n /\ k < h[i]
      BY <1>1
    <2>3. PICK j \in 1 .. l : h[j] = k
      BY <1>1, <2>1, <2>2 DEF Answers
    <2>4. j \in 1 .. i - 1
      BY <1>2, <2>2, <2>3
    <2>5. \A x \in j + 1 .. i : x \in 1 .. l /\ (x = i \/ x < i) /\ j < x
      BY <1>1, <2>3
    <2>6. \A x \in j + 1 .. i : h[x] \in k + 1 .. h[i]
      <3> SUFFICES ASSUME NEW x \in j + 1 .. i
                   PROVE  h[x] \in k + 1 .. h[i]
        OBVIOUS
      <3>1. x \in 1 .. l /\ (x = i \/ x < i) /\ j < x
        BY <2>5
      <3>2. h[j] < h[x] /\ (h[x] = h[i] \/ h[x] < h[i]) /\ h[x] \in 1 .. n /\ h[i] \in 1 .. n
        BY <1>1, <3>1
      <3>3. QED
        BY <1>1, <2>2, <2>3, <3>2
    <2>7. Answers(p, j, i)
      <3>1. p[j] = q[k] /\ p[i] = q[h[i]]
        BY <1>1, <2>3
      <3>2. \A x \in j + 1 .. i : p[x] = q[h[x]]
        BY <1>1, <2>5
      <3>3. \A x \in j + 1 .. i : p[x].role = "tool"
        BY <2>1, <2>6, <3>2 DEF Answers
      <3>4. QED
        BY <2>1, <3>1, <3>3 DEF Answers
    <2>8. QED
      BY <2>4, <2>7
  <1>4. Apart(p)
    <2> SUFFICES ASSUME NEW i \in 1 .. l, NEW j \in 1 .. l, i < j,
                        p[i].role = "assistant", p[j].role = "assistant"
                 PROVE  \E k \in i + 1 .. j - 1 : p[k].role \in {"user", "tool"}
      BY <1>1 DEF Apart
    <2>1. PICK k \in h[i] + 1 .. h[j] - 1 : q[k].role \in {"user", "tool"}
      BY <1>1 DEF Sound, Apart
    <2>2. k \in 1 .. n /\ h[i] < k /\ k < h[j]
      BY <1>1
    <2>3. PICK x \in 1 .. l : h[x] = k
      BY <1>1, <2>1, <2>2
    <2>4. x \in i + 1 .. j - 1
      <3>1. i < x /\ x < j
        BY <1>2, <2>2, <2>3
      <3>2. QED
        BY <1>1, <3>1
    <2>5. QED
      BY <1>1, <2>1, <2>3, <2>4
  <1>5. ASSUME Open(q)
        PROVE  Open(p)
    <2> SUFFICES ASSUME NEW i \in 1 .. l, p[i].role = "assistant"
                 PROVE  p[l].role \in {"user", "tool"}
      BY <1>1 DEF Open, l
    <2>1. q[n].role \in {"user", "tool"}
      BY <1>1, <1>5 DEF Open, n
    <2>2. n \in 1 .. n
      BY <1>1
    <2>3. PICK x \in 1 .. l : h[x] = n
      BY <1>1, <2>1, <2>2
    <2>4. l \in 1 .. l /\ h[l] \in 1 .. n
      BY <1>1
    <2>5. x = l
      <3>1. ~(x < l)
        BY <1>1, <2>3, <2>4
      <3>2. QED
        BY <1>1, <2>3, <3>1
    <2>6. QED
      BY <1>1, <2>1, <2>3, <2>5
  <1>6. Settled(q) => Settled(p)
    <2>1. \A k \in 1 .. n : OfModel(q[k]) => \E i \in 1 .. l : h[i] = k /\ p[i] = q[k]
      BY <1>1 DEF OfModel
    <2>2. \A i, j \in 1 .. l : i < j <=> h[i] < h[j]
      BY <1>1, <1>2
    <2>3. Carried(p, q, h)
      BY <1>1, <2>1, <2>2 DEF Carried
    <2>4. QED
      BY <1>1, <2>3, CarriedSettles
  <1>7. QED
    BY <1>3, <1>4, <1>5, <1>6 DEF Sound

----------------------------------------------------------------------------
(* Trimming *)

\* No result is cut off from its answer behind the first k messages of q.
Clean(q, k) == k = Len(q) \/ q[k + 1].role # "tool"

\* The results that follow the first k messages are passed.
LEMMA PastToolsIs ==
    ASSUME NEW q \in Seq(Message), NEW k \in 0 .. Len(q)
    PROVE  PastTools(q, k) \in k .. Len(q) /\ Clean(q, PastTools(q, k))
  <1> DEFINE n == Len(q)
             I == {i \in k + 1 .. n : q[i].role # "tool"}
  <1>1. n \in Nat /\ k \in Nat /\ k <= n /\ I \subseteq Nat /\ I \subseteq k + 1 .. n
    OBVIOUS
  <1>2. SelectInSubSeq(q, k + 1, n, LAMBDA m : m.role # "tool") = IF I # {} THEN Min(I) ELSE 0
    BY DEF SelectInSubSeq
  <1> HIDE DEF I
  <1>3. CASE I = {}
    <2>1. PastTools(q, k) = n
      BY <1>2, <1>3 DEF PastTools
    <2>2. QED
      BY <1>1, <2>1 DEF Clean
  <1>4. CASE I # {}
    <2>1. Min(I) \in I
      BY <1>1, <1>4, MinOfNaturals
    <2>2. Min(I) \in k + 1 .. n /\ q[Min(I)].role # "tool"
      BY <2>1 DEF I
    <2>3. PastTools(q, k) = Min(I) - 1
      <3>1. Min(I) # 0
        BY <1>1, <2>2
      <3>2. QED
        BY <1>2, <1>4, <3>1 DEF PastTools
    <2> HIDE DEF n
    <2>4. PastTools(q, k) \in k .. n /\ PastTools(q, k) + 1 = Min(I)
      BY <1>1, <2>2, <2>3
    <2>5. QED
      BY <2>2, <2>4 DEF Clean, n
  <1>5. QED
    BY <1>3, <1>4

\* Where Dropped may stop: two messages are left, or what is left fits.
Fits(q, fixed, k) ==
    Len(q) - k <= 2 \/ Tokens(SubSeq(q, k + 1, Len(q))) + fixed <= Budget

\* What is removed next.
After(q, k) ==
    IF q[k + 1].role = "assistant" /\ q[k + 1].calls # {} THEN PastTools(q, k + 1) ELSE k + 1

\* A message that is no result, and what goes with it.
LEMMA AfterIsClean ==
    ASSUME NEW q \in Seq(Message), Sound(q), NEW k \in 0 .. Len(q), k + 1 <= Len(q)
    PROVE  After(q, k) \in k + 1 .. Len(q) /\ (Clean(q, k) => Clean(q, After(q, k)))
  <1> DEFINE n == Len(q)
  <1>1. n \in Nat /\ DOMAIN q = 1 .. n /\ k \in Nat /\ k + 1 <= n /\ k + 1 \in 0 .. n
    OBVIOUS
  <1>2. CASE q[k + 1].role = "assistant" /\ q[k + 1].calls # {}
    BY <1>1, <1>2, PastToolsIs DEF After
  <1>3. CASE ~(q[k + 1].role = "assistant" /\ q[k + 1].calls # {})
    <2>1. After(q, k) = k + 1
      BY <1>3 DEF After
    <2>2. ASSUME Clean(q, k), ~Clean(q, k + 1)
          PROVE  FALSE
      <3> HIDE DEF n
      <3>1. q[k + 1].role # "tool" /\ k + 1 # n /\ q[(k + 1) + 1].role = "tool"
        <4>1. k # n
          BY <1>1
        <4>2. q[k + 1].role # "tool"
          BY <2>2, <4>1 DEF Clean, n
        <4>3. k + 1 # n /\ q[(k + 1) + 1].role = "tool"
          BY <2>2 DEF Clean, n
        <4>4. QED
          BY <4>2, <4>3
      <3> DEFINE i == (k + 1) + 1
      <3>2. i \in 1 .. n /\ i - 1 = k + 1
        BY <1>1, <3>1
      <3>3. PICK j \in 1 .. i - 1 : Answers(q, j, i)
        BY <1>1, <3>1, <3>2 DEF Sound, ToolsAnswer
      <3> HIDE DEF i
      <3>4. CASE j = k + 1
        BY <1>3, <3>3, <3>4 DEF Answers
      <3>5. CASE j # k + 1
        <4>1. k + 1 \in j + 1 .. i
          BY <1>1, <3>2, <3>3, <3>5
        <4>2. QED
          BY <3>1, <3>3, <4>1 DEF Answers
      <3>6. QED
        BY <3>4, <3>5
    <2>3. QED
      BY <1>1, <2>1, <2>2
  <1>4. QED
    BY <1>2, <1>3

\* Trimming stops where it may, and never between an answer and its results.
LEMMA DroppedIs ==
    ASSUME NEW q \in Seq(Message), Sound(q), NEW fixed
    PROVE  /\ Dropped(q, fixed) \in 0 .. Len(q) /\ Clean(q, Dropped(q, fixed))
           /\ Fits(q, fixed, Dropped(q, fixed))
  <1> DEFINE n == Len(q)
             Solves(f) == f = [k \in 0 .. n |-> IF Fits(q, fixed, k) THEN k ELSE f[After(q, k)]]
             stop == {k \in 0 .. n : Fits(q, fixed, k)}
             nxt == [k \in 0 .. n |-> IF k \in stop THEN k ELSE After(q, k)]
             c == CHOOSE f : Solves(f)
  <1>1. n \in Nat /\ n = Len(q) /\ 0 \in 0 .. n
    OBVIOUS
  <1>2. Dropped(q, fixed) = c[PastTools(q, 0)]
    BY DEF Dropped, Fits, After
  <1>3. \A k \in 0 .. n : k \in stop \/ k + 1 <= n
    BY DEF Fits
  <1>4. \A k \in 0 .. n : k \in stop \/ (/\ After(q, k) \in k + 1 .. n
                                         /\ Clean(q, k) => Clean(q, After(q, k)))
    BY <1>3, AfterIsClean
  <1> HIDE DEF n
  <1>5. nxt \in [0 .. n -> 0 .. n] /\ \A k \in 0 .. n : k \in stop \/ k < nxt[k]
    BY <1>1, <1>4
  <1>6. PICK f : Follows(f, 0, n, stop, nxt)
    <2> HIDE DEF stop, nxt
    <2>1. QED
      BY <1>1, <1>5, Jumps
  <1>7. f \in [0 .. n -> 0 .. n] /\
        \A k \in 0 .. n : f[k] = IF Fits(q, fixed, k) THEN k ELSE f[After(q, k)]
    BY <1>6 DEF Follows
  <1>8. Solves(f)
    BY <1>7
  <1>9. Solves(c)
    <2> HIDE DEF Solves
    <2>1. QED
      BY <1>8, Zenon
  <1> HIDE DEF c
  <1>10. \A k \in 0 .. n : c[k] = IF Fits(q, fixed, k) THEN k ELSE c[After(q, k)]
    BY <1>9
  <1> DEFINE Good(k) == c[k] \in 0 .. n /\ Fits(q, fixed, c[k]) /\ (Clean(q, k) => Clean(q, c[k]))
             bad == {k \in 0 .. n : ~Good(k)}
  <1>11. bad = {}
    <2> SUFFICES ASSUME bad # {}
                 PROVE  FALSE
      OBVIOUS
    <2>1. bad \subseteq Nat /\ \A k \in bad : k <= n
      BY <1>1
    <2>2. PICK k \in bad : \A x \in bad : x <= k
      <3> HIDE DEF bad
      <3>1. QED
        BY <1>1, <2>1, MaxOfBounded
    <2>3. k \in 0 .. n /\ ~Fits(q, fixed, k)
      BY <1>10, <2>2
    <2>4. After(q, k) \in k + 1 .. n /\ (Clean(q, k) => Clean(q, After(q, k)))
      BY <1>4, <2>3
    <2>5. After(q, k) \in 0 .. n /\ After(q, k) \notin bad
      BY <1>1, <2>2, <2>3, <2>4
    <2>6. c[k] = c[After(q, k)]
      BY <1>10, <2>3
    <2>7. Good(k)
      BY <2>4, <2>5, <2>6
    <2>8. QED
      BY <2>2, <2>7
  <1>12. PastTools(q, 0) \in 0 .. n /\ Clean(q, PastTools(q, 0))
    BY <1>1, PastToolsIs
  <1>13. Good(PastTools(q, 0))
    BY <1>11, <1>12
  <1>14. QED
    BY <1>1, <1>2, <1>12, <1>13

----------------------------------------------------------------------------
(* The operations of AgentState *)

\* The function of every call is known, unless the answer was seeded.
Known(q, names) ==
    \A i \in DOMAIN q : q[i].role = "assistant" => q[i].of = 0 \/ q[i].calls \subseteq names

\* Only a message of the system is marked as an instruction.
Marked(q, r) ==
    \A i \in DOMAIN r : r[i] = "SystemInstruction" => i \in DOMAIN q /\ q[i].role = "system"

Unmarked(x) == \A i \in DOMAIN x : x[i] # "SystemInstruction"

Good(s) ==
    /\ s \in States
    /\ Sound(s.messages)
    /\ Known(s.messages, s.names)
    /\ Marked(s.messages, s.sources)

Made(q, r, names) == [messages |-> q, sources |-> r, names |-> names]

\* A state is its three parts.
LEMMA MadeOf ==
    ASSUME NEW s \in States
    PROVE  /\ s.messages \in Seq(Message) /\ s.sources \in Seq(Sources) /\ s.names \subseteq CallIds
           /\ s = Made(s.messages, s.sources, s.names)
  BY DEF States, Made

\* What a state must be made of.
LEMMA MadeGood ==
    ASSUME NEW q \in Seq(Message), NEW r \in Seq(Sources), NEW names \in SUBSET CallIds,
           Sound(q), Known(q, names), Marked(q, r)
    PROVE  /\ Good(Made(q, r, names))
           /\ Made(q, r, names).messages = q /\ Made(q, r, names).sources = r
           /\ Made(q, r, names).names = names
  BY DEF Good, Made, States

\* More messages and sources behind.
LEMMA BehindMarked ==
    ASSUME NEW q \in Seq(Message), NEW t \in Seq(Message), NEW u \in Seq(Message),
           NEW r \in Seq(Sources), NEW x \in Seq(Sources), NEW w \in Seq(Sources),
           NEW names, NEW more, names \subseteq more,
           IsJoined(u, q, t), IsJoined(w, r, x), Known(q, names), Known(t, more), Marked(q, r),
           Unmarked(x)
    PROVE  Known(u, more) /\ Marked(u, w)
  <1>1. /\ \A i \in DOMAIN q : i \in DOMAIN u /\ u[i] = q[i]
        /\ \A i \in DOMAIN u : i \in DOMAIN q \/ (i - Len(q) \in DOMAIN t /\ u[i] = t[i - Len(q)])
    BY JoinedFrom
  <1>2. /\ \A i \in DOMAIN r : i \in DOMAIN w /\ w[i] = r[i]
        /\ \A i \in DOMAIN w : i \in DOMAIN r \/ (i - Len(r) \in DOMAIN x /\ w[i] = x[i - Len(r)])
    BY JoinedFrom
  <1>3. Known(u, more)
    <2> SUFFICES ASSUME NEW i \in DOMAIN u, u[i].role = "assistant"
                 PROVE  u[i].of = 0 \/ u[i].calls \subseteq more
      BY DEF Known
    <2>1. CASE i \in DOMAIN q
      BY <1>1, <2>1 DEF Known
    <2>2. CASE i - Len(q) \in DOMAIN t /\ u[i] = t[i - Len(q)]
      BY <2>2 DEF Known
    <2>3. QED
      BY <1>1, <2>1, <2>2
  <1>4. Marked(u, w)
    <2> SUFFICES ASSUME NEW i \in DOMAIN w, w[i] = "SystemInstruction"
                 PROVE  i \in DOMAIN u /\ u[i].role = "system"
      BY DEF Marked
    <2>1. i \in DOMAIN r
      BY <1>2 DEF Unmarked
    <2>2. QED
      BY <1>1, <1>2, <2>1 DEF Marked
  <1>5. QED
    BY <1>3, <1>4

Msg(role, n, calls, call, named, size) ==
    [role |-> role, of |-> n, calls |-> calls, call |-> call, named |-> named, size |-> size]

\* The messages that are pushed, field by field: one of the user.
LEMMA PlainIs ==
    ASSUME NEW role, NEW n
    PROVE  Plain(role, n) = Msg(role, n, {}, NoCall, FALSE, 1)
  BY DEF Plain, Msg

\* An answer of the model.
LEMMA CallingIs ==
    ASSUME NEW role, NEW n, NEW calls
    PROVE  [Plain(role, n) EXCEPT !.calls = calls] = Msg(role, n, calls, NoCall, FALSE, 1)
  <1> DEFINE no == FALSE
  <1>1. Plain(role, n) = Msg(role, n, {}, NoCall, no, 1)
    BY PlainIs
  <1> HIDE DEF no
  <1>2. [Msg(role, n, {}, NoCall, no, 1) EXCEPT !.calls = calls]
          = Msg(role, n, calls, NoCall, no, 1)
    BY DEF Msg
  <1>3. [Plain(role, n) EXCEPT !.calls = calls] = Msg(role, n, calls, NoCall, no, 1)
    BY <1>1, <1>2
  <1>4. QED
    BY <1>3, Zenon DEF no

\* A result of a tool.
LEMMA ResultFields ==
    ASSUME NEW s, NEW n, NEW c, NEW size
    PROVE  ToolResult(s, n, c, size) = Msg("tool", n, {}, c, c \in s.names, size)
  <1> DEFINE no == FALSE
             b  == c \in s.names
  <1>1. Plain("tool", n) = Msg("tool", n, {}, NoCall, no, 1)
    BY PlainIs
  <1>2. ToolResult(s, n, c, size)
          = [[[Plain("tool", n) EXCEPT !.call = c] EXCEPT !.size = size] EXCEPT !.named = b]
    BY DEF ToolResult
  <1> HIDE DEF no, b
  <1>3. [Msg("tool", n, {}, NoCall, no, 1) EXCEPT !.call = c] = Msg("tool", n, {}, c, no, 1)
    BY DEF Msg
  <1>4. [Msg("tool", n, {}, c, no, 1) EXCEPT !.size = size] = Msg("tool", n, {}, c, no, size)
    BY DEF Msg
  <1>5. [Msg("tool", n, {}, c, no, size) EXCEPT !.named = b] = Msg("tool", n, {}, c, b, size)
    BY DEF Msg
  <1>6. ToolResult(s, n, c, size) = Msg("tool", n, {}, c, b, size)
    BY <1>1, <1>2, <1>3, <1>4, <1>5
  <1>7. QED
    BY <1>6, Zenon DEF b

\* m and its source are pushed, and names are known.
IsPushed(u, s, m, source, names) ==
    u = Made(Append(s.messages, m), Append(s.sources, source), names)

\* A message of the user may follow any list, an answer one that is open.
MayFollow(s, m, names) ==
    \/ m.role = "user"
    \/ m.role = "assistant" /\ m.calls \subseteq names /\ Open(s.messages)

\* One message and its source are pushed.
LEMMA PushKeeps ==
    ASSUME NEW s, Good(s), NEW m \in Message, NEW source \in Sources \ {"SystemInstruction"},
           NEW names \in SUBSET CallIds, s.names \subseteq names,
           MayFollow(s, m, names), NEW u, IsPushed(u, s, m, source, names)
    PROVE  /\ Good(u)
           /\ m.role = "user" => Open(u.messages) /\ (Settled(s.messages) => Settled(u.messages))
           /\ m.role = "assistant" => Block(u.messages, Len(u.messages))
           /\ u.messages[Len(u.messages)] = m /\ u.names = names
  <1> DEFINE q == s.messages
             r == s.sources
             t == <<m>>
             x == <<source>>
             v == Append(q, m)
             w == Append(r, source)
  <1>1. q \in Seq(Message) /\ r \in Seq(Sources) /\ Sound(q) /\ Known(q, s.names) /\ Marked(q, r)
    BY MadeOf DEF Good
  <1>2. t \in Seq(Message) /\ x \in Seq(Sources) /\ IsOne(t, m) /\ IsOne(x, source)
    BY DEF IsOne
  <1>3. v \in Seq(Message) /\ IsJoined(v, q, t)
    <2> HIDE DEF q
    <2>1. QED
      BY <1>1 DEF IsJoined
  <1>4. w \in Seq(Sources) /\ IsJoined(w, r, x)
    <2> HIDE DEF r
    <2>1. QED
      BY <1>1 DEF IsJoined
  <1>5. Known(t, names) /\ Unmarked(x)
    <2>1. \A i \in DOMAIN t : t[i] = m
      BY DEF t
    <2>2. \A i \in DOMAIN x : x[i] = source
      BY DEF x
    <2> HIDE DEF t, x
    <2>3. m.role = "assistant" => m.calls \subseteq names
      BY DEF MayFollow
    <2>4. QED
      BY <2>1, <2>2, <2>3 DEF Known, Unmarked
  <1>6. u = Made(v, w, names)
    BY DEF IsPushed
  <1> USE DEF MayFollow
  <1> HIDE DEF q, r, t, x, v, w
  <1>7. Open(s.messages) => Open(q)
    BY DEF q
  <1>8. m.role # "tool"
    OBVIOUS
  <1>9. /\ Sound(v) /\ (m.role = "user" => Open(v) /\ (Settled(q) => Settled(v)))
        /\ DOMAIN v = 1 .. Len(v) /\ Len(v) \in DOMAIN v /\ v[Len(v)] = m
    <2>1. /\ m.role = "assistant" /\ Open(q) => Sound(v)
          /\ m.role = "user" => Sound(v) /\ Open(v) /\ (Settled(q) => Settled(v))
          /\ Len(v) = Len(q) + 1 /\ DOMAIN v = 1 .. Len(v) /\ v[Len(v)] = m
      BY <1>1, <1>2, <1>3, <1>8, OneMore
    <2>2. Len(q) \in Nat
      BY <1>1
    <2>3. Sound(v) /\ (m.role = "user" => Open(v) /\ (Settled(q) => Settled(v)))
      BY <1>7, <2>1
    <2>4. Len(v) \in DOMAIN v
      BY <2>1, <2>2
    <2>5. QED
      BY <2>1, <2>3, <2>4
  <1>10. Known(v, names) /\ Marked(v, w)
    BY <1>1, <1>2, <1>3, <1>4, <1>5, BehindMarked
  <1>11. Good(u) /\ u.messages = v /\ u.names = names
    BY <1>3, <1>4, <1>6, <1>9, <1>10, MadeGood
  <1>12. m.role = "assistant" => Block(v, Len(v))
    BY <1>9 DEF Block
  <1>13. QED
    BY <1>9, <1>11, <1>12 DEF q

\* The operations that push.
LEMMA PushedIs ==
    ASSUME NEW s, Good(s), NEW n, NEW calls, NEW m, NEW source
    PROVE  /\ Pushed(s, m, source) = Made(Append(s.messages, m), Append(s.sources, source), s.names)
           /\ PushAssistant(s, n, calls)
                = Made(Append(s.messages, Msg("assistant", n, calls, NoCall, FALSE, 1)),
                       Append(s.sources, "AssistantOutput"), s.names \cup calls)
  <1> DEFINE q == s.messages
             r == s.sources
             a == s.names
  <1>1. s = Made(q, r, a)
    BY MadeOf DEF Good
  <1>2. \A p, e : Pushed(s, p, e)
                     = [s EXCEPT !.messages = Append(q, p), !.sources = Append(r, e)]
    BY DEF Pushed
  <1> HIDE DEF q, r, a
  <1>3. ASSUME NEW p, NEW e
        PROVE  Pushed(s, p, e) = Made(Append(q, p), Append(r, e), a)
    <2> DEFINE v == Append(q, p)
               w == Append(r, e)
    <2>1. Pushed(s, p, e) = [Made(q, r, a) EXCEPT !.messages = v, !.sources = w]
      BY <1>1, <1>2
    <2> HIDE DEF v, w
    <2>2. [Made(q, r, a) EXCEPT !.messages = v] = Made(v, r, a)
      BY DEF Made
    <2>3. [Made(v, r, a) EXCEPT !.sources = w] = Made(v, w, a)
      BY DEF Made
    <2>4. Pushed(s, p, e) = Made(v, w, a)
      BY <2>1, <2>2, <2>3
    <2>5. QED
      BY <2>4 DEF v, w
  <1>4. [Plain("assistant", n) EXCEPT !.calls = calls]
          = Msg("assistant", n, calls, NoCall, FALSE, 1)
    BY CallingIs
  <1>5. PushAssistant(s, n, calls)
          = Made(Append(q, Msg("assistant", n, calls, NoCall, FALSE, 1)),
                 Append(r, "AssistantOutput"), a \cup calls)
    <2> DEFINE d == [Plain("assistant", n) EXCEPT !.calls = calls]
               v == Append(q, d)
               w == Append(r, "AssistantOutput")
               o == Pushed(s, d, "AssistantOutput")
               x == a \cup calls
    <2>1. o = Made(v, w, a)
      BY <1>3
    <2>2. d = Msg("assistant", n, calls, NoCall, FALSE, 1)
      BY <1>4
    <2>3. PushAssistant(s, n, calls) = [o EXCEPT !.names = o.names \cup calls]
      BY DEF PushAssistant
    <2>4. Made(v, w, x) = Made(Append(q, Msg("assistant", n, calls, NoCall, FALSE, 1)),
                               Append(r, "AssistantOutput"), a \cup calls)
      BY <2>2
    <2> HIDE DEF d, v, w, o
    <2>5. o.names = a
      BY <2>1 DEF Made
    <2>6. PushAssistant(s, n, calls) = [Made(v, w, a) EXCEPT !.names = x]
      BY <2>1, <2>3, <2>5
    <2> HIDE DEF x
    <2>7. [Made(v, w, a) EXCEPT !.names = x] = Made(v, w, x)
      BY DEF Made
    <2>8. QED
      BY <2>4, <2>6, <2>7
  <1>6. QED
    BY <1>3, <1>5 DEF q, r, a

\* push_user
LEMMA PushUserKeeps ==
    ASSUME NEW s, Good(s), NEW n \in 0 .. MaxInvocations
    PROVE  /\ Good(PushUser(s, n)) /\ Open(PushUser(s, n).messages)
           /\ Settled(s.messages) => Settled(PushUser(s, n).messages)
  <1> DEFINE m == Msg("user", n, {}, NoCall, FALSE, 1)
             u == PushUser(s, n)
             e == "UserInput"
             a == s.names
  <1>1. m \in Message /\ m.role = "user"
    BY DEF Msg, Message, Roles
  <1>2. IsPushed(u, s, m, e, a)
    <2>1. Pushed(s, Plain("user", n), "UserInput")
            = Made(Append(s.messages, Plain("user", n)), Append(s.sources, "UserInput"), s.names)
      BY PushedIs
    <2>2. Plain("user", n) = m
      BY PlainIs
    <2>3. QED
      BY <2>1, <2>2 DEF PushUser, IsPushed
  <1>3. e \in Sources \ {"SystemInstruction"}
    BY DEF Sources
  <1>4. a \in SUBSET CallIds /\ s.names \subseteq a
    BY DEF Good, States
  <1>5. MayFollow(s, m, a)
    BY <1>1 DEF MayFollow
  <1> HIDE DEF m, u, e, a
  <1>6. /\ Good(u)
        /\ m.role = "user" => Open(u.messages) /\ (Settled(s.messages) => Settled(u.messages))
    BY <1>1, <1>2, <1>3, <1>4, <1>5, PushKeeps
  <1>7. QED
    BY <1>1, <1>6 DEF u

\* push_assistant
LEMMA PushAssistantKeeps ==
    ASSUME NEW s, Good(s), Open(s.messages), NEW n \in 0 .. MaxInvocations,
           NEW calls \in SUBSET CallIds
    PROVE  LET u == PushAssistant(s, n, calls)
           IN  /\ Good(u) /\ Block(u.messages, Len(u.messages))
               /\ u.messages[Len(u.messages)].calls = calls /\ calls \subseteq u.names
  <1> DEFINE m == Msg("assistant", n, calls, NoCall, FALSE, 1)
             u == PushAssistant(s, n, calls)
             e == "AssistantOutput"
             a == s.names \cup calls
  <1>1. m \in Message /\ m.role = "assistant" /\ m.calls = calls
    BY DEF Msg, Message, Roles
  <1>2. IsPushed(u, s, m, e, a)
    <2>1. u = Made(Append(s.messages, m), Append(s.sources, e), a)
      BY PushedIs
    <2>2. QED
      BY <2>1 DEF IsPushed
  <1>3. e \in Sources \ {"SystemInstruction"}
    BY DEF Sources
  <1>4. a \in SUBSET CallIds /\ s.names \subseteq a /\ calls \subseteq a
    BY DEF Good, States
  <1>5. MayFollow(s, m, a)
    BY <1>1, <1>4 DEF MayFollow
  <1> HIDE DEF m, u, e, a
  <1>6. /\ Good(u) /\ (m.role = "assistant" => Block(u.messages, Len(u.messages)))
        /\ u.messages[Len(u.messages)] = m /\ u.names = a
    BY <1>1, <1>2, <1>3, <1>4, <1>5, PushKeeps
  <1>7. QED
    BY <1>1, <1>4, <1>6 DEF u

\* A message of the system and its source in front.
LEMMA FrontIs ==
    ASSUME NEW s, Good(s), NEW f \in Seq(Message), NEW m, IsOne(f, m), m.role = "system",
           NEW g \in Seq(Sources), NEW e, IsOne(g, e),
           NEW q \in Seq(Message), IsJoined(q, f, s.messages),
           NEW r \in Seq(Sources), IsJoined(r, g, s.sources)
    PROVE  /\ Sound(q) /\ (Open(s.messages) => Open(q)) /\ Len(q) = Len(s.messages) + 1
           /\ Settled(s.messages) => Settled(q)
           /\ Known(q, s.names) /\ Marked(q, r)
  <1> DEFINE p == s.messages
             w == s.sources
             n == Len(p)
             k == Len(w)
  <1>1. /\ p \in Seq(Message) /\ w \in Seq(Sources) /\ Sound(p)
        /\ Known(p, s.names) /\ Marked(p, w)
    BY MadeOf DEF Good
  <1>2. /\ DOMAIN q = 1 .. n + 1 /\ DOMAIN p = 1 .. n /\ n \in Nat /\ Len(q) = n + 1
        /\ q[1] = m /\ \A i \in 1 .. n : q[1 + i] = p[i]
        /\ DOMAIN f = 1 .. 1 /\ f[1] = m
    <2>1. /\ DOMAIN q = 1 .. Len(f) + n /\ DOMAIN f = 1 .. Len(f) /\ DOMAIN p = 1 .. n
          /\ n \in Nat /\ Len(q) = Len(f) + n /\ \A i \in DOMAIN f : q[i] = f[i]
          /\ \A i \in DOMAIN p : q[Len(f) + i] = p[i]
      <3> HIDE DEF p
      <3>1. QED
        BY <1>1, JoinedFrom DEF p
    <2> HIDE DEF p, n
    <2>2. Len(f) = 1 /\ f[1] = m
      BY DEF IsOne
    <2>3. DOMAIN f = 1 .. 1 /\ 1 \in DOMAIN f
      BY <2>1, <2>2
    <2>4. q[1] = m
      BY <2>1, <2>2, <2>3
    <2>5. \A i \in 1 .. n : q[1 + i] = p[i]
      BY <2>1, <2>2
    <2>6. DOMAIN q = 1 .. n + 1 /\ Len(q) = n + 1
      BY <2>1, <2>2
    <2>7. QED
      BY <2>1, <2>2, <2>3, <2>4, <2>5, <2>6
  <1>3. /\ DOMAIN r = 1 .. k + 1 /\ DOMAIN w = 1 .. k /\ k \in Nat
        /\ \A i \in 1 .. k : r[1 + i] = w[i]
    <2>1. /\ DOMAIN r = 1 .. Len(g) + k /\ DOMAIN w = 1 .. k
          /\ k \in Nat /\ \A i \in DOMAIN w : r[Len(g) + i] = w[i]
      <3>1. IsJoined(r, g, w)
        OBVIOUS
      <3>2. w \in Seq(Sources)
        BY <1>1
      <3> HIDE DEF w
      <3>3. DOMAIN w = 1 .. Len(w) /\ DOMAIN r = 1 .. Len(g) + Len(w) /\ Len(w) \in Nat
        BY <3>1, <3>2, JoinedFrom
      <3>4. \A i \in DOMAIN w : r[Len(g) + i] = w[i]
        BY <3>1, <3>2, JoinedFrom
      <3>5. QED
        BY <3>3, <3>4
    <2> HIDE DEF w, k
    <2>2. Len(g) = 1
      BY DEF IsOne
    <2>3. DOMAIN r = 1 .. k + 1
      BY <2>1, <2>2
    <2>4. \A i \in 1 .. k : r[1 + i] = w[i]
      BY <2>1, <2>2
    <2>5. QED
      BY <2>1, <2>3, <2>4
  <1>4. Sound(q) /\ (Open(p) => Open(q)) /\ (Settled(p) => Settled(q))
    <2>1. \A i \in DOMAIN f : f[i].role = "system"
      BY <1>2
    <2>2. IsJoined(q, f, p)
      OBVIOUS
    <2> HIDE DEF p
    <2>3. QED
      BY <1>1, <2>1, <2>2, FrontKeeps
  <1> HIDE DEF p, w, n, k
  <1>5. \A i \in 1 .. n + 1 : i = 1 \/ (i - 1 \in 1 .. n /\ 1 + (i - 1) = i)
    BY <1>2
  <1>6. \A i \in 1 .. k + 1 : i = 1 \/ (i - 1 \in 1 .. k /\ 1 + (i - 1) = i)
    BY <1>3
  <1>7. Known(q, s.names)
    <2> SUFFICES ASSUME NEW i \in 1 .. n + 1, q[i].role = "assistant"
                 PROVE  q[i].of = 0 \/ q[i].calls \subseteq s.names
      BY <1>2 DEF Known
    <2>1. i # 1
      BY <1>2
    <2>2. i - 1 \in 1 .. n /\ q[i] = p[i - 1]
      BY <1>2, <1>5, <2>1
    <2>3. QED
      BY <1>1, <1>2, <2>2 DEF Known
  <1>8. Marked(q, r)
    <2> SUFFICES ASSUME NEW i \in 1 .. k + 1, r[i] = "SystemInstruction"
                 PROVE  i \in 1 .. n + 1 /\ q[i].role = "system"
      BY <1>2, <1>3 DEF Marked
    <2>1. CASE i = 1
      BY <1>2, <2>1
    <2>2. CASE i # 1
      <3>1. i - 1 \in 1 .. k /\ r[i] = w[i - 1]
        BY <1>3, <1>6, <2>2
      <3>2. i - 1 \in 1 .. n /\ p[i - 1].role = "system"
        BY <1>1, <1>2, <1>3, <3>1 DEF Marked
      <3>3. q[i] = p[i - 1] /\ i \in 1 .. n + 1
        BY <1>2, <1>3, <3>2
      <3>4. QED
        BY <3>2, <3>3
    <2>3. QED
      BY <2>1, <2>2
  <1>9. QED
    BY <1>2, <1>4, <1>7, <1>8 DEF p, n

\* push_system_message
LEMMA PushSystemKeeps ==
    ASSUME NEW s, Good(s)
    PROVE  LET u == PushSystem(s)
           IN  /\ Good(u) /\ (Open(s.messages) => Open(u.messages))
               /\ Settled(s.messages) => Settled(u.messages)
               /\ Len(u.messages) \in {Len(s.messages), Len(s.messages) + 1}
  <1>1. CASE Has(s.messages, "system")
    BY <1>1 DEF PushSystem
  <1>2. CASE ~Has(s.messages, "system")
    <2> DEFINE m == Plain("system", 0)
               f == <<m>>
               e == "SystemInstruction"
               g == <<e>>
               p == s.messages
               w == s.sources
               a == s.names
               q == f \o p
               r == g \o w
               u == PushSystem(s)
    <2>1. s = Made(p, w, a) /\ p \in Seq(Message) /\ w \in Seq(Sources) /\ a \in SUBSET CallIds
      BY MadeOf DEF Good
    <2>2. u = [s EXCEPT !.messages = q, !.sources = r]
      BY <1>2 DEF PushSystem
    <2>3. m \in Message /\ m.role = "system" /\ f \in Seq(Message) /\ IsOne(f, m)
      <3>1. m = Msg("system", 0, {}, NoCall, FALSE, 1)
        BY DEF Plain, Msg
      <3>2. m \in Message /\ m.role = "system"
        <4>1. 0 \in 0 .. MaxInvocations
          BY StateAssumption
        <4>2. LET x == Msg("system", 0, {}, NoCall, FALSE, 1)
              IN  x \in Message /\ x.role = "system"
          BY <4>1 DEF Msg, Message, Roles
        <4>3. QED
          BY <3>1, <4>2
      <3> HIDE DEF m
      <3>3. QED
        BY <3>2 DEF IsOne
    <2>4. g \in Seq(Sources) /\ IsOne(g, e)
      BY DEF Sources, IsOne
    <2> HIDE DEF m, f, e, g, p, w, a, u
    <2>5. q \in Seq(Message) /\ IsJoined(q, f, p)
      BY <2>1, <2>3, Joined
    <2>6. r \in Seq(Sources) /\ IsJoined(r, g, w)
      BY <2>1, <2>4, Joined
    <2> HIDE DEF q, r
    <2>7. u = Made(q, r, a)
      <3>1. u = [Made(p, w, a) EXCEPT !.messages = q, !.sources = r]
        BY <2>1, <2>2
      <3>2. [Made(p, w, a) EXCEPT !.messages = q] = Made(q, w, a)
        BY DEF Made
      <3>3. [Made(q, w, a) EXCEPT !.sources = r] = Made(q, r, a)
        BY DEF Made
      <3>4. QED
        BY <3>1, <3>2, <3>3
    <2>8. /\ Sound(q) /\ (Open(p) => Open(q)) /\ Len(q) = Len(p) + 1
          /\ Settled(p) => Settled(q)
          /\ Known(q, a) /\ Marked(q, r)
      <3>1. IsJoined(q, f, s.messages) /\ IsJoined(r, g, s.sources)
        BY <2>5, <2>6 DEF p, w
      <3>2. QED
        BY <2>3, <2>4, <2>5, <2>6, <3>1, FrontIs DEF p, a
    <2>9. Good(u) /\ u.messages = q
      BY <2>1, <2>5, <2>6, <2>7, <2>8, MadeGood
    <2>10. QED
      BY <2>8, <2>9 DEF p, u
  <1>3. QED
    BY <1>1, <1>2

\* t is q with a message of the user rewritten.
IsRewritten(t, q, at) ==
    /\ Len(t) = Len(q) /\ at \in DOMAIN q /\ q[at].role = "user" /\ t[at].role = "user"
    /\ \A i \in DOMAIN q : i # at => t[i] = q[i]

\* What a message of the user says does not matter.
LEMMA RewrittenKeeps ==
    ASSUME NEW q \in Seq(Message), NEW t \in Seq(Message), NEW at, IsRewritten(t, q, at),
           Sound(q), NEW names, Known(q, names), NEW r, Marked(q, r)
    PROVE  /\ Sound(t) /\ Known(t, names) /\ Marked(t, r)
           /\ Open(q) \/ at = Len(q) => Open(t)
           /\ Settled(q) => Settled(t)
  <1> DEFINE n == Len(q)
  <1>1. /\ DOMAIN q = 1 .. n /\ DOMAIN t = 1 .. n /\ n \in Nat /\ Len(t) = n /\ at \in 1 .. n
        /\ q[at].role = "user" /\ t[at].role = "user"
        /\ \A i \in 1 .. n : i # at => t[i] = q[i]
    BY DEF IsRewritten
  <1> HIDE DEF n
  <1>2. \A i \in 1 .. n : t[i].role = q[i].role
    BY <1>1
  <1>3. \A i \in 1 .. n : q[i].role \in {"assistant", "tool"} => t[i] = q[i]
    BY <1>1
  <1>4. ToolsAnswer(t)
    <2> SUFFICES ASSUME NEW i \in 1 .. n, t[i].role = "tool"
                 PROVE  \E j \in 1 .. i - 1 : Answers(t, j, i)
      BY <1>1 DEF ToolsAnswer
    <2>1. q[i].role = "tool" /\ t[i] = q[i]
      BY <1>2, <1>3
    <2>2. PICK j \in 1 .. i - 1 : Answers(q, j, i)
      BY <1>1, <2>1 DEF Sound, ToolsAnswer
    <2>3. j \in 1 .. n /\ \A k \in j + 1 .. i : k \in 1 .. n
      BY <1>1, <2>2
    <2>4. t[j] = q[j]
      BY <1>3, <2>2, <2>3 DEF Answers
    <2>5. \A k \in j + 1 .. i : t[k].role = "tool"
      BY <1>2, <2>2, <2>3 DEF Answers
    <2>6. Answers(t, j, i)
      BY <2>1, <2>2, <2>4, <2>5 DEF Answers
    <2>7. QED
      BY <2>2, <2>6
  <1>5. Apart(t)
    <2> SUFFICES ASSUME NEW i \in 1 .. n, NEW j \in 1 .. n, i < j,
                        t[i].role = "assistant", t[j].role = "assistant"
                 PROVE  \E k \in i + 1 .. j - 1 : t[k].role \in {"user", "tool"}
      BY <1>1 DEF Apart
    <2>1. PICK k \in i + 1 .. j - 1 : q[k].role \in {"user", "tool"}
      BY <1>1, <1>2 DEF Sound, Apart
    <2>2. k \in 1 .. n
      BY <1>1, <2>1
    <2>3. QED
      BY <1>2, <2>1, <2>2
  <1>6. Known(t, names)
    <2> SUFFICES ASSUME NEW i \in 1 .. n, t[i].role = "assistant"
                 PROVE  t[i].of = 0 \/ t[i].calls \subseteq names
      BY <1>1 DEF Known
    <2>1. t[i] = q[i]
      BY <1>2, <1>3
    <2>2. QED
      BY <1>1, <2>1 DEF Known
  <1>7. Marked(t, r)
    BY <1>1, <1>2 DEF Marked
  <1>8. ASSUME Open(q) \/ at = n
        PROVE  Open(t)
    <2> SUFFICES ASSUME NEW i \in 1 .. n, t[i].role = "assistant"
                 PROVE  t[n].role \in {"user", "tool"}
      BY <1>1 DEF Open
    <2>1. n \in 1 .. n
      BY <1>1
    <2>2. CASE at = n
      BY <1>1, <2>2
    <2>3. CASE Open(q)
      <3>1. q[i].role = "assistant"
        BY <1>2
      <3>2. q[n].role \in {"user", "tool"}
        BY <1>1, <2>3, <3>1 DEF Open, n
      <3>3. QED
        BY <1>2, <2>1, <3>2
    <2>4. QED
      BY <1>8, <2>2, <2>3
  <1>9. Settled(q) => Settled(t)
    <2> DEFINE h == [i \in 1 .. n |-> i]
    <2>1. \A i \in 1 .. n : h[i] = i
      OBVIOUS
    <2> HIDE DEF h
    <2>2. \A i \in 1 .. n : OfModel(t[i]) \/ OfModel(q[i]) => t[i] = q[i]
      BY <1>2, <1>3 DEF OfModel
    <2>3. Carried(t, q, h)
      BY <1>1, <2>1, <2>2 DEF Carried
    <2>4. QED
      BY <2>3, CarriedSettles
  <1>10. QED
    BY <1>4, <1>5, <1>6, <1>7, <1>8, <1>9 DEF Sound, n

\* upsert_user_message_from: unless an answer may follow anyway, the message
\* of the user is put at the end.
LEMMA UpsertKeeps ==
    ASSUME NEW s, Good(s), NEW start \in Nat, NEW n \in 0 .. MaxInvocations,
           Open(s.messages) \/ Len(s.messages) <= start + 1
    PROVE  LET u == UpsertUserFrom(s, start, n)
           IN  /\ Good(u) /\ Open(u.messages)
               /\ Settled(s.messages) => Settled(u.messages)
  <1> DEFINE q  == s.messages
             r  == s.sources
             a  == s.names
             l  == Len(q)
             I  == {i \in start + 1 .. l : q[i].role = "user"}
             at == SelectInSubSeq(q, start + 1, l, LAMBDA m : m.role = "user")
             u  == UpsertUserFrom(s, start, n)
  <1>1. /\ q \in Seq(Message) /\ r \in Seq(Sources) /\ a \in SUBSET CallIds /\ s = Made(q, r, a)
        /\ Sound(q) /\ Known(q, a) /\ Marked(q, r)
    BY MadeOf DEF Good
  <1>2. at = IF I # {} THEN Min(I) ELSE 0
    BY DEF SelectInSubSeq
  <1>3. u = IF at = 0 THEN PushUser(s, n) ELSE [s EXCEPT !.messages[at].of = n]
    BY DEF UpsertUserFrom
  <1> HIDE DEF at, u
  <1>4. CASE I = {}
    <2>1. u = PushUser(s, n)
      BY <1>2, <1>3, <1>4
    <2>2. QED
      BY <2>1, PushUserKeeps DEF u
  <1>5. CASE I # {}
    <2>1. at \in start + 1 .. l /\ q[at].role = "user" /\ l \in Nat /\ DOMAIN q = 1 .. l
      <3>1. I \subseteq Nat /\ l \in Nat /\ DOMAIN q = 1 .. l
        BY <1>1
      <3>2. at \in I
        <4> HIDE DEF I
        <4>1. QED
          BY <1>2, <1>5, <3>1, MinOfNaturals
      <3>3. QED
        BY <3>1, <3>2
    <2> HIDE DEF q, r, a, l, I
    <2>2. at \in DOMAIN q /\ at # 0
      BY <2>1
    <2> DEFINE m == q[at]
               e == [m EXCEPT !.of = n]
               t == [q EXCEPT ![at] = e]
    <2>3. e \in Message /\ e.role = "user"
      <3>1. m \in Message /\ m.role = "user"
        BY <1>1, <2>1, <2>2
      <3> HIDE DEF m
      <3>2. QED
        BY <3>1 DEF Message
    <2>4. u = [s EXCEPT !.messages = [s.messages EXCEPT ![at] = [s.messages[at] EXCEPT !.of = n]]]
      BY <1>3, <2>2
    <2>5. u = [Made(q, r, a) EXCEPT !.messages = t]
      BY <1>1, <2>4 DEF q
    <2> HIDE DEF e
    <2>6. t \in Seq(Message) /\ IsRewritten(t, q, at)
      BY <1>1, <2>1, <2>2, <2>3 DEF IsRewritten
    <2> HIDE DEF t
    <2>7. u = Made(t, r, a)
      BY <2>5 DEF Made
    <2>8. /\ Sound(t) /\ Known(t, a) /\ Marked(t, r)
          /\ Open(q) \/ at = Len(q) => Open(t)
          /\ Settled(q) => Settled(t)
      BY <1>1, <2>6, RewrittenKeeps
    <2>9. Good(u) /\ u.messages = t
      BY <1>1, <2>6, <2>7, <2>8, MadeGood
    <2>10. Open(q) \/ at = Len(q)
      <3>1. Open(q) \/ l <= start + 1
        BY DEF q, l
      <3>2. l <= start + 1 => at = l
        BY <2>1
      <3>3. QED
        BY <3>1, <3>2 DEF l
    <2>11. QED
      BY <2>8, <2>9, <2>10 DEF u, q
  <1>6. QED
    BY <1>4, <1>5

\* t are results of calls, of which names are known.
AreResults(t, calls, names) ==
    \A i \in DOMAIN t : /\ t[i].role = "tool" /\ t[i].call \in calls
                        /\ t[i].named = (t[i].call \in names)

\* Results and their sources are pushed.
LEMMA ResultsBehind ==
    ASSUME NEW s, Good(s), NEW j, Block(s.messages, j),
           NEW t \in Seq(Message), AreResults(t, s.messages[j].calls, s.names),
           NEW x \in Seq(Sources), Unmarked(x),
           NEW u \in Seq(Message), IsJoined(u, s.messages, t),
           NEW w \in Seq(Sources), IsJoined(w, s.sources, x)
    PROVE  LET v == Made(u, w, s.names)
           IN  /\ Good(v) /\ Block(v.messages, j) /\ v.messages[j] = s.messages[j]
               /\ t # <<>> => Open(v.messages)
  <1> DEFINE q == s.messages
             r == s.sources
             a == s.names
             v == Made(u, w, a)
  <1>1. /\ q \in Seq(Message) /\ r \in Seq(Sources) /\ a \in SUBSET CallIds
        /\ Sound(q) /\ Known(q, a) /\ Marked(q, r)
    BY MadeOf DEF Good
  <1>2. /\ Block(q, j) /\ AreResults(t, q[j].calls, a)
        /\ IsJoined(u, q, t) /\ IsJoined(w, r, x)
    OBVIOUS
  <1>3. q[j].of = 0 \/ q[j].calls \subseteq a
    BY <1>1, <1>2 DEF Block, Known
  <1> HIDE DEF q, r, a
  <1>4. \A i \in DOMAIN t : /\ t[i].role = "tool" /\ t[i].call \in q[j].calls
                            /\ t[i].named \/ q[j].of = 0
    BY <1>2, <1>3 DEF AreResults
  <1>5. Sound(u) /\ Block(u, j) /\ u[j] = q[j] /\ (t # <<>> => Open(u))
    BY <1>1, <1>2, <1>4, ResultsKeep
  <1>6. Known(t, a)
    BY <1>4 DEF Known
  <1>7. Known(u, a) /\ Marked(u, w)
    BY <1>1, <1>2, <1>6, BehindMarked
  <1> HIDE DEF v
  <1>8. Good(v) /\ v.messages = u
    BY <1>1, <1>5, <1>7, MadeGood DEF v
  <1>9. QED
    BY <1>5, <1>8 DEF v, q, a

\* A result is a message.
LEMMA ResultIs ==
    ASSUME NEW s, NEW n \in 0 .. MaxInvocations, NEW c \in CallIds, NEW size \in ToolSizes
    PROVE  LET m == ToolResult(s, n, c, size)
           IN  m \in Message /\ m.role = "tool" /\ m.call = c /\ m.named = (c \in s.names)
  <1> DEFINE b == c \in s.names
             m == ToolResult(s, n, c, size)
  <1>1. m = Msg("tool", n, {}, c, b, size)
    BY ResultFields
  <1>2. b \in BOOLEAN /\ size \in Nat
    BY StateAssumption
  <1> HIDE DEF b, m
  <1>3. Msg("tool", n, {}, c, b, size) \in Message
    BY <1>2 DEF Msg, Message, Roles
  <1>4. m.role = "tool" /\ m.call = c /\ m.named = b
    BY <1>1 DEF Msg
  <1>5. QED
    BY <1>1, <1>3, <1>4 DEF b, m

\* push_tool_result
LEMMA PushToolResultKeeps ==
    ASSUME NEW s, Good(s), NEW n \in 0 .. MaxInvocations, NEW c \in CallIds,
           NEW size \in ToolSizes, NEW j, Block(s.messages, j), c \in s.messages[j].calls
    PROVE  LET v == PushToolResult(s, n, c, size)
           IN  /\ Good(v) /\ Block(v.messages, j) /\ v.messages[j] = s.messages[j]
               /\ Open(v.messages)
  <1> DEFINE m == ToolResult(s, n, c, size)
             e == "ToolOutput"
             q == s.messages
             r == s.sources
             t == <<m>>
             x == <<e>>
             u == Append(q, m)
             w == Append(r, e)
             v == PushToolResult(s, n, c, size)
  <1>1. q \in Seq(Message) /\ r \in Seq(Sources)
    BY MadeOf DEF Good
  <1>2. m \in Message /\ m.role = "tool" /\ m.call = c /\ m.named = (c \in s.names)
    BY ResultIs
  <1>3. e \in Sources /\ e # "SystemInstruction"
    BY DEF Sources
  <1>4. v = Made(u, w, s.names)
    BY PushedIs DEF PushToolResult
  <1> HIDE DEF m, e, q, r, v
  <1>5. u \in Seq(Message) /\ IsJoined(u, q, t)
    BY <1>1, <1>2 DEF IsJoined
  <1>6. w \in Seq(Sources) /\ IsJoined(w, r, x)
    BY <1>1, <1>3 DEF IsJoined
  <1>7. t \in Seq(Message) /\ x \in Seq(Sources) /\ t # <<>>
    BY <1>2, <1>3
  <1>8. AreResults(t, s.messages[j].calls, s.names)
    BY <1>2 DEF AreResults
  <1>9. Unmarked(x)
    BY <1>3 DEF Unmarked
  <1> HIDE DEF t, x, u, w
  <1>10. IsJoined(u, s.messages, t) /\ IsJoined(w, s.sources, x)
    BY <1>5, <1>6 DEF q, r
  <1> DEFINE o == Made(u, w, s.names)
  <1>11. /\ Good(o) /\ Block(o.messages, j) /\ o.messages[j] = s.messages[j]
         /\ t # <<>> => Open(o.messages)
    BY <1>5, <1>6, <1>7, <1>8, <1>9, <1>10, ResultsBehind
  <1>12. QED
    BY <1>4, <1>7, <1>11 DEF v

\* submit_tools
LEMMA PushToolResultsKeeps ==
    ASSUME NEW s, Good(s), NEW n \in 0 .. MaxInvocations, NEW calls \in Seq(CallIds),
           calls # <<>>, NEW size \in ToolSizes, NEW j, Block(s.messages, j),
           \A i \in DOMAIN calls : calls[i] \in s.messages[j].calls
    PROVE  LET v == PushToolResults(s, n, calls, size)
           IN  Good(v) /\ Open(v.messages)
  <1> DEFINE q == s.messages
             r == s.sources
             a == s.names
             t == [i \in DOMAIN calls |-> ToolResult(s, n, calls[i], size)]
             x == [i \in DOMAIN calls |-> "ToolOutput"]
             u == q \o t
             w == r \o x
             v == PushToolResults(s, n, calls, size)
  <1>1. q \in Seq(Message) /\ r \in Seq(Sources) /\ s = Made(q, r, a)
    BY MadeOf DEF Good
  <1>2. \A i \in DOMAIN calls :
          LET m == ToolResult(s, n, calls[i], size)
          IN  m \in Message /\ m.role = "tool" /\ m.call = calls[i] /\ m.named = (calls[i] \in s.names)
    BY ResultIs
  <1>3. v = [s EXCEPT !.messages = u, !.sources = w]
    BY DEF PushToolResults
  <1>4. DOMAIN calls = 1 .. Len(calls) /\ Len(calls) \in Nat /\ Len(calls) # 0
    OBVIOUS
  <1>5. t \in Seq(Message) /\ DOMAIN t = DOMAIN calls
        /\ \A i \in DOMAIN calls : t[i] = ToolResult(s, n, calls[i], size)
    BY <1>2, <1>4
  <1>6. x \in Seq(Sources) /\ Unmarked(x)
    BY <1>4 DEF Sources, Unmarked
  <1>7. AreResults(t, s.messages[j].calls, s.names)
    <2> HIDE DEF t
    <2>1. QED
      BY <1>2, <1>5 DEF AreResults
  <1>8. t # <<>>
    <2> HIDE DEF t
    <2>1. QED
      BY <1>4, <1>5
  <1> HIDE DEF q, r, a, t, x, v
  <1>9. u \in Seq(Message) /\ IsJoined(u, q, t)
    BY <1>1, <1>5, Joined
  <1>10. w \in Seq(Sources) /\ IsJoined(w, r, x)
    BY <1>1, <1>6, Joined
  <1> HIDE DEF u, w
  <1>11. v = Made(u, w, a)
    <2>1. v = [Made(q, r, a) EXCEPT !.messages = u, !.sources = w]
      BY <1>1, <1>3
    <2>2. [Made(q, r, a) EXCEPT !.messages = u] = Made(u, r, a)
      BY DEF Made
    <2>3. [Made(u, r, a) EXCEPT !.sources = w] = Made(u, w, a)
      BY DEF Made
    <2>4. QED
      BY <2>1, <2>2, <2>3
  <1>12. IsJoined(u, s.messages, t) /\ IsJoined(w, s.sources, x)
    BY <1>9, <1>10 DEF q, r
  <1> DEFINE o == Made(u, w, s.names)
  <1>13. Good(o) /\ (t # <<>> => Open(o.messages))
    BY <1>5, <1>6, <1>7, <1>9, <1>10, <1>12, ResultsBehind
  <1>14. QED
    BY <1>8, <1>11, <1>13 DEF v, a

\* The messages of p are among those of q.
Among(p, q) == \A i \in DOMAIN p : \E k \in DOMAIN q : p[i] = q[k]

\* Two lists, one behind the other.
LEMMA JoinedAmong ==
    ASSUME NEW p \in Seq(Message), NEW t \in Seq(Message), NEW u \in Seq(Message),
           IsJoined(u, p, t), NEW q, Among(p, q), Among(t, q)
    PROVE  Among(u, q)
  <1>1. \A i \in DOMAIN u : i \in DOMAIN p \/ (i - Len(p) \in DOMAIN t /\ u[i] = t[i - Len(p)])
    BY JoinedFrom
  <1>2. \A i \in DOMAIN p : u[i] = p[i]
    BY JoinedFrom
  <1>3. QED
    BY <1>1, <1>2 DEF Among

\* Where the messages come from that a sieve leaves.
LEMMA SievedAre ==
    ASSUME NEW q \in Seq(Message), NEW b
    PROVE  LET p == Sieve(q, b)
           IN  /\ p \in Seq(Message) /\ Among(p, q)
               /\ \A i \in DOMAIN p : (p[i].role = "system") = b
               /\ (q # <<>> /\ (q[1].role = "system") = b) => p # <<>>
  <1> DEFINE p == Sieve(q, b)
             n == Len(q)
             l == Len(p)
  <1>1. PICK h : Thinned(p, q, n, b, h)
    BY SieveIs
  <1>2. /\ p \in Seq(Message) /\ h \in [1 .. l -> 1 .. n] /\ DOMAIN p = 1 .. l
        /\ \A i \in 1 .. l : p[i] = q[h[i]] /\ (q[h[i]].role = "system") = b
        /\ \A k \in 1 .. n : (q[k].role = "system") = b => \E i \in 1 .. l : h[i] = k
        /\ DOMAIN q = 1 .. n /\ n \in Nat
    BY <1>1 DEF Thinned
  <1>3. p = <<>> => 1 .. l = {}
    OBVIOUS
  <1>4. q # <<>> => 1 \in 1 .. n
    BY <1>2
  <1> HIDE DEF p, l, n
  <1>5. Among(p, q)
    BY <1>2 DEF Among
  <1>6. \A i \in DOMAIN p : (p[i].role = "system") = b
    BY <1>2
  <1>7. (q # <<>> /\ (q[1].role = "system") = b) => p # <<>>
    <2> SUFFICES ASSUME q # <<>>, (q[1].role = "system") = b
                 PROVE  p # <<>>
      OBVIOUS
    <2>1. PICK i \in 1 .. l : h[i] = 1
      BY <1>2, <1>4
    <2>2. QED
      BY <1>3, <2>1
  <1>8. QED
    BY <1>2, <1>5, <1>6, <1>7 DEF p

\* Without the first d messages of q.
IsCut(t, q, d) ==
    /\ Len(t) = Len(q) - d
    /\ \A i \in 1 .. Len(t) : t[i] = q[d + i]

\* SubSeq to the end.
LEMMA CutIs ==
    ASSUME NEW q \in Seq(Message), NEW d \in 0 .. Len(q)
    PROVE  SubSeq(q, d + 1, Len(q)) \in Seq(Message) /\ IsCut(SubSeq(q, d + 1, Len(q)), q, d)
  <1> DEFINE n == Len(q)
             t == SubSeq(q, d + 1, n)
  <1>1. n \in Nat /\ d \in Nat /\ d <= n /\ DOMAIN q = 1 .. n
    OBVIOUS
  <1>2. t = [i \in 1 .. n - d |-> q[d + i]]
    OBVIOUS
  <1> HIDE DEF n, t
  <1>3. \A i \in 1 .. n - d : d + i \in 1 .. n
    BY <1>1
  <1>4. \A i \in 1 .. n - d : q[d + i] \in Message
    BY <1>1, <1>3
  <1>5. t \in Seq(Message) /\ Len(t) = n - d /\ \A i \in 1 .. n - d : t[i] = q[d + i]
    BY <1>1, <1>2, <1>4
  <1>6. QED
    BY <1>5 DEF IsCut, n, t

\* The messages that trimming keeps: those of the system, then the rest.
LEMMA KeptAre ==
    ASSUME NEW q \in Seq(Message), Sound(q), NEW names, Known(q, names), NEW fixed
    PROVE  LET f    == Sieve(q, TRUE)
               rest == Sieve(q, FALSE)
               u    == f \o SubSeq(rest, Dropped(rest, fixed) + 1, Len(rest))
           IN  /\ u \in Seq(Message) /\ Sound(u) /\ Known(u, names) /\ (Open(q) => Open(u))
               /\ Settled(q) => Settled(u)
               /\ q # <<>> /\ q[1].role = "system" => u # <<>> /\ u[1].role = "system"
  <1> DEFINE f    == Sieve(q, TRUE)
             rest == Sieve(q, FALSE)
             d    == Dropped(rest, fixed)
             t    == SubSeq(rest, d + 1, Len(rest))
             u    == f \o t
             n    == Len(q)
  <1>1. /\ f \in Seq(Message) /\ Among(f, q)
        /\ \A i \in DOMAIN f : (f[i].role = "system") = TRUE
        /\ (q # <<>> /\ (q[1].role = "system") = TRUE) => f # <<>>
    BY SievedAre
  <1>2. rest \in Seq(Message) /\ Among(rest, q)
    BY SievedAre
  <1>3. PICK h : Thinned(rest, q, n, FALSE, h)
    BY SieveIs
  <1> HIDE DEF f, rest
  <1>4. Sound(rest) /\ (Open(q) => Open(rest)) /\ (Settled(q) => Settled(rest))
    BY <1>3, ThinKeeps
  <1>5. d \in 0 .. Len(rest) /\ Clean(rest, d)
    BY <1>2, <1>4, DroppedIs
  <1> HIDE DEF d
  <1>6. t \in Seq(Message) /\ IsCut(t, rest, d)
    BY <1>2, <1>5, CutIs
  <1> HIDE DEF t
  <1>7. Sound(t) /\ (Open(rest) => Open(t)) /\ (Settled(rest) => Settled(t))
    <2>1. d = Len(rest) \/ rest[d + 1].role # "tool"
      BY <1>5 DEF Clean
    <2>2. Len(t) = Len(rest) - d /\ \A i \in 1 .. Len(t) : t[i] = rest[d + i]
      BY <1>6 DEF IsCut
    <2>3. QED
      BY <1>2, <1>4, <1>5, <1>6, <2>1, <2>2, CutKeeps
  <1>8. u \in Seq(Message) /\ IsJoined(u, f, t)
    BY <1>1, <1>6, Joined
  <1> HIDE DEF u
  <1>9. Sound(u) /\ (Open(t) => Open(u)) /\ (Settled(t) => Settled(u))
    <2>1. \A i \in DOMAIN f : f[i].role = "system"
      BY <1>1
    <2>2. QED
      BY <1>1, <1>6, <1>7, <1>8, <2>1, FrontKeeps
  <1>10. f # <<>> => u # <<>> /\ u[1] = f[1] /\ 1 \in DOMAIN f
    <2>1. \A i \in DOMAIN f : i \in DOMAIN u /\ u[i] = f[i]
      BY <1>1, <1>6, <1>8, JoinedFrom
    <2>2. f # <<>> => 1 \in DOMAIN f
      BY <1>1
    <2>3. QED
      BY <2>1, <2>2
  <1>11. Among(t, q)
    <2> SUFFICES ASSUME NEW i \in DOMAIN t
                 PROVE  \E k \in DOMAIN q : t[i] = q[k]
      BY DEF Among
    <2>1. i \in 1 .. Len(t) /\ t[i] = rest[d + i] /\ Len(t) = Len(rest) - d
      BY <1>6 DEF IsCut
    <2>2. d + i \in DOMAIN rest
      BY <1>2, <1>5, <2>1
    <2>3. QED
      BY <1>2, <2>1, <2>2 DEF Among
  <1>12. Known(u, names)
    <2> SUFFICES ASSUME NEW i \in DOMAIN u, u[i].role = "assistant"
                 PROVE  u[i].of = 0 \/ u[i].calls \subseteq names
      BY DEF Known
    <2>1. Among(u, q)
      BY <1>1, <1>6, <1>8, <1>11, JoinedAmong
    <2>2. QED
      BY <2>1 DEF Among, Known
  <1>13. ASSUME q # <<>>, q[1].role = "system"
         PROVE  u # <<>> /\ u[1].role = "system"
    <2>1. f # <<>>
      BY <1>1, <1>13
    <2>2. QED
      BY <1>1, <1>10, <2>1
  <1>14. /\ u \in Seq(Message) /\ Sound(u) /\ Known(u, names) /\ (Open(q) => Open(u))
         /\ Settled(q) => Settled(u)
         /\ q # <<>> /\ q[1].role = "system" => u # <<>> /\ u[1].role = "system"
    BY <1>4, <1>7, <1>8, <1>9, <1>12, <1>13
  <1>15. QED
    BY <1>14, Zenon DEF u, t, d, f, rest

\* The sources that are left mark an instruction only if there is one.
LEMMA SourcesAre ==
    ASSUME NEW s, NEW q, NEW r \in Seq(Sources), s.sources = r, NEW u \in Seq(Message),
           Marked(q, r), (1 \in DOMAIN q /\ q[1].role = "system") => (u # <<>> /\ u[1].role = "system"),
           NEW n \in Nat
    PROVE  LET w == TrimmedSources(s, n)
           IN  w \in Seq(Sources) /\ Marked(u, w)
  <1> DEFINE w == TrimmedSources(s, n)
             k == IF n = 0 THEN 1 ELSE n
  <1>1. k \in Nat
    OBVIOUS
  <1>2. w = [i \in 1 .. k |-> IF i = 1 /\ r # <<>> THEN r[1] ELSE "UserInput"]
    BY DEF TrimmedSources
  <1>3. r # <<>> => 1 \in DOMAIN r /\ r[1] \in Sources
    OBVIOUS
  <1>4. u # <<>> => 1 \in DOMAIN u
    OBVIOUS
  <1>5. w \in Seq(Sources)
    <2> HIDE DEF w, k
    <2>1. \A i \in 1 .. k : (IF i = 1 /\ r # <<>> THEN r[1] ELSE "UserInput") \in Sources
      BY <1>3 DEF Sources
    <2>2. QED
      BY <1>1, <1>2, <2>1
  <1> HIDE DEF w, k
  <1>6. ASSUME NEW i \in DOMAIN w, w[i] = "SystemInstruction"
        PROVE  i \in DOMAIN u /\ u[i].role = "system"
    <2>1. i = 1 /\ r # <<>> /\ r[1] = "SystemInstruction"
      BY <1>2, <1>6
    <2>2. 1 \in DOMAIN q /\ q[1].role = "system"
      BY <1>3, <2>1 DEF Marked
    <2>3. QED
      BY <1>4, <2>1, <2>2
  <1>7. QED
    BY <1>5, <1>6 DEF Marked, w

\* trim_messages
LEMMA TrimKeeps ==
    ASSUME NEW s, Good(s), NEW v \in Trim(s)
    PROVE  /\ Good(v) /\ (Open(s.messages) => Open(v.messages))
           /\ Settled(s.messages) => Settled(v.messages)
  <1> DEFINE q     == s.messages
             r     == s.sources
             a     == s.names
             fixed == Sieve(q, TRUE)
             rest  == Sieve(q, FALSE)
             k     == Tokens(fixed)
             u     == fixed \o SubSeq(rest, Dropped(rest, k) + 1, Len(rest))
             w     == TrimmedSources(s, Len(u))
  <1>1. /\ q \in Seq(Message) /\ r \in Seq(Sources) /\ a \in SUBSET CallIds /\ s = Made(q, r, a)
        /\ Sound(q) /\ Known(q, a) /\ Marked(q, r)
    BY MadeOf DEF Good
  <1>2. v = IF Len(rest) <= 2 THEN s ELSE [s EXCEPT !.messages = u, !.sources = w]
    <2> DEFINE x == IF Len(rest) <= 2 THEN s ELSE [s EXCEPT !.messages = u, !.sources = w]
    <2>1. Trimmed(s, fixed, rest) = x
      BY DEF Trimmed
    <2> HIDE DEF x
    <2>2. v = Trimmed(s, fixed, rest)
      BY DEF Trim
    <2> HIDE DEF u, w, rest, fixed
    <2>3. QED
      BY <2>1, <2>2 DEF x
  <1>3. CASE v = s
    BY <1>3
  <1>4. CASE v = [s EXCEPT !.messages = u, !.sources = w]
    <2> HIDE DEF k
    <2>1. /\ u \in Seq(Message) /\ Sound(u) /\ Known(u, a) /\ (Open(q) => Open(u))
          /\ Settled(q) => Settled(u)
          /\ q # <<>> /\ q[1].role = "system" => u # <<>> /\ u[1].role = "system"
      <3> HIDE DEF q, a
      <3>1. QED
        BY <1>1, KeptAre
    <2> HIDE DEF u
    <2>2. w \in Seq(Sources) /\ Marked(u, w)
      <3>1. 1 \in DOMAIN q => q # <<>>
        BY <1>1
      <3>2. s.sources = r /\ Len(u) \in Nat
        BY <2>1
      <3> HIDE DEF q, r
      <3>3. QED
        BY <1>1, <2>1, <3>1, <3>2, SourcesAre
    <2> HIDE DEF q, r, a, w
    <2>3. v = Made(u, w, a)
      <3>1. v = [Made(q, r, a) EXCEPT !.messages = u, !.sources = w]
        BY <1>1, <1>4
      <3>2. [Made(q, r, a) EXCEPT !.messages = u] = Made(u, r, a)
        BY DEF Made
      <3>3. [Made(u, r, a) EXCEPT !.sources = w] = Made(u, w, a)
        BY DEF Made
      <3>4. QED
        BY <3>1, <3>2, <3>3
    <2>4. Good(v) /\ v.messages = u
      BY <1>1, <2>1, <2>2, <2>3, MadeGood
    <2>5. QED
      BY <2>1, <2>4 DEF q
  <1>5. QED
    BY <1>2, <1>3, <1>4

\* seed_messages
LEMMA SeedKeeps ==
    ASSUME NEW s, Good(s), NEW h \in Seeds
    PROVE  Good(SeedMessages(s, [i \in DOMAIN h |->
                    [Plain(h[i][1], 0) EXCEPT !.calls = h[i][2]]]))
  <1> DEFINE q == [i \in DOMAIN h |-> [Plain(h[i][1], 0) EXCEPT !.calls = h[i][2]]]
             o == <<>>
             no == {}
             v == SeedMessages(s, q)
  <1>1. /\ h \in Seq({"system", "user", "assistant"} \X SUBSET CallIds)
        /\ \A i, j \in DOMAIN h : i < j /\ h[i][1] = "assistant" /\ h[j][1] = "assistant" =>
             \E k \in i + 1 .. j - 1 : h[k][1] = "user"
    BY AgentAssumption
  <1>2. DOMAIN h = 1 .. Len(h) /\ Len(h) \in Nat
    BY <1>1
  <1>3. \A i \in DOMAIN h : h[i][1] \in {"system", "user", "assistant"} /\ h[i][2] \in SUBSET CallIds
    BY <1>1
  <1>4. \A i \in DOMAIN h : q[i] = Msg(h[i][1], 0, h[i][2], NoCall, FALSE, 1)
    BY CallingIs
  <1>5. DOMAIN q = DOMAIN h
    OBVIOUS
  <1>6. v = [s EXCEPT !.messages = q, !.sources = o, !.names = no]
    BY DEF SeedMessages
  <1> HIDE DEF q, v
  <1>7. 0 \in 0 .. MaxInvocations
    BY StateAssumption
  <1>8. ASSUME NEW i \in DOMAIN h
        PROVE  q[i] \in Message /\ q[i].role = h[i][1] /\ q[i].of = 0
    <2> DEFINE x == h[i][1]
               c == h[i][2]
               m == Msg(x, 0, c, NoCall, FALSE, 1)
    <2>1. q[i] = m /\ x \in Roles /\ c \in SUBSET CallIds
      BY <1>3, <1>4 DEF Roles
    <2>2. m \in Message /\ m.role = x /\ m.of = 0
      <3> HIDE DEF x, c
      <3>1. QED
        BY <1>7, <2>1 DEF Msg, Message
    <2>3. QED
      BY <2>1, <2>2
  <1>9. \A i \in DOMAIN h : q[i].role # "tool"
    BY <1>3, <1>8
  <1>10. q \in Seq(Message)
    <2>1. q = [i \in 1 .. Len(h) |-> q[i]]
      BY <1>2 DEF q
    <2>2. QED
      BY <1>2, <1>8, <2>1
  <1>11. Sound(q)
    <2>1. ToolsAnswer(q)
      BY <1>5, <1>9 DEF ToolsAnswer
    <2>2. Apart(q)
      <3> SUFFICES ASSUME NEW i \in DOMAIN h, NEW j \in DOMAIN h, i < j,
                          q[i].role = "assistant", q[j].role = "assistant"
                   PROVE  \E k \in i + 1 .. j - 1 : q[k].role \in {"user", "tool"}
        BY <1>5 DEF Apart
      <3>1. PICK k \in i + 1 .. j - 1 : h[k][1] = "user"
        BY <1>1, <1>8
      <3>2. k \in DOMAIN h
        BY <1>2, <3>1
      <3>3. QED
        BY <1>8, <3>1, <3>2
    <2>3. QED
      BY <2>1, <2>2 DEF Sound
  <1>12. Known(q, no) /\ Marked(q, o) /\ o \in Seq(Sources) /\ no \in SUBSET CallIds
    BY <1>5, <1>8 DEF Known, Marked
  <1>13. v = Made(q, o, no)
    <2> DEFINE p == s.messages
               r == s.sources
               a == s.names
    <2>1. s = Made(p, r, a)
      BY MadeOf DEF Good
    <2> HIDE DEF p, r, a, o, no
    <2>2. v = [Made(p, r, a) EXCEPT !.messages = q, !.sources = o, !.names = no]
      BY <1>6, <2>1
    <2>3. [Made(p, r, a) EXCEPT !.messages = q] = Made(q, r, a)
      BY DEF Made
    <2>4. [Made(q, r, a) EXCEPT !.sources = o] = Made(q, o, a)
      BY DEF Made
    <2>5. [Made(q, o, a) EXCEPT !.names = no] = Made(q, o, no)
      BY DEF Made
    <2>6. QED
      BY <2>2, <2>3, <2>4, <2>5
  <1> HIDE DEF o, no
  <1>14. Good(v)
    BY <1>10, <1>11, <1>12, <1>13, MadeGood
  <1>15. QED
    BY <1>14 DEF v, q

----------------------------------------------------------------------------
(* The loop *)

\* q lists S, and each element once if a stream says Done at most once.
Listed(q, S) ==
    /\ q \in Seq(S) /\ ToSet(q) = S
    /\ MaxDones <= 1 => Len(q) = Cardinality(S)

\* The results behind answer j are those of the first calls of the list, and
\* the calls to do are the others.
Progress(q, j, calls, todo) ==
    /\ Block(q, j) /\ Listed(calls, q[j].calls)
    /\ Len(calls) = (Len(q) - j) + Len(todo) /\ todo # <<>>
    /\ \A i \in 1 .. Len(q) - j : q[j + i].call = calls[i]
    /\ \A i \in 1 .. Len(todo) : todo[i] = calls[(Len(q) - j) + i]

\* An answer may follow when one is asked for, or the prompt is put at the end.
OpenInv ==
    /\ pc \in {"chat", "stream"} => Open(state.messages)
    /\ pc = "prompt" => Open(state.messages) \/ Len(state.messages) <= frame.start
    /\ pc \in {"chat", "stream", "attempted", "tools"} => frame.turn < MaxTurns

\* What run goes back to.
SnapshotInv == Good(frame.snapshot) /\ Open(frame.snapshot.messages)

\* The calls of the answer that is streamed, was pushed, is worked on.
CallsInv ==
    /\ pc = "stream" => \/ chat.dones = 0 /\ chat.calls = <<>>
                        \/ chat.dones # 0 /\ Listed(chat.calls, chat.builders)
    /\ pc = "attempted" =>
         LET q == state.messages
         IN  \/ chat.calls = <<>>
             \/ Block(q, Len(q)) /\ Listed(chat.calls, q[Len(q)].calls)
    /\ pc = "tools" => \E j \in DOMAIN state.messages :
                          Progress(state.messages, j, chat.calls, frame.todo)

LoopInv ==
    /\ AgentTypeOK
    /\ Good(state)
    /\ OpenInv
    /\ SnapshotInv
    /\ CallsInv

Modes == {"none", "run", "streaming", "send", "submit"}

Frames == [mode : Modes, turn : 0..MaxTurns, start : Nat, snapshot : States,
           retry : 0..MaxStreamRetries, todo : Seq(CallIds)]

Chats == [attempt : 0..MaxRetries, builders : SUBSET CallIds, calls : Seq(CallIds),
          dones : 0..MaxDones, retryable : BOOLEAN]

\* The part of the types that no operation of AgentState is about.
TypeInv ==
    /\ pending \subseteq Events
    /\ system \in BOOLEAN /\ executor \in BOOLEAN
    /\ runs \in 0..MaxInvocations
    /\ pc \in {"idle", "prompt", "chat", "stream", "attempted", "tools"}
    /\ frame \in Frames
    /\ chat \in Chats

\* The invariant in the parts that are proved.
LEMMA LoopInvIs ==
    /\ LoopInv <=> TypeInv /\ Good(state) /\ OpenInv /\ SnapshotInv /\ CallsInv
    /\ LoopInv' <=> TypeInv' /\ Good(state') /\ OpenInv' /\ SnapshotInv' /\ CallsInv'
  <1>1. AgentTypeOK <=> TypeInv /\ state \in States
    BY DEF AgentTypeOK, TypeInv, Frames, Modes, Chats
  <1>2. AgentTypeOK' <=> TypeInv' /\ state' \in States
    BY DEF AgentTypeOK, TypeInv, Frames, Modes, Chats
  <1>3. QED
    BY <1>1, <1>2 DEF LoopInv, Good

\* A conversation that has not begun.
LEMMA EmptyIsGood ==
    Good(EmptyState) /\ Open(EmptyState.messages) /\ EmptyState \in States
  <1>1. EmptyState = Made(<<>>, <<>>, {})
    BY DEF EmptyState, Made
  <1>2. Sound(<<>>) /\ Known(<<>>, {}) /\ Marked(<<>>, <<>>) /\ Open(<<>>)
    BY DEF Sound, ToolsAnswer, Apart, Known, Marked, Open
  <1>3. <<>> \in Seq(Message) /\ <<>> \in Seq(Sources) /\ {} \in SUBSET CallIds
    OBVIOUS
  <1>4. EmptyState.messages = <<>>
    BY DEF EmptyState
  <1>5. Good(EmptyState)
    <2> DEFINE q == <<>>
               r == <<>>
               a == {}
    <2>1. /\ q \in Seq(Message) /\ r \in Seq(Sources) /\ a \in SUBSET CallIds
          /\ Sound(q) /\ Known(q, a) /\ Marked(q, r) /\ EmptyState = Made(q, r, a)
      BY <1>1, <1>2, <1>3
    <2> HIDE DEF q, r, a
    <2>2. QED
      BY <2>1, MadeGood
  <1>6. QED
    BY <1>2, <1>4, <1>5 DEF Good

\* The locals an invocation starts with, and those without an invocation.
LEMMA NewIs ==
    ASSUME Good(state), NEW mode \in Modes
    PROVE  /\ NewFrame(mode) \in Frames /\ NewFrame(mode).turn = 0
           /\ NewFrame(mode).start = Len(state.messages)
           /\ NewFrame(mode).snapshot = EmptyState
           /\ [NewFrame("none") EXCEPT !.start = 0] \in Frames
           /\ [NewFrame("none") EXCEPT !.start = 0].snapshot = EmptyState
           /\ NewChat \in Chats /\ NewChat.calls = <<>> /\ NewChat.dones = 0
           /\ NewChat.builders = {}
  <1>1. Len(state.messages) \in Nat /\ EmptyState \in States
    BY EmptyIsGood DEF Good, States
  <1>2. 0 \in 0 .. MaxTurns /\ 0 \in 0 .. MaxStreamRetries /\ 0 \in 0 .. MaxRetries /\ 0 \in 0 .. MaxDones
    BY AgentAssumption
  <1>3. /\ NewFrame(mode) \in Frames /\ NewFrame(mode).turn = 0
        /\ NewFrame(mode).start = Len(state.messages)
        /\ NewFrame(mode).snapshot = EmptyState
    BY <1>1, <1>2 DEF NewFrame, Frames
  <1>4. /\ [NewFrame("none") EXCEPT !.start = 0] \in Frames
        /\ [NewFrame("none") EXCEPT !.start = 0].snapshot = EmptyState
    <2> DEFINE f == NewFrame("none")
    <2>1. f \in Frames /\ f.snapshot = EmptyState
      BY <1>1, <1>2 DEF NewFrame, Frames, Modes
    <2> HIDE DEF f
    <2>2. [f EXCEPT !.start = 0] \in Frames /\ [f EXCEPT !.start = 0].snapshot = EmptyState
      BY <2>1 DEF Frames
    <2>3. QED
      BY <2>2 DEF f
  <1>5. NewChat \in Chats /\ NewChat.calls = <<>> /\ NewChat.dones = 0 /\ NewChat.builders = {}
    BY <1>2 DEF NewChat, Chats
  <1>6. QED
    BY <1>3, <1>4, <1>5

\* The invocation is over.
LEMMA ReturnKeeps ==
    ASSUME LoopInv, Return, Good(state'), pending' \subseteq Events,
           UNCHANGED <<setup, runs>>
    PROVE  LoopInv'
  <1>1. TypeInv /\ Good(state)
    BY LoopInvIs
  <1>2. /\ pc' = "idle" /\ frame' \in Frames /\ chat' \in Chats
        /\ frame'.snapshot = EmptyState
    <2>1. "none" \in Modes
      BY DEF Modes
    <2>2. QED
      BY <1>1, <2>1, NewIs DEF Return
  <1>3. TypeInv'
    BY <1>1, <1>2 DEF TypeInv, setup
  <1>4. SnapshotInv'
    BY <1>2, EmptyIsGood DEF SnapshotInv
  <1>5. OpenInv' /\ CallsInv'
    BY <1>2 DEF OpenInv, CallsInv
  <1>6. QED
    BY <1>3, <1>4, <1>5, LoopInvIs

\* The first state.
LEMMA InitKeeps ==
    ASSUME Init
    PROVE  LoopInv
  <1>1. Good(state)
    BY EmptyIsGood DEF Init
  <1>2. /\ frame \in Frames /\ chat \in Chats /\ frame.snapshot = EmptyState
        /\ pc = "idle"
    <2>1. "none" \in Modes
      BY DEF Modes
    <2>2. QED
      BY <1>1, <2>1, NewIs DEF Init
  <1>3. TypeInv
    BY <1>2, StateAssumption DEF Init, TypeInv
  <1>4. SnapshotInv
    BY <1>2, EmptyIsGood DEF SnapshotInv
  <1>5. OpenInv /\ CallsInv
    BY <1>2 DEF OpenInv, CallsInv
  <1>6. QED
    BY <1>1, <1>3, <1>4, <1>5, LoopInvIs

\* A step between invocations.
LEMMA IdleKeeps ==
    ASSUME LoopInv, pc = "idle", UNCHANGED <<executor, runs, pc, frame, chat>>,
           Good(state'), pending' \subseteq Events, system' \in BOOLEAN
    PROVE  LoopInv'
  <1>1. TypeInv /\ SnapshotInv
    BY LoopInvIs
  <1>2. TypeInv'
    BY <1>1 DEF TypeInv
  <1>3. SnapshotInv' /\ OpenInv' /\ CallsInv'
    BY <1>1 DEF SnapshotInv, OpenInv, CallsInv
  <1>4. QED
    BY <1>2, <1>3, LoopInvIs

\* An invocation begins: with a prompt to compile, or with a message pushed.
LEMMA BeginKeeps ==
    ASSUME LoopInv, NEW mode \in Modes, NEW at \in {"prompt", "chat"}, Begin(mode, at),
           Good(state'),
           at = "prompt" => UNCHANGED state,
           at = "chat" => Open(state'.messages)
    PROVE  LoopInv'
  <1>1. TypeInv /\ Good(state) /\ Len(state.messages) \in Nat
    BY LoopInvIs DEF Good, States
  <1>2. /\ frame' \in Frames /\ frame'.turn = 0 /\ frame'.start = Len(state.messages)
        /\ frame'.snapshot = EmptyState
    BY <1>1, NewIs DEF Begin
  <1>3. /\ runs' \in 0 .. MaxInvocations /\ pc' = at /\ pc' \in {"prompt", "chat"}
        /\ UNCHANGED <<pending, system, executor, chat>>
    BY <1>1, StateAssumption DEF Begin, TypeInv, setup
  <1>4. TypeInv'
    BY <1>1, <1>2, <1>3 DEF TypeInv
  <1>5. SnapshotInv'
    BY <1>2, EmptyIsGood DEF SnapshotInv
  <1>6. CallsInv'
    BY <1>3 DEF CallsInv
  <1>7. OpenInv'
    <2>1. frame'.turn < MaxTurns
      BY <1>2, AgentAssumption
    <2>2. CASE at = "prompt"
      <3>1. Len(state'.messages) <= frame'.start
        BY <1>1, <1>2, <2>2
      <3>2. QED
        BY <1>3, <2>1, <2>2, <3>1 DEF OpenInv
    <2>3. CASE at = "chat"
      BY <1>3, <2>1, <2>3 DEF OpenInv
    <2>4. QED
      BY <2>2, <2>3
  <1>8. QED
    BY <1>4, <1>5, <1>6, <1>7, LoopInvIs

\* The answer whose calls are open is the last one, and only results follow it.
LEMMA UnansweredIs ==
    ASSUME NEW q \in Seq(Message), Unanswered(q) # {}
    PROVE  \E j : Block(q, j) /\ Unanswered(q) \subseteq q[j].calls
  <1> DEFINE j == LastAssistant(q)
             I == {i \in 1 .. Len(q) : q[i].role = "assistant"}
  <1>1. j # 0 /\ ~(\E i \in j + 1 .. Len(q) : q[i].role # "tool")
        /\ Unanswered(q) = q[j].calls \ Answered(q, j)
    BY DEF Unanswered
  <1>2. j = IF I # {} THEN Max(I) ELSE 0
    BY DEF LastAssistant, SelectLastInSeq, SelectLastInSubSeq
  <1>3. Len(q) \in Nat /\ I \subseteq Nat /\ \A x \in I : x <= Len(q)
    OBVIOUS
  <1>4. j \in I
    <2> HIDE DEF I, j
    <2>1. I # {}
      BY <1>1, <1>2
    <2>2. QED
      BY <1>2, <1>3, <2>1, MaxOfBounded
  <1> HIDE DEF j
  <1>5. j \in DOMAIN q /\ q[j].role = "assistant"
    BY <1>3, <1>4
  <1>6. Block(q, j)
    BY <1>1, <1>5 DEF Block
  <1>7. QED
    BY <1>1, <1>6

\* seed, send_message and submit_tools, and the steps that only set things up
LEMMA IdleStep ==
    ASSUME LoopInv, Idle
    PROVE  LoopInv'
  <1>1. TypeInv /\ Good(state) /\ state \in States /\ state.messages \in Seq(Message)
    BY LoopInvIs DEF Good, States
  <1>2. ASSUME SetSystemPrompt
        PROVE  LoopInv'
    BY <1>1, <1>2, IdleKeeps DEF SetSystemPrompt, TypeInv
  <1>3. ASSUME NEW e \in Events, InjectBusEvents(e)
        PROVE  LoopInv'
    BY <1>1, <1>3, IdleKeeps DEF InjectBusEvents, TypeInv, setup
  <1>4. ASSUME NEW h \in Seeds, Seed(h)
        PROVE  LoopInv'
    <2>1. Good(state')
      BY <1>1, <1>4, SeedKeeps DEF Seed
    <2>2. QED
      BY <1>1, <1>4, <2>1, IdleKeeps DEF Seed, TypeInv, setup
  <1>5. ASSUME Run \/ RunStreaming
        PROVE  LoopInv'
    <2>1. PICK mode \in Modes : Begin(mode, "prompt") /\ UNCHANGED state
      BY <1>5 DEF Run, RunStreaming, Modes
    <2>2. Good(state')
      BY <1>1, <2>1
    <2>3. QED
      BY <2>1, <2>2, BeginKeeps
  <1>6. ASSUME SendMessage
        PROVE  LoopInv'
    <2>1. "send" \in Modes /\ Begin("send", "chat") /\ state' = PushUser(state, runs + 1)
      BY <1>6 DEF SendMessage, Modes
    <2>2. runs + 1 \in 0 .. MaxInvocations
      BY <1>1, <2>1, StateAssumption DEF Begin, TypeInv
    <2>3. Good(state') /\ Open(state'.messages)
      BY <1>1, <2>1, <2>2, PushUserKeeps
    <2>4. QED
      BY <2>1, <2>3, BeginKeeps
  <1>7. ASSUME NEW S \in SUBSET Unanswered(state.messages), NEW size \in ToolSizes,
               NEW calls \in SetToSeqs(S), SubmitTools(calls, size)
        PROVE  LoopInv'
    <2>1. /\ calls # <<>> /\ "submit" \in Modes /\ Begin("submit", "chat")
          /\ state' = PushToolResults(state, runs + 1, calls, size)
      BY <1>7 DEF SubmitTools, Modes
    <2>2. runs + 1 \in 0 .. MaxInvocations
      BY <1>1, <2>1, StateAssumption DEF Begin, TypeInv
    <2>3. Unanswered(state.messages) \subseteq CallIds /\ S \subseteq CallIds
      <3>1. CASE Unanswered(state.messages) = {}
        BY <3>1
      <3>2. CASE Unanswered(state.messages) # {}
        <4>1. PICK j : Block(state.messages, j) /\ Unanswered(state.messages) \subseteq state.messages[j].calls
          BY <1>1, <3>2, UnansweredIs
        <4>2. state.messages[j] \in Message
          BY <1>1, <4>1 DEF Block
        <4>3. QED
          BY <4>1, <4>2 DEF Message
      <3>3. QED
        BY <3>1, <3>2
    <2>4. calls \in Seq(S) /\ ToSet(calls) = S
      <3>1. IsFiniteSet(S)
        BY <2>3, FS_Subset, StateAssumption
      <3>2. QED
        BY <3>1, ListingHolds
    <2>5. Unanswered(state.messages) # {}
      <3>1. 1 \in DOMAIN calls
        BY <2>1, <2>4
      <3>2. calls[1] \in S
        BY <2>4, <3>1
      <3>3. QED
        BY <3>2
    <2>6. PICK j : Block(state.messages, j) /\ Unanswered(state.messages) \subseteq state.messages[j].calls
      BY <1>1, <2>5, UnansweredIs
    <2>7. calls \in Seq(CallIds) /\ \A i \in DOMAIN calls : calls[i] \in state.messages[j].calls
      BY <2>3, <2>4, <2>6
    <2>8. Good(state') /\ Open(state'.messages)
      BY <1>1, <2>1, <2>2, <2>6, <2>7, PushToolResultsKeeps
    <2>9. QED
      BY <2>1, <2>8, BeginKeeps
  <1>8. QED
    BY <1>2, <1>3, <1>4, <1>5, <1>6, <1>7 DEF Idle

\* One turn starts.
LEMMA CompileStep ==
    ASSUME LoopInv, Compile
    PROVE  LoopInv'
  <1>1. /\ TypeInv /\ Good(state) /\ OpenInv
        /\ pc = "prompt" /\ frame.turn < MaxTurns /\ pc' = "chat" /\ pending' = {}
        /\ chat' = NewChat /\ UNCHANGED <<system, executor, runs>>
    BY LoopInvIs DEF Compile, setup
  <1> DEFINE w == IF system THEN PushSystem(state) ELSE state
             u == UpsertUserFrom(w, frame.start, runs)
  <1>2. PICK v \in Trim(u) :
          state' = v /\ frame' = [frame EXCEPT !.snapshot = v, !.retry = 0]
    BY DEF Compile
  <1>3. runs \in 0 .. MaxInvocations /\ frame \in Frames /\ frame.start \in Nat
    BY <1>1 DEF TypeInv, Frames
  <1>4. Open(state.messages) \/ Len(state.messages) <= frame.start
    BY <1>1 DEF OpenInv
  <1>5. Len(state.messages) \in Nat
    BY <1>1 DEF Good, States
  <1>6. /\ Good(w) /\ (Open(state.messages) => Open(w.messages))
        /\ Len(w.messages) \in {Len(state.messages), Len(state.messages) + 1}
    BY <1>1, PushSystemKeeps
  <1> HIDE DEF w
  <1>7. Open(w.messages) \/ Len(w.messages) <= frame.start + 1
    BY <1>3, <1>4, <1>5, <1>6
  <1>8. Good(u) /\ Open(u.messages)
    BY <1>3, <1>6, <1>7, UpsertKeeps
  <1> HIDE DEF u
  <1>9. Good(v) /\ Open(v.messages)
    BY <1>8, TrimKeeps
  <1>10. v \in States
    BY <1>9 DEF Good
  <1>11. frame' \in Frames /\ frame'.snapshot = v /\ frame'.turn = frame.turn
    <2>1. 0 \in 0 .. MaxStreamRetries
      BY AgentAssumption
    <2>2. QED
      BY <1>2, <1>3, <1>10, <2>1 DEF Frames
  <1>12. chat' \in Chats
    <2>1. "none" \in Modes
      BY DEF Modes
    <2>2. QED
      BY <1>1, <2>1, NewIs
  <1>13. TypeInv'
    BY <1>1, <1>11, <1>12 DEF TypeInv
  <1>14. SnapshotInv' /\ OpenInv' /\ CallsInv'
    BY <1>1, <1>2, <1>9, <1>11 DEF SnapshotInv, OpenInv, CallsInv
  <1>15. QED
    BY <1>2, <1>9, <1>13, <1>14, LoopInvIs

\* run goes back to the snapshot.
LEMMA RetryStep ==
    ASSUME LoopInv, Retry
    PROVE  LoopInv'
  <1>1. /\ TypeInv /\ Good(state) /\ OpenInv /\ SnapshotInv
        /\ pc = "attempted" /\ pc' = "chat" /\ state' = frame.snapshot
        /\ frame' = [frame EXCEPT !.retry = frame.retry + 1] /\ frame.retry < MaxStreamRetries
        /\ chat' = NewChat /\ UNCHANGED <<pending, system, executor, runs>>
    BY LoopInvIs DEF Retry, setup
  <1>2. frame \in Frames /\ frame.retry \in 0 .. MaxStreamRetries /\ frame.snapshot \in States
    BY <1>1 DEF TypeInv, Frames
  <1>3. frame.retry + 1 \in 0 .. MaxStreamRetries
    BY <1>1, <1>2, AgentAssumption
  <1>4. frame' \in Frames /\ frame'.snapshot = frame.snapshot /\ frame'.turn = frame.turn
    <2> DEFINE k == frame.retry + 1
    <2>1. k \in 0 .. MaxStreamRetries /\ frame' = [frame EXCEPT !.retry = k]
      BY <1>1, <1>3
    <2> HIDE DEF k
    <2>2. QED
      BY <1>2, <2>1 DEF Frames
  <1>5. chat' \in Chats
    <2>1. "none" \in Modes
      BY DEF Modes
    <2>2. QED
      BY <1>1, <2>1, NewIs
  <1>6. Good(state') /\ Open(state'.messages)
    BY <1>1 DEF SnapshotInv
  <1>7. TypeInv'
    BY <1>1, <1>4, <1>5 DEF TypeInv
  <1>8. SnapshotInv' /\ OpenInv' /\ CallsInv'
    BY <1>1, <1>4, <1>6 DEF SnapshotInv, OpenInv, CallsInv
  <1>9. QED
    BY <1>6, <1>7, <1>8, LoopInvIs

\* The tools of the answer are called.
LEMMA StartToolsStep ==
    ASSUME LoopInv, StartTools
    PROVE  LoopInv'
  <1> DEFINE q == state.messages
             c == chat.calls
             n == Len(q)
  <1>1. /\ TypeInv /\ Good(state) /\ OpenInv /\ SnapshotInv /\ CallsInv
        /\ pc = "attempted" /\ pc' = "tools" /\ c # <<>>
        /\ frame' = [frame EXCEPT !.todo = c]
        /\ UNCHANGED <<state, pending, system, executor, runs, chat>>
    BY LoopInvIs DEF StartTools, setup
  <1>2. frame \in Frames /\ frame.snapshot \in States /\ c \in Seq(CallIds) /\ n \in Nat
    BY <1>1 DEF TypeInv, Frames, Chats, Good, States
  <1>3. /\ frame' \in Frames /\ frame'.snapshot = frame.snapshot /\ frame'.turn = frame.turn
        /\ frame'.todo = c
    <2> HIDE DEF c
    <2>1. QED
      BY <1>1, <1>2 DEF Frames
  <1>4. Block(q, n) /\ Listed(c, q[n].calls)
    BY <1>1 DEF CallsInv
  <1>5. Progress(q, n, c, c)
    <2> HIDE DEF q, c, n
    <2>1. Len(c) \in Nat
      BY <1>2
    <2>2. n - n = 0 /\ Len(c) = (n - n) + Len(c) /\ \A i \in 1 .. Len(c) : (n - n) + i = i
      BY <1>2, <2>1
    <2>3. \A i \in 1 .. n - n : q[n + i].call = c[i]
      BY <2>2
    <2>4. QED
      BY <1>1, <1>4, <2>2, <2>3 DEF Progress, n
  <1>6. n \in DOMAIN q
    BY <1>4 DEF Block
  <1>7. TypeInv'
    BY <1>1, <1>3 DEF TypeInv
  <1>8. SnapshotInv' /\ OpenInv'
    BY <1>1, <1>3 DEF SnapshotInv, OpenInv
  <1>9. CallsInv'
    BY <1>1, <1>3, <1>5, <1>6 DEF CallsInv
  <1>10. QED
    BY <1>1, <1>7, <1>8, <1>9, LoopInvIs

\* t is q and one more message, with the result of call c.
IsAnswered(t, q, c) ==
    /\ Len(t) = Len(q) + 1 /\ t[Len(q) + 1].call = c
    /\ \A i \in 1 .. Len(q) : t[i] = q[i]

\* What push_tool_result appends.
LEMMA PushToolResultIs ==
    ASSUME NEW s, Good(s), NEW n \in 0 .. MaxInvocations, NEW c \in CallIds, NEW size \in ToolSizes
    PROVE  IsAnswered(PushToolResult(s, n, c, size).messages, s.messages, c)
  <1> DEFINE m == ToolResult(s, n, c, size)
             q == s.messages
             v == PushToolResult(s, n, c, size)
  <1>1. q \in Seq(Message)
    BY MadeOf DEF Good
  <1>2. m \in Message /\ m.call = c
    BY ResultIs
  <1>3. v = Made(Append(q, m), Append(s.sources, "ToolOutput"), s.names)
    BY PushedIs DEF PushToolResult
  <1> HIDE DEF m, q, v
  <1>4. v.messages = Append(q, m)
    BY <1>3 DEF Made
  <1>5. Len(Append(q, m)) = Len(q) + 1 /\ Append(q, m)[Len(q) + 1] = m
        /\ \A i \in 1 .. Len(q) : Append(q, m)[i] = q[i]
    BY <1>1, <1>2
  <1>6. QED
    BY <1>2, <1>4, <1>5 DEF IsAnswered, q, v

\* The first call to do is the one whose result comes next.
LEMMA ProgressOn ==
    ASSUME NEW q \in Seq(Message), NEW j \in DOMAIN q, NEW calls, NEW todo \in Seq(CallIds),
           Progress(q, j, calls, todo)
    PROVE  /\ Head(todo) \in q[j].calls /\ Head(todo) \in CallIds
           /\ \A t \in Seq(Message) :
                IsAnswered(t, q, Head(todo)) /\ Block(t, j) /\ t[j] = q[j] /\ Len(todo) > 1 =>
                  Progress(t, j, calls, Tail(todo))
  <1> DEFINE n == Len(q)
             l == Len(todo)
             d == n - j
             S == q[j].calls
  <1>1. /\ n \in Nat /\ j \in 1 .. n /\ l \in Nat /\ l # 0 /\ d \in Nat /\ d = n - j
        /\ Head(todo) = todo[1] /\ 1 \in 1 .. l /\ DOMAIN todo = 1 .. l
        /\ Head(todo) \in CallIds
    BY DEF Progress
  <1>2. /\ calls \in Seq(S) /\ Len(calls) = d + l
        /\ \A i \in 1 .. d : q[j + i].call = calls[i]
        /\ \A i \in 1 .. l : todo[i] = calls[d + i]
        /\ Listed(calls, S)
    BY DEF Progress, Listed
  <1>3. DOMAIN calls = 1 .. d + l
    BY <1>2
  <1> HIDE DEF n, l, d
  <1>4. todo[1] = calls[d + 1] /\ d + 1 \in 1 .. d + l
    BY <1>1, <1>2
  <1>5. todo[1] \in S
    <2> HIDE DEF S
    <2>1. QED
      BY <1>2, <1>3, <1>4
  <1>6. ASSUME NEW t \in Seq(Message), IsAnswered(t, q, Head(todo)), Block(t, j), t[j] = q[j], l > 1
        PROVE  Progress(t, j, calls, Tail(todo))
    <2> DEFINE o == Tail(todo)
    <2>1. /\ Len(t) = n + 1 /\ t[n + 1].call = todo[1] /\ \A i \in 1 .. n : t[i] = q[i]
      BY <1>1, <1>6 DEF IsAnswered, n
    <2>2. Len(o) = l - 1 /\ \A i \in 1 .. l - 1 : o[i] = todo[i + 1]
      BY <1>1 DEF l
    <2> HIDE DEF o
    <2>3. o # <<>>
      <3>1. Len(o) > 0
        BY <1>1, <1>6, <2>2
      <3>2. QED
        BY <3>1
    <2>4. (n + 1) - j = d + 1
      BY <1>1
    <2>5. \A i \in 1 .. d + 1 : t[j + i].call = calls[i]
      <3> SUFFICES ASSUME NEW i \in 1 .. d + 1
                   PROVE  t[j + i].call = calls[i]
        OBVIOUS
      <3>1. CASE i \in 1 .. d
        <4>1. j + i \in 1 .. n
          BY <1>1, <3>1
        <4>2. QED
          BY <1>2, <2>1, <3>1, <4>1
      <3>2. CASE i = d + 1
        <4>1. j + i = n + 1
          BY <1>1, <3>2
        <4>2. QED
          BY <1>4, <2>1, <3>2, <4>1
      <3>3. QED
        BY <1>1, <3>1, <3>2
    <2>6. \A i \in 1 .. l - 1 : o[i] = calls[(d + 1) + i]
      <3> SUFFICES ASSUME NEW i \in 1 .. l - 1
                   PROVE  o[i] = calls[(d + 1) + i]
        OBVIOUS
      <3>1. i + 1 \in 1 .. l /\ d + (i + 1) = (d + 1) + i
        BY <1>1
      <3>2. QED
        BY <1>2, <2>2, <3>1
    <2>7. Len(calls) = (d + 1) + (l - 1)
      BY <1>1, <1>2
    <2>8. Listed(calls, t[j].calls)
      BY <1>2, <1>6
    <2>9. QED
      BY <1>6, <2>1, <2>2, <2>3, <2>4, <2>5, <2>6, <2>7, <2>8 DEF Progress, o
  <1>7. QED
    BY <1>1, <1>5, <1>6 DEF l

\* One tool is called.
LEMMA ExecuteStep ==
    ASSUME LoopInv, NEW size \in ToolSizes, ExecuteTool(size)
    PROVE  LoopInv'
  <1> DEFINE q == state.messages
             c == Head(frame.todo)
  <1>1. /\ TypeInv /\ Good(state) /\ OpenInv /\ SnapshotInv /\ CallsInv
        /\ pc = "tools" /\ frame.turn < MaxTurns
        /\ state' = PushToolResult(state, runs, c, size)
        /\ UNCHANGED <<pending, system, executor, runs, chat>>
    BY LoopInvIs DEF ExecuteTool, setup, OpenInv
  <1>2. /\ frame \in Frames /\ frame.snapshot \in States /\ frame.todo \in Seq(CallIds)
        /\ frame.turn \in 0 .. MaxTurns
        /\ runs \in 0 .. MaxInvocations /\ q \in Seq(Message)
    BY <1>1 DEF TypeInv, Frames, Good, States
  <1>3. PICK j \in DOMAIN q : Progress(q, j, chat.calls, frame.todo)
    BY <1>1 DEF CallsInv
  <1>4. Block(q, j) /\ frame.todo # <<>>
    BY <1>3 DEF Progress
  <1>5. /\ c \in q[j].calls /\ c \in CallIds
        /\ \A t \in Seq(Message) :
             IsAnswered(t, q, c) /\ Block(t, j) /\ t[j] = q[j] /\ Len(frame.todo) > 1 =>
               Progress(t, j, chat.calls, Tail(frame.todo))
    BY <1>2, <1>3, ProgressOn
  <1> HIDE DEF c
  <1>6. /\ Good(state') /\ Block(state'.messages, j) /\ state'.messages[j] = q[j]
        /\ Open(state'.messages)
    BY <1>1, <1>2, <1>4, <1>5, PushToolResultKeeps
  <1>7. IsAnswered(state'.messages, q, c)
    BY <1>1, <1>2, <1>5, PushToolResultIs
  <1> HIDE DEF q
  <1>8. state'.messages \in Seq(Message)
    BY <1>6 DEF Good, States
  <1>9. CASE Len(frame.todo) > 1
    <2> DEFINE o == Tail(frame.todo)
    <2>1. frame' = [frame EXCEPT !.todo = o] /\ pc' = "tools"
      BY <1>1, <1>9 DEF ExecuteTool
    <2>2. o \in Seq(CallIds)
      BY <1>2, <1>9
    <2>3. Progress(state'.messages, j, chat.calls, o)
      BY <1>5, <1>6, <1>7, <1>8, <1>9
    <2> HIDE DEF o
    <2>4. /\ frame' \in Frames /\ frame'.snapshot = frame.snapshot /\ frame'.turn = frame.turn
          /\ frame'.todo = o
      BY <1>2, <2>1, <2>2 DEF Frames
    <2>5. TypeInv'
      BY <1>1, <2>1, <2>4 DEF TypeInv
    <2>6. SnapshotInv' /\ OpenInv'
      BY <1>1, <2>1, <2>4 DEF SnapshotInv, OpenInv
    <2>7. CallsInv'
      <3>1. j \in DOMAIN state'.messages
        BY <1>6 DEF Block
      <3>2. QED
        BY <1>1, <2>1, <2>3, <2>4, <3>1 DEF CallsInv
    <2>8. QED
      BY <1>6, <2>5, <2>6, <2>7, LoopInvIs
  <1>10. CASE ~(Len(frame.todo) > 1)
    <2> DEFINE k == frame.turn + 1
    <2>1. frame' = [frame EXCEPT !.todo = <<>>, !.turn = k] /\ pc' = "prompt"
      BY <1>1, <1>10 DEF ExecuteTool
    <2>2. k \in 0 .. MaxTurns
      BY <1>1, <1>2, AgentAssumption
    <2>3. frame' \in Frames /\ frame'.snapshot = frame.snapshot
      <3> DEFINE o == <<>>
                 f == [frame EXCEPT !.todo = o]
      <3>1. o \in Seq(CallIds)
        OBVIOUS
      <3>2. frame' = [f EXCEPT !.turn = k]
        BY <2>1
      <3> HIDE DEF o, k
      <3>3. f \in Frames /\ f.snapshot = frame.snapshot
        BY <1>2, <3>1 DEF Frames
      <3> HIDE DEF f
      <3>4. QED
        BY <2>2, <3>2, <3>3 DEF Frames
    <2> HIDE DEF k
    <2>4. TypeInv'
      BY <1>1, <2>1, <2>3 DEF TypeInv
    <2>5. SnapshotInv' /\ OpenInv' /\ CallsInv'
      BY <1>1, <1>6, <2>1, <2>3 DEF SnapshotInv, OpenInv, CallsInv
    <2>6. QED
      BY <1>6, <2>4, <2>5, LoopInvIs
  <1>11. QED
    BY <1>9, <1>10

\* The order of a HashMap lists its calls.
LEMMA ListingIs ==
    ASSUME NEW S \in SUBSET CallIds, NEW q \in SetToSeqs(S)
    PROVE  q \in Seq(CallIds) /\ Listed(q, S)
  <1>1. IsFiniteSet(S)
    BY FS_Subset, StateAssumption
  <1>2. q \in Seq(S) /\ ToSet(q) = S
    BY <1>1, ListingHolds
  <1>3. Len(q) = Cardinality(S)
    <2>1. Cardinality(S) \in Nat
      BY <1>1, FS_CardinalityType
    <2>2. q \in [1 .. Cardinality(S) -> S]
      BY DEF SetToSeqs
    <2>3. QED
      BY <1>2, <2>1, <2>2
  <1>4. QED
    BY <1>2, <1>3 DEF Listed

\* Another list of the same calls.
LEMMA ListedTwice ==
    ASSUME NEW S \in SUBSET CallIds, NEW q, Listed(q, S), NEW r, Listed(r, S), ~(MaxDones <= 1)
    PROVE  Listed(q \o r, S)
  <1>1. q \in Seq(S) /\ r \in Seq(S) /\ ToSet(q) = S
    BY DEF Listed
  <1>2. q \o r \in Seq(S) /\ IsJoined(q \o r, q, r)
    BY <1>1, Joined
  <1> DEFINE t == q \o r
  <1> HIDE DEF t
  <1>3. t \in Seq(S) /\ IsJoined(t, q, r)
    BY <1>2 DEF t
  <1>4. \A i \in DOMAIN q : i \in DOMAIN t /\ t[i] = q[i]
    BY <1>1, <1>3, JoinedFrom
  <1>5. ToSet(t) \subseteq S
    BY <1>3 DEF ToSet
  <1>6. S \subseteq ToSet(t)
    BY <1>1, <1>4 DEF ToSet
  <1>7. QED
    BY <1>3, <1>5, <1>6 DEF Listed, t

\* Steps of the exchange that leave the state and the frame alone.
LEMMA ChatKeeps ==
    ASSUME LoopInv, UNCHANGED <<state, pending, setup, runs, frame>>, chat' \in Chats,
           \/ pc = "chat" /\ pc' = "chat"
           \/ /\ pc = "chat" /\ pc' \in {"stream", "attempted"}
              /\ chat'.calls = <<>> /\ chat'.dones = 0
           \/ /\ pc = "stream" /\ pc' = "stream"
              /\ \/ chat'.dones = 0 /\ chat'.calls = <<>>
                 \/ chat'.dones # 0 /\ Listed(chat'.calls, chat'.builders)
    PROVE  LoopInv'
  <1>1. TypeInv /\ Good(state) /\ OpenInv /\ SnapshotInv
    BY LoopInvIs
  <1>2. TypeInv'
    BY <1>1 DEF TypeInv, setup
  <1>3. SnapshotInv' /\ OpenInv' /\ CallsInv'
    BY <1>1 DEF SnapshotInv, OpenInv, CallsInv
  <1>4. QED
    BY <1>1, <1>2, <1>3, LoopInvIs

\* chat_with_retry and the events of a stream
LEMMA ExchangeStep ==
    ASSUME LoopInv,
           \/ ChatRetries \/ (\E r \in BOOLEAN : ChatFails(r)) \/ ChatOpens
           \/ (\E c \in CallIds : StreamToolCall(c))
           \/ (\E q \in SetToSeqs(chat.builders) : StreamDone(q)) \/ StreamError
    PROVE  LoopInv'
  <1>1. TypeInv /\ CallsInv /\ Good(state)
    BY LoopInvIs
  <1>2. /\ chat \in Chats /\ chat.builders \in SUBSET CallIds /\ chat.dones \in 0 .. MaxDones
        /\ chat.calls \in Seq(CallIds) /\ chat.attempt \in 0 .. MaxRetries
    BY <1>1 DEF TypeInv, Chats
  <1>3. NewChat \in Chats /\ NewChat.calls = <<>> /\ NewChat.dones = 0
    <2>1. "none" \in Modes
      BY DEF Modes
    <2>2. QED
      BY <1>1, <2>1, NewIs
  <1>4. pc = "stream" => \/ chat.dones = 0 /\ chat.calls = <<>>
                         \/ chat.dones # 0 /\ Listed(chat.calls, chat.builders)
    BY <1>1 DEF CallsInv
  <1>5. ASSUME ChatRetries
        PROVE  LoopInv'
    <2> DEFINE k == chat.attempt + 1
    <2>1. pc = "chat" /\ chat' = [chat EXCEPT !.attempt = k] /\ pc' = "chat"
          /\ UNCHANGED <<state, pending, setup, runs, frame>>
      BY <1>5 DEF ChatRetries
    <2>2. k \in 0 .. MaxRetries
      BY <1>2, <1>5, AgentAssumption DEF ChatRetries
    <2> HIDE DEF k
    <2>3. chat' \in Chats /\ chat'.calls = chat.calls
      BY <1>2, <2>1, <2>2 DEF Chats
    <2>4. QED
      BY <2>1, <2>3, ChatKeeps
  <1>6. ASSUME NEW r \in BOOLEAN, ChatFails(r)
        PROVE  LoopInv'
    <2>1. chat' = [NewChat EXCEPT !.retryable = r] /\ pc = "chat" /\ pc' = "attempted"
          /\ UNCHANGED <<state, pending, setup, runs, frame>>
      BY <1>6 DEF ChatFails
    <2>2. chat' \in Chats /\ chat'.calls = <<>> /\ chat'.dones = 0
      BY <1>3, <2>1 DEF Chats
    <2>3. QED
      BY <2>1, <2>2, ChatKeeps
  <1>7. ASSUME ChatOpens
        PROVE  LoopInv'
    BY <1>3, <1>7, ChatKeeps DEF ChatOpens
  <1>8. ASSUME NEW c \in CallIds, StreamToolCall(c)
        PROVE  LoopInv'
    <2> DEFINE S == chat.builders \cup {c}
    <2>1. pc = "stream" /\ chat.dones = 0 /\ chat' = [chat EXCEPT !.builders = S] /\ pc' = "stream"
          /\ UNCHANGED <<state, pending, setup, runs, frame>>
      BY <1>8 DEF StreamToolCall
    <2>2. S \in SUBSET CallIds
      BY <1>2
    <2> HIDE DEF S
    <2>3. chat' \in Chats /\ chat'.calls = chat.calls /\ chat'.dones = chat.dones
      BY <1>2, <2>1, <2>2 DEF Chats
    <2>4. QED
      BY <1>4, <2>1, <2>3, ChatKeeps
  <1>9. ASSUME NEW q \in SetToSeqs(chat.builders), StreamDone(q)
        PROVE  LoopInv'
    <2> DEFINE k == chat.dones + 1
               t == chat.calls \o q
    <2>1. pc = "stream" /\ chat.dones < MaxDones /\ chat' = [chat EXCEPT !.dones = k, !.calls = t]
          /\ pc' = "stream" /\ UNCHANGED <<state, pending, setup, runs, frame>>
      BY <1>9 DEF StreamDone
    <2>2. k \in 0 .. MaxDones /\ k # 0
      BY <1>2, <2>1, AgentAssumption
    <2>3. q \in Seq(CallIds) /\ Listed(q, chat.builders)
      BY <1>2, ListingIs
    <2>4. t \in Seq(CallIds)
      BY <1>2, <2>3
    <2>5. Listed(t, chat.builders)
      <3>1. CASE chat.dones = 0 /\ chat.calls = <<>>
        <4>1. t = q
          BY <2>3, <3>1
        <4>2. QED
          BY <2>3, <4>1
      <3>2. CASE chat.dones # 0 /\ Listed(chat.calls, chat.builders)
        <4>1. ~(MaxDones <= 1)
          BY <1>2, <2>1, <3>2, AgentAssumption
        <4>2. QED
          BY <1>2, <2>3, <3>2, <4>1, ListedTwice
      <3>3. QED
        BY <1>4, <2>1, <3>1, <3>2
    <2> HIDE DEF k, t
    <2>6. chat' \in Chats /\ chat'.calls = t /\ chat'.dones = k /\ chat'.builders = chat.builders
      <3> DEFINE x == [chat EXCEPT !.dones = k]
      <3>1. chat' = [x EXCEPT !.calls = t]
        BY <2>1
      <3>2. x \in Chats /\ x.dones = k /\ x.builders = chat.builders
        BY <1>2, <2>2 DEF Chats
      <3> HIDE DEF x
      <3>3. QED
        BY <2>4, <3>1, <3>2 DEF Chats
    <2>7. QED
      BY <2>1, <2>2, <2>5, <2>6, ChatKeeps
  <1>10. ASSUME StreamError
         PROVE  LoopInv'
    <2> DEFINE b == TRUE
    <2>1. pc = "stream" /\ chat' = [chat EXCEPT !.retryable = b] /\ pc' = "stream" /\ b \in BOOLEAN
          /\ UNCHANGED <<state, pending, setup, runs, frame>>
      BY <1>10 DEF StreamError
    <2> HIDE DEF b
    <2>2. /\ chat' \in Chats /\ chat'.calls = chat.calls /\ chat'.dones = chat.dones
          /\ chat'.builders = chat.builders
      BY <1>2, <2>1 DEF Chats
    <2>3. QED
      BY <1>4, <2>1, <2>2, ChatKeeps
  <1>11. QED
    BY <1>5, <1>6, <1>7, <1>8, <1>9, <1>10

\* The answer is pushed.
LEMMA StreamEndStep ==
    ASSUME LoopInv, StreamEnd
    PROVE  LoopInv'
  <1> DEFINE S == chat.builders
             o == {}
  <1>1. /\ TypeInv /\ Good(state) /\ OpenInv /\ SnapshotInv /\ CallsInv
        /\ pc = "stream" /\ pc' = "attempted" /\ state' = PushAssistant(state, runs, S)
        /\ chat' = [chat EXCEPT !.builders = o]
        /\ UNCHANGED <<pending, system, executor, runs, frame>>
    BY LoopInvIs DEF StreamEnd, setup
  <1>2. /\ runs \in 0 .. MaxInvocations /\ chat \in Chats /\ S \in SUBSET CallIds
        /\ o \in SUBSET CallIds
    BY <1>1 DEF TypeInv, Chats
  <1> HIDE DEF o
  <1>3. Open(state.messages)
    BY <1>1 DEF OpenInv
  <1>4. \/ chat.calls = <<>> \/ Listed(chat.calls, S)
    BY <1>1 DEF CallsInv
  <1> HIDE DEF S
  <1>5. LET q == state'.messages
        IN  /\ Good(state') /\ Block(q, Len(q)) /\ q[Len(q)].calls = S
    BY <1>1, <1>2, <1>3, PushAssistantKeeps
  <1>6. chat' \in Chats /\ chat'.calls = chat.calls
    BY <1>1, <1>2 DEF Chats
  <1>7. TypeInv'
    BY <1>1, <1>6 DEF TypeInv
  <1>8. SnapshotInv' /\ OpenInv'
    BY <1>1 DEF SnapshotInv, OpenInv
  <1>9. CallsInv'
    BY <1>1, <1>4, <1>5, <1>6 DEF CallsInv
  <1>10. QED
    BY <1>5, <1>7, <1>8, <1>9, LoopInvIs

\* Every step keeps the invariant.
LEMMA LoopStep ==
    ASSUME LoopInv, [Next]_agentVars
    PROVE  LoopInv'
  <1>1. TypeInv /\ Good(state)
    BY LoopInvIs
  <1>2. CASE CompileFails \/ TurnsUsedUp \/ Settle \/ Cancel
    <2>1. Return /\ UNCHANGED <<state, setup, runs>> /\ pending' \subseteq Events
      BY <1>1, <1>2 DEF CompileFails, TurnsUsedUp, Settle, Cancel, TypeInv
    <2>2. Good(state')
      BY <1>1, <2>1
    <2>3. QED
      BY <2>1, <2>2, ReturnKeeps
  <1>3. CASE Idle
    BY <1>3, IdleStep
  <1>4. CASE Compile \/ Retry \/ StartTools \/ StreamEnd
    BY <1>4, CompileStep, RetryStep, StartToolsStep, StreamEndStep
  <1>5. CASE \E size \in ToolSizes : ExecuteTool(size)
    BY <1>5, ExecuteStep
  <1>6. CASE \/ ChatRetries \/ (\E r \in BOOLEAN : ChatFails(r)) \/ ChatOpens
             \/ (\E c \in CallIds : StreamToolCall(c))
             \/ (\E q \in SetToSeqs(chat.builders) : StreamDone(q)) \/ StreamError
    BY <1>6, ExchangeStep
  <1>7. CASE UNCHANGED agentVars
    BY <1>7 DEF agentVars, LoopInv, AgentTypeOK, Good, OpenInv, SnapshotInv, CallsInv
  <1>8. QED
    BY <1>2, <1>3, <1>4, <1>5, <1>6, <1>7 DEF Next, Step

\* The invariant holds of every run of the loop.
LEMMA LoopInvariant == Spec => []LoopInv
  <1>1. Init => LoopInv
    BY InitKeeps
  <1>2. LoopInv /\ [Next]_agentVars => LoopInv'
    BY LoopStep
  <1>3. QED
    BY <1>1, <1>2, PTL DEF Spec

----------------------------------------------------------------------------
(* The theorems *)

\* Types: the locals and the history keep their shape, whatever turns, retries
\* and cancellations happen.
THEOREM AgentTypeTheorem == Spec => []AgentTypeOK
  <1>1. LoopInv => AgentTypeOK
    BY DEF LoopInv
  <1>2. QED
    BY <1>1, LoopInvariant, PTL

\* No insertion, trim, retry, seed or cancellation separates an answer from the
\* results of its calls or puts two answers side by side (push_assistant and
\* push_tool_result of agent/state.rs, trim_messages).
THEOREM ConversationTheorem == Spec => []ConversationIsSound
  <1>1. LoopInv => ConversationIsSound
    <2> SUFFICES ASSUME LoopInv
                 PROVE  ConversationIsSound
      OBVIOUS
    <2> DEFINE q == state.messages
               r == state.sources
    <2>1. ToolsAnswer(q) /\ Apart(q) /\ Marked(q, r) /\ q \in Seq(Message)
      BY LoopInvIs DEF Good, Sound, States
    <2>2. DOMAIN q = 1 .. Len(q) /\ Len(q) \in Nat
      BY <2>1
    <2> HIDE DEF q, r
    <2>3. \A i \in DOMAIN q : q[i].role = "tool" =>
            \E j \in 1 .. i - 1 :
              /\ q[j].role = "assistant" /\ q[i].call \in q[j].calls
              /\ \A k \in j + 1 .. i : q[k].role = "tool"
              /\ q[i].named \/ q[j].of = 0
      BY <2>1 DEF ToolsAnswer, Answers
    <2>4. ASSUME NEW i \in DOMAIN q, q[i].role = "assistant", i > 1, q[i - 1].role = "assistant"
          PROVE  FALSE
      <3>1. i - 1 \in DOMAIN q /\ i - 1 < i /\ (i - 1) + 1 .. i - 1 = {}
        BY <2>2, <2>4
      <3>2. \E k \in (i - 1) + 1 .. i - 1 : q[k].role \in {"user", "tool"}
        BY <2>1, <2>4, <3>1 DEF Apart
      <3>3. QED
        BY <3>1, <3>2
    <2>5. \A i \in DOMAIN r : r[i] = "SystemInstruction" => i \in DOMAIN q /\ q[i].role = "system"
      BY <2>1 DEF Marked
    <2>6. QED
      BY <2>3, <2>4, <2>5 DEF ConversationIsSound, q, r
  <1>2. QED
    BY <1>1, LoopInvariant, PTL

\* Only results follow the last answer.
LEMMA LastIs ==
    ASSUME NEW q \in Seq(Message), NEW j, Block(q, j)
    PROVE  LastAssistant(q) = j
  <1> DEFINE I == {i \in 1 .. Len(q) : q[i].role = "assistant"}
             m == LastAssistant(q)
  <1>1. m = IF I # {} THEN Max(I) ELSE 0
    BY DEF LastAssistant, SelectLastInSeq, SelectLastInSubSeq
  <1>2. /\ Len(q) \in Nat /\ I \subseteq 1 .. Len(q) /\ I \subseteq Nat
        /\ \A x \in I : x <= Len(q)
    OBVIOUS
  <1>3. j \in I /\ \A i \in I : i <= j
    <2>1. j \in 1 .. Len(q) /\ q[j].role = "assistant"
      BY DEF Block
    <2>2. ASSUME NEW i \in I, ~(i <= j)
          PROVE  FALSE
      <3>1. i \in j + 1 .. Len(q) /\ q[i].role = "assistant"
        BY <2>1, <2>2
      <3>2. QED
        BY <3>1 DEF Block
    <2>3. QED
      BY <2>1, <2>2
  <1> HIDE DEF I, m
  <1>4. m = Max(I) /\ m \in I /\ \A x \in I : x <= m
    BY <1>1, <1>2, <1>3, MaxOfBounded
  <1>5. m <= j /\ j <= m /\ m \in Nat /\ j \in Nat
    BY <1>2, <1>3, <1>4
  <1>6. QED
    BY <1>5 DEF m

\* While the tools of an answer run, none is forgotten and none runs twice, if a
\* stream says Done at most once (execute_tool in run_with_observer).
THEOREM ToolsOnceTheorem ==
    ASSUME MaxDones <= 1
    PROVE  Spec => []ToolsRunOnce
  <1>1. LoopInv => ToolsRunOnce
    <2> SUFFICES ASSUME LoopInv, pc = "tools"
                 PROVE  ToolsRunOnce
      BY DEF ToolsRunOnce
    <2> DEFINE q == state.messages
               o == frame.todo
               calls == chat.calls
    <2>1. /\ q \in Seq(Message) /\ o \in Seq(CallIds)
      BY LoopInvIs DEF Good, States, TypeInv, Frames
    <2>2. PICK j \in DOMAIN q : Progress(q, j, calls, o)
      BY LoopInvIs DEF CallsInv
    <2> DEFINE n == Len(q) - j
               done == [i \in 1 .. n |-> q[j + i].call]
               all == done \o o
    <2>3. /\ Block(q, j) /\ Listed(calls, q[j].calls) /\ Len(calls) = n + Len(o)
          /\ \A i \in 1 .. n : q[j + i].call = calls[i]
          /\ \A i \in 1 .. Len(o) : o[i] = calls[n + i]
      BY <2>2 DEF Progress
    <2>4. n \in Nat /\ Len(o) \in Nat
      BY <2>1, <2>2
    <2>5. LastAssistant(q) = j /\ j # 0
      BY <2>1, <2>3, LastIs
    <2>6. /\ calls \in Seq(q[j].calls) /\ ToSet(calls) = q[j].calls
          /\ Len(calls) = Cardinality(q[j].calls)
      BY <2>3 DEF Listed
    <2>7. all = calls
      <3> DEFINE S == q[j].calls
      <3> HIDE DEF q, o, n, calls, S
      <3>1. Len(done) = n /\ done = [i \in 1 .. n |-> calls[i]]
        <4>1. \A i \in 1 .. n : q[j + i].call = calls[i]
          BY <2>3
        <4>2. done = [i \in 1 .. n |-> calls[i]]
          BY <4>1
        <4> HIDE DEF done
        <4>3. QED
          BY <2>4, <4>2
      <3>2. calls \in Seq(S) /\ DOMAIN calls = 1 .. n + Len(o) /\ Len(calls) = n + Len(o)
        BY <2>3, <2>6 DEF S
      <3>3. done \in Seq(S)
        <4>1. \A i \in 1 .. n : calls[i] \in S
          BY <2>4, <3>2
        <4> HIDE DEF done
        <4>2. QED
          BY <2>4, <3>1, <4>1
      <3> HIDE DEF done
      <3>4. o \in Seq(S)
        <4>1. \A i \in 1 .. Len(o) : n + i \in 1 .. n + Len(o)
          BY <2>4
        <4>2. \A i \in 1 .. Len(o) : o[i] \in S
          BY <2>3, <3>2, <4>1
        <4>3. QED
          BY <2>1, <4>2
      <3>5. all \in Seq(S) /\ IsJoined(all, done, o)
        BY <3>3, <3>4, Joined
      <3> HIDE DEF all
      <3>6. /\ Len(all) = n + Len(o) /\ \A i \in 1 .. n : all[i] = calls[i]
            /\ \A i \in 1 .. Len(o) : all[n + i] = calls[n + i]
        BY <2>3, <2>4, <3>1, <3>5 DEF IsJoined
      <3>7. \A i \in 1 .. n + Len(o) : i \in 1 .. n \/ (i - n \in 1 .. Len(o) /\ n + (i - n) = i)
        BY <2>4
      <3>8. \A i \in 1 .. n + Len(o) : all[i] = calls[i]
        BY <3>6, <3>7
      <3>9. QED
        BY <3>2, <3>5, <3>6, <3>8
    <2>8. ToSet(all) = q[j].calls /\ Len(all) = Cardinality(q[j].calls)
      BY <2>6, <2>7
    <2>9. QED
      BY <2>5, <2>8 DEF ToolsRunOnce
  <1>2. QED
    BY <1>1, LoopInvariant, PTL

----------------------------------------------------------------------------
(* What a request takes *)

\* f adds up the sizes.
Sums(f, q) ==
    /\ f \in [0 .. Len(q) -> Nat] /\ f[0] = 0
    /\ \A i \in 1 .. Len(q) : f[i] = f[i - 1] + q[i].size

\* Tokens is the last of the sums.
LEMMA TokensAre ==
    ASSUME NEW q \in Seq(Message)
    PROVE  \E f : Sums(f, q) /\ Tokens(q) = f[Len(q)]
  <1> DEFINE n == Len(q)
             Solves(g) == g = [i \in 0 .. n |-> IF i = 0 THEN 0 ELSE g[i - 1] + q[i].size]
             G == [i \in 1 .. n |-> [x \in Nat |-> x + q[i].size]]
  <1>1. n \in Nat /\ 0 \in Nat
    OBVIOUS
  <1>2. \A i \in 1 .. n : q[i].size \in Nat
    <2>1. \A i \in 1 .. n : q[i] \in Message
      OBVIOUS
    <2>2. \A m \in Message : m.size \in Nat
      BY DEF Message
    <2>3. QED
      BY <2>1, <2>2
  <1>3. Tokens(q) = (CHOOSE g : Solves(g))[n]
    BY DEF Tokens
  <1> HIDE DEF n
  <1>4. PICK f : Iterated(f, n, Nat, 0, G)
    <2>1. G \in [1 .. n -> [Nat -> Nat]]
      BY <1>2
    <2> HIDE DEF G
    <2>2. QED
      BY <1>1, <2>1, Iterates
  <1>5. \A i \in 0 .. n : i = 0 \/ (i \in 1 .. n /\ i - 1 \in 0 .. n)
    BY <1>1
  <1>6. \A i \in 1 .. n : f[i] = f[i - 1] + q[i].size
    <2> USE DEF Iterated
    <2> SUFFICES ASSUME NEW i \in 1 .. n
                 PROVE  f[i] = f[i - 1] + q[i].size
      OBVIOUS
    <2>1. i - 1 \in 0 .. n
      BY <1>1
    <2>2. f[i] = G[i][f[i - 1]] /\ f[i - 1] \in Nat
      BY <1>4, <2>1
    <2>3. QED
      BY <2>2
  <1>7. Solves(f)
    BY <1>1, <1>4, <1>5, <1>6 DEF Iterated
  <1> DEFINE c == CHOOSE g : Solves(g)
  <1>8. Solves(c)
    <2> HIDE DEF Solves
    <2>1. QED
      BY <1>7, Zenon
  <1> HIDE DEF c
  <1>9. c[0] = 0 /\ \A i \in 1 .. n : c[i] = c[i - 1] + q[i].size
    BY <1>1, <1>8
  <1> DEFINE T == {i \in 0 .. n : c[i] = f[i]}
  <1>10. n \in T
    <2>1. 0 \in T
      BY <1>1, <1>4, <1>9 DEF Iterated
    <2>2. \A i \in 1 .. n : i - 1 \in T => i \in T
      BY <1>1, <1>6, <1>9
    <2> HIDE DEF T
    <2>3. 0 .. n \subseteq T
      BY <1>1, <2>1, <2>2, UpTo
    <2>4. QED
      BY <1>1, <2>3
  <1>11. Tokens(q) = f[n]
    BY <1>3, <1>10 DEF c
  <1>12. QED
    BY <1>4, <1>6, <1>11 DEF Iterated, Sums, n

\* Two lists take what each of them takes.
LEMMA TokensAdd ==
    ASSUME NEW p \in Seq(Message), NEW t \in Seq(Message), NEW u \in Seq(Message),
           IsJoined(u, p, t)
    PROVE  /\ Tokens(u) = Tokens(p) + Tokens(t)
           /\ Tokens(p) \in Nat /\ Tokens(t) \in Nat
  <1> DEFINE l == Len(p)
             n == Len(t)
  <1>1. /\ l \in Nat /\ n \in Nat /\ Len(u) = l + n
        /\ \A i \in 1 .. l : u[i] = p[i]
        /\ \A i \in 1 .. n : u[l + i] = t[i]
    BY DEF IsJoined
  <1>2. PICK f : Sums(f, p) /\ Tokens(p) = f[l]
    BY TokensAre
  <1>3. PICK g : Sums(g, t) /\ Tokens(t) = g[n]
    BY TokensAre
  <1>4. PICK h : Sums(h, u) /\ Tokens(u) = h[Len(u)]
    BY TokensAre
  <1>5. /\ f \in [0 .. l -> Nat] /\ f[0] = 0 /\ \A i \in 1 .. l : f[i] = f[i - 1] + p[i].size
        /\ g \in [0 .. n -> Nat] /\ g[0] = 0 /\ \A i \in 1 .. n : g[i] = g[i - 1] + t[i].size
        /\ h[0] = 0 /\ \A i \in 1 .. l + n : h[i] = h[i - 1] + u[i].size
    BY <1>1, <1>2, <1>3, <1>4 DEF Sums
  <1>6. \A i \in 1 .. n : t[i].size \in Nat
    <2>1. \A i \in 1 .. n : t[i] \in Message
      OBVIOUS
    <2>2. \A m \in Message : m.size \in Nat
      BY DEF Message
    <2>3. QED
      BY <2>1, <2>2
  <1> HIDE DEF l, n
  <1> DEFINE T == {i \in 0 .. l : h[i] = f[i]}
  <1>7. l \in T
    <2>1. 0 \in T
      BY <1>1, <1>5
    <2>2. ASSUME NEW i \in 1 .. l, i - 1 \in T
          PROVE  i \in T
      <3>1. i \in 1 .. l + n /\ i \in 0 .. l
        BY <1>1
      <3>2. QED
        BY <1>1, <1>5, <2>2, <3>1
    <2> HIDE DEF T
    <2>3. 0 .. l \subseteq T
      BY <1>1, <2>1, <2>2, UpTo
    <2>4. QED
      BY <1>1, <2>3
  <1> DEFINE V == {i \in 0 .. n : h[l + i] = f[l] + g[i]}
  <1>8. f[l] \in Nat /\ g[n] \in Nat
    BY <1>1, <1>5
  <1>9. n \in V
    <2>1. 0 \in V
      BY <1>1, <1>5, <1>7, <1>8
    <2>2. ASSUME NEW i \in 1 .. n, i - 1 \in V
          PROVE  i \in V
      <3>1. l + i \in 1 .. l + n /\ i \in 0 .. n /\ i - 1 \in 0 .. n /\ (l + i) - 1 = l + (i - 1)
        BY <1>1
      <3>2. h[l + i] = h[l + (i - 1)] + t[i].size
        BY <1>1, <1>5, <3>1
      <3>3. h[l + (i - 1)] = f[l] + g[i - 1] /\ g[i] = g[i - 1] + t[i].size
        BY <1>5, <2>2
      <3>4. g[i - 1] \in Nat /\ t[i].size \in Nat
        BY <1>5, <1>6, <3>1
      <3>5. h[l + i] = f[l] + g[i]
        BY <1>8, <3>2, <3>3, <3>4
      <3>6. QED
        BY <3>1, <3>5
    <2> HIDE DEF V
    <2>3. 0 .. n \subseteq V
      BY <1>1, <2>1, <2>2, UpTo
    <2>4. QED
      BY <1>1, <2>3
  <1>10. h[l + n] = f[l] + g[n]
    BY <1>9
  <1>11. QED
    BY <1>1, <1>2, <1>3, <1>4, <1>8, <1>10 DEF l, n

\* Without the messages of the system in front, the others are left.
LEMMA SieveOfKept ==
    ASSUME NEW p \in Seq(Message), NEW t \in Seq(Message), NEW u \in Seq(Message),
           IsJoined(u, p, t), \A i \in DOMAIN p : p[i].role = "system",
           \A i \in DOMAIN t : t[i].role # "system"
    PROVE  Len(Sieve(u, FALSE)) = Len(t)
  <1> DEFINE l == Len(p)
             n == Len(t)
  <1>1. /\ l \in Nat /\ n \in Nat /\ Len(u) = l + n
        /\ \A i \in 1 .. l : u[i].role = "system"
        /\ \A i \in 1 .. n : u[l + i].role # "system"
    <2>1. /\ DOMAIN p = 1 .. l /\ DOMAIN t = 1 .. n /\ l \in Nat /\ n \in Nat /\ Len(u) = l + n
          /\ \A i \in DOMAIN p : u[i] = p[i]
          /\ \A i \in DOMAIN t : u[l + i] = t[i]
      BY JoinedFrom
    <2> HIDE DEF l, n
    <2>2. QED
      BY <2>1
  <1>2. PICK g : Sieves(g, u, FALSE) /\ Sieve(u, FALSE) = g[l + n]
    BY <1>1, SieveIterates
  <1>3. /\ g \in [0 .. l + n -> Seq(Message)] /\ g[0] = <<>>
        /\ \A i \in 1 .. l + n :
             g[i] = IF u[i].role # "system" THEN Append(g[i - 1], u[i]) ELSE g[i - 1]
    BY <1>1, <1>2 DEF Sieves
  <1>4. \A i \in 1 .. l + n : u[i] \in Message
    BY <1>1
  <1> HIDE DEF l, n
  <1> DEFINE T == {i \in 0 .. l : g[i] = <<>>}
  <1>5. l \in T
    <2>1. 0 \in T
      BY <1>1, <1>3
    <2>2. ASSUME NEW i \in 1 .. l, i - 1 \in T
          PROVE  i \in T
      <3>1. i \in 1 .. l + n /\ i \in 0 .. l
        BY <1>1
      <3>2. QED
        BY <1>1, <1>3, <2>2, <3>1
    <2> HIDE DEF T
    <2>3. 0 .. l \subseteq T
      BY <1>1, <2>1, <2>2, UpTo
    <2>4. QED
      BY <1>1, <2>3
  <1> DEFINE V == {i \in 0 .. n : Len(g[l + i]) = i}
  <1>6. n \in V
    <2>1. 0 \in V
      <3>1. g[l + 0] = <<>>
        BY <1>1, <1>5
      <3>2. QED
        BY <1>1, <3>1
    <2>2. ASSUME NEW i \in 1 .. n, i - 1 \in V
          PROVE  i \in V
      <3> DEFINE x == g[l + (i - 1)]
      <3>1. l + i \in 1 .. l + n /\ i \in 0 .. n /\ (l + i) - 1 = l + (i - 1)
            /\ l + (i - 1) \in 0 .. l + n
        BY <1>1
      <3>2. g[l + i] = Append(x, u[l + i]) /\ x \in Seq(Message) /\ u[l + i] \in Message
        BY <1>1, <1>3, <1>4, <3>1
      <3>3. Len(x) = i - 1
        BY <2>2
      <3> HIDE DEF x
      <3>4. Len(g[l + i]) = i
        BY <3>2, <3>3
      <3>5. QED
        BY <3>1, <3>4
    <2> HIDE DEF V
    <2>3. 0 .. n \subseteq V
      BY <1>1, <2>1, <2>2, UpTo
    <2>4. QED
      BY <1>1, <2>3
  <1>7. QED
    BY <1>2, <1>6 DEF n

\* A request that need not be trimmed further.
Fitting(q) == Tokens(q) <= Budget \/ Len(Sieve(q, FALSE)) <= 2

\* What trimming leaves.
LEMMA TrimFits ==
    ASSUME NEW s, Good(s), NEW v \in Trim(s)
    PROVE  Fitting(v.messages)
  <1> DEFINE q     == s.messages
             fixed == Sieve(q, TRUE)
             rest  == Sieve(q, FALSE)
             k     == Tokens(fixed)
             d     == Dropped(rest, k)
             t     == SubSeq(rest, d + 1, Len(rest))
             u     == fixed \o t
             w     == TrimmedSources(s, Len(u))
  <1>1. q \in Seq(Message) /\ Sound(q) /\ s \in States
    BY MadeOf DEF Good
  <1>2. v = IF Len(rest) <= 2 THEN s ELSE [s EXCEPT !.messages = u, !.sources = w]
    <2> DEFINE x == IF Len(rest) <= 2 THEN s ELSE [s EXCEPT !.messages = u, !.sources = w]
    <2>1. Trimmed(s, fixed, rest) = x
      BY DEF Trimmed
    <2> HIDE DEF x
    <2>2. v = Trimmed(s, fixed, rest)
      BY DEF Trim
    <2> HIDE DEF u, w, rest, fixed
    <2>3. QED
      BY <2>1, <2>2 DEF x
  <1>3. CASE Len(rest) <= 2
    <2>1. v = s
      BY <1>2, <1>3
    <2>2. QED
      BY <1>3, <2>1 DEF Fitting
  <1>4. CASE ~(Len(rest) <= 2)
    <2>1. v = [s EXCEPT !.messages = u, !.sources = w]
      BY <1>2, <1>4
    <2>2. /\ fixed \in Seq(Message) /\ \A i \in DOMAIN fixed : (fixed[i].role = "system") = TRUE
      BY <1>1, SievedAre
    <2>3. /\ rest \in Seq(Message) /\ \A i \in DOMAIN rest : (rest[i].role = "system") = FALSE
      BY <1>1, SievedAre
    <2>4. PICK h : Thinned(rest, q, Len(q), FALSE, h)
      BY <1>1, SieveIs
    <2> HIDE DEF q, fixed, rest
    <2>5. Sound(rest)
      BY <1>1, <2>4, ThinKeeps
    <2>6. d \in 0 .. Len(rest) /\ Fits(rest, k, d)
      BY <2>3, <2>5, DroppedIs
    <2>7. Len(rest) - d <= 2 \/ Tokens(t) + k <= Budget
      BY <2>6 DEF Fits
    <2> HIDE DEF d
    <2>8. t \in Seq(Message) /\ IsCut(t, rest, d)
      BY <2>3, <2>6, CutIs
    <2> HIDE DEF t
    <2>9. \A i \in DOMAIN t : t[i].role # "system"
      <3> SUFFICES ASSUME NEW i \in DOMAIN t
                   PROVE  t[i].role # "system"
        OBVIOUS
      <3>1. i \in 1 .. Len(t) /\ t[i] = rest[d + i] /\ Len(t) = Len(rest) - d
        BY <2>8 DEF IsCut
      <3>2. d + i \in DOMAIN rest
        BY <2>3, <2>6, <3>1
      <3>3. QED
        BY <2>3, <3>1, <3>2
    <2>10. u \in Seq(Message) /\ IsJoined(u, fixed, t)
      BY <2>2, <2>8, Joined
    <2> HIDE DEF u, w
    <2>11. v.messages = u
      BY <1>1, <2>1 DEF States
    <2>12. Len(Sieve(u, FALSE)) = Len(t)
      <3>1. \A i \in DOMAIN fixed : fixed[i].role = "system"
        BY <2>2
      <3>2. QED
        BY <2>2, <2>8, <2>9, <2>10, <3>1, SieveOfKept
    <2>13. Tokens(u) = k + Tokens(t) /\ k \in Nat /\ Tokens(t) \in Nat
      BY <2>2, <2>8, <2>10, TokensAdd
    <2> HIDE DEF k
    <2>14. CASE Len(rest) - d <= 2
      <3>1. Len(t) <= 2
        BY <2>8, <2>14 DEF IsCut
      <3>2. QED
        BY <2>11, <2>12, <3>1 DEF Fitting
    <2>15. CASE Tokens(t) + k <= Budget
      <3>1. Tokens(u) <= Budget
        BY <2>13, <2>15
      <3>2. QED
        BY <2>11, <3>1 DEF Fitting
    <2>16. QED
      BY <2>7, <2>14, <2>15
  <1>5. QED
    BY <1>3, <1>4

----------------------------------------------------------------------------
(* The requests of run *)

\* A request that run sends in the current turn.
Requested(q) == Fitting(q) /\ (frame.turn > 0 => Settled(q))

\* The tools of a turn leave their answer settled; the request is what the
\* trim left, and a retry sends it again.
RequestInv ==
    /\ pc = "prompt" /\ frame.turn > 0 => Settled(state.messages)
    /\ pc \in {"chat", "stream"} /\ Running => Requested(state.messages)
    /\ pc \in {"chat", "stream", "attempted"} /\ Running => Requested(frame.snapshot.messages)

\* The last tool of a turn settles the answer.
LEMMA LastToolSettles ==
    ASSUME NEW q \in Seq(Message), NEW j \in DOMAIN q, NEW calls, NEW todo \in Seq(CallIds),
           Progress(q, j, calls, todo), ~(Len(todo) > 1),
           NEW t \in Seq(Message), IsAnswered(t, q, Head(todo)), Block(t, j), t[j] = q[j]
    PROVE  Settled(t)
  <1> DEFINE n == Len(q)
             d == n - j
             S == q[j].calls
  <1>1. /\ n \in Nat /\ j \in 1 .. n /\ d \in Nat /\ j + d = n
        /\ Len(todo) = 1 /\ Head(todo) = todo[1]
    <2>1. todo # <<>>
      BY DEF Progress
    <2> DEFINE l == Len(todo)
    <2>2. l \in Nat /\ l # 0 /\ ~(l > 1) /\ Head(todo) = todo[1]
      BY <2>1
    <2>3. n \in Nat /\ j \in 1 .. n
      OBVIOUS
    <2> HIDE DEF n, l
    <2>4. l = 1
      BY <2>2
    <2>5. QED
      BY <2>2, <2>3, <2>4 DEF l
  <1>2. /\ calls \in Seq(S) /\ ToSet(calls) = S /\ Len(calls) = d + 1
        /\ \A i \in 1 .. d : q[j + i].call = calls[i]
        /\ todo[1] = calls[d + 1]
    BY <1>1 DEF Progress, Listed
  <1>3. DOMAIN calls = 1 .. d + 1 /\ S = {calls[i] : i \in DOMAIN calls}
    BY <1>2 DEF ToSet
  <1>4. Len(t) = n + 1 /\ t[n + 1].call = todo[1] /\ \A i \in 1 .. n : t[i] = q[i]
    BY <1>1 DEF IsAnswered
  <1>5. t[j].role = "assistant" /\ \A k \in j + 1 .. n + 1 : t[k].role = "tool"
    BY <1>4 DEF Block
  <1> SUFFICES ASSUME NEW m \in DOMAIN t, IsLastAnswer(t, m), NEW c \in t[m].calls
               PROVE  \E i \in m + 1 .. Len(t) : t[i].role = "tool" /\ t[i].call = c
    BY DEF Settled
  <1>6. m = j
    <2>1. m \in 1 .. n + 1 /\ t[m].role = "assistant" /\ \A k \in m + 1 .. n + 1 : t[k].role # "assistant"
      BY <1>4 DEF IsLastAnswer
    <2> HIDE DEF n, d, S
    <2>2. ~(m > j)
      <3>1. ASSUME m > j
            PROVE  FALSE
        <4>1. m \in j + 1 .. n + 1
          BY <1>1, <2>1, <3>1
        <4>2. t[m].role = "tool"
          BY <1>5, <4>1
        <4>3. QED
          BY <2>1, <4>2
      <3>2. QED
        BY <3>1
    <2>3. ~(j > m)
      <3>1. ASSUME j > m
            PROVE  FALSE
        <4>1. j \in m + 1 .. n + 1
          BY <1>1, <2>1, <3>1
        <4>2. QED
          BY <1>5, <2>1, <4>1
      <3>2. QED
        BY <3>1
    <2>4. QED
      BY <1>1, <2>1, <2>2, <2>3
  <1>7. c \in S
    BY <1>6
  <1> HIDE DEF n, d, S
  <1>8. PICK i \in 1 .. d + 1 : calls[i] = c
    BY <1>3, <1>7
  <1>9. j + i \in j + 1 .. n + 1
    BY <1>1
  <1>10. t[j + i].call = c
    <2>1. CASE i \in 1 .. d
      <3>1. j + i \in 1 .. n
        BY <1>1, <2>1
      <3>2. QED
        BY <1>2, <1>4, <1>8, <2>1, <3>1
    <2>2. CASE i = d + 1
      BY <1>1, <1>2, <1>4, <1>8, <2>2
    <2>3. QED
      BY <1>1, <2>1, <2>2
  <1>11. QED
    BY <1>4, <1>5, <1>6, <1>9, <1>10

\* No request is under way.
LEMMA QuietKeeps ==
    ASSUME RequestInv,
           \/ pc' = "idle"
           \/ pc' = "tools"
           \/ pc' = "prompt" /\ frame'.turn = 0
           \/ pc' = "chat" /\ frame'.mode \in {"send", "submit"}
    PROVE  RequestInv'
  BY DEF RequestInv, Running

\* The request stays what it is, or is over.
LEMMA SameRequest ==
    ASSUME RequestInv, frame' = frame,
           \/ pc \in {"chat", "stream"} /\ pc' \in {"chat", "stream"} /\ UNCHANGED state
           \/ pc \in {"chat", "stream"} /\ pc' = "attempted"
           \/ pc' = pc /\ UNCHANGED state
    PROVE  RequestInv'
  BY DEF RequestInv, Running, Requested

\* The request of a turn is put together.
LEMMA CompileRequests ==
    ASSUME LoopInv, RequestInv, Compile
    PROVE  RequestInv'
  <1>1. /\ TypeInv /\ Good(state) /\ OpenInv /\ pc = "prompt" /\ pc' = "chat"
    BY LoopInvIs DEF Compile
  <1> DEFINE w == IF system THEN PushSystem(state) ELSE state
             u == UpsertUserFrom(w, frame.start, runs)
  <1>2. PICK v \in Trim(u) :
          state' = v /\ frame' = [frame EXCEPT !.snapshot = v, !.retry = 0]
    BY DEF Compile
  <1>3. runs \in 0 .. MaxInvocations /\ frame \in Frames /\ frame.start \in Nat
    BY <1>1 DEF TypeInv, Frames
  <1>4. Open(state.messages) \/ Len(state.messages) <= frame.start
    BY <1>1 DEF OpenInv
  <1>5. Len(state.messages) \in Nat
    BY <1>1 DEF Good, States
  <1>6. /\ Good(w) /\ (Open(state.messages) => Open(w.messages))
        /\ Settled(state.messages) => Settled(w.messages)
        /\ Len(w.messages) \in {Len(state.messages), Len(state.messages) + 1}
    BY <1>1, PushSystemKeeps
  <1> HIDE DEF w
  <1>7. Open(w.messages) \/ Len(w.messages) <= frame.start + 1
    BY <1>3, <1>4, <1>5, <1>6
  <1>8. Good(u) /\ (Settled(w.messages) => Settled(u.messages))
    BY <1>3, <1>6, <1>7, UpsertKeeps
  <1> HIDE DEF u
  <1>9. Fitting(v.messages) /\ (Settled(u.messages) => Settled(v.messages))
    BY <1>8, TrimKeeps, TrimFits
  <1>10. frame.turn > 0 => Settled(v.messages)
    BY <1>1, <1>6, <1>8, <1>9 DEF RequestInv
  <1>11. frame'.snapshot = v /\ frame'.turn = frame.turn
    BY <1>2, <1>3 DEF Frames
  <1>12. Requested(v.messages)'
    BY <1>2, <1>9, <1>10, <1>11 DEF Requested
  <1>13. QED
    BY <1>1, <1>2, <1>9, <1>10, <1>11 DEF RequestInv, Requested

\* run sends the request again.
LEMMA RetryRequests ==
    ASSUME LoopInv, RequestInv, Retry
    PROVE  RequestInv'
  <1>1. /\ TypeInv /\ pc = "attempted" /\ pc' = "chat" /\ state' = frame.snapshot
        /\ frame.mode = "run" /\ frame' = [frame EXCEPT !.retry = frame.retry + 1]
    BY LoopInvIs DEF Retry
  <1>2. /\ frame'.snapshot = frame.snapshot /\ frame'.turn = frame.turn
    BY <1>1 DEF TypeInv, Frames
  <1>3. Fitting(frame.snapshot.messages) /\ (frame.turn > 0 => Settled(frame.snapshot.messages))
    BY <1>1 DEF RequestInv, Requested, Running
  <1>4. QED
    BY <1>1, <1>2, <1>3 DEF RequestInv, Requested

\* The last tool of a turn.
LEMMA ExecuteRequests ==
    ASSUME LoopInv, RequestInv, NEW size \in ToolSizes, ExecuteTool(size)
    PROVE  RequestInv'
  <1> DEFINE q == state.messages
             c == Head(frame.todo)
  <1>1. /\ TypeInv /\ Good(state) /\ CallsInv /\ pc = "tools"
        /\ state' = PushToolResult(state, runs, c, size)
    BY LoopInvIs DEF ExecuteTool
  <1>2. /\ frame.todo \in Seq(CallIds) /\ runs \in 0 .. MaxInvocations /\ q \in Seq(Message)
    BY <1>1 DEF TypeInv, Frames, Good, States
  <1>3. PICK j \in DOMAIN q : Progress(q, j, chat.calls, frame.todo)
    BY <1>1 DEF CallsInv
  <1>4. Block(q, j)
    BY <1>3 DEF Progress
  <1>5. c \in q[j].calls /\ c \in CallIds
    BY <1>2, <1>3, ProgressOn
  <1> HIDE DEF c
  <1>6. Good(state') /\ Block(state'.messages, j) /\ state'.messages[j] = q[j]
    BY <1>1, <1>2, <1>4, <1>5, PushToolResultKeeps
  <1>7. IsAnswered(state'.messages, q, c)
    BY <1>1, <1>2, <1>5, PushToolResultIs
  <1> HIDE DEF q
  <1>8. state'.messages \in Seq(Message)
    BY <1>6 DEF Good, States
  <1>9. CASE Len(frame.todo) > 1
    <2>1. pc' = "tools"
      BY <1>1, <1>9 DEF ExecuteTool
    <2>2. QED
      BY <2>1, QuietKeeps
  <1>10. CASE ~(Len(frame.todo) > 1)
    <2>1. pc' = "prompt"
      BY <1>1, <1>10 DEF ExecuteTool
    <2> DEFINE t == state'.messages
    <2>2. t \in Seq(Message) /\ IsAnswered(t, q, Head(frame.todo)) /\ Block(t, j) /\ t[j] = q[j]
      BY <1>6, <1>7, <1>8 DEF c
    <2> HIDE DEF t
    <2>3. Settled(t)
      BY <1>2, <1>3, <1>10, <2>2, LastToolSettles
    <2>4. QED
      BY <2>1, <2>3 DEF RequestInv, t
  <1>11. QED
    BY <1>9, <1>10

\* Every step keeps the requests as they are to be.
LEMMA RequestStep ==
    ASSUME LoopInv, RequestInv, [Next]_agentVars
    PROVE  RequestInv'
  <1>1. CASE CompileFails \/ TurnsUsedUp \/ Settle \/ Cancel
    <2>1. pc' = "idle"
      BY <1>1 DEF CompileFails, TurnsUsedUp, Settle, Cancel, Return
    <2>2. QED
      BY <2>1, QuietKeeps
  <1>2. CASE Idle
    <2>1. ASSUME NEW mode, NEW at, Begin(mode, at)
          PROVE  pc' = at /\ frame'.turn = 0 /\ frame'.mode = mode
      BY <2>1 DEF Begin, NewFrame
    <2>2. CASE SetSystemPrompt \/ (\E e \in Events : InjectBusEvents(e)) \/ (\E h \in Seeds : Seed(h))
      <3>1. pc' = "idle"
        BY <2>2 DEF SetSystemPrompt, InjectBusEvents, Seed
      <3>2. QED
        BY <3>1, QuietKeeps
    <2>3. CASE Run \/ RunStreaming
      <3>1. pc' = "prompt" /\ frame'.turn = 0
        BY <2>1, <2>3 DEF Run, RunStreaming
      <3>2. QED
        BY <3>1, QuietKeeps
    <2>4. CASE SendMessage
      <3>1. pc' = "chat" /\ frame'.mode = "send"
        BY <2>1, <2>4 DEF SendMessage
      <3>2. QED
        BY <3>1, QuietKeeps
    <2>5. CASE \E S \in SUBSET Unanswered(state.messages), size \in ToolSizes :
                 \E q \in SetToSeqs(S) : SubmitTools(q, size)
      <3>1. pc' = "chat" /\ frame'.mode = "submit"
        BY <2>1, <2>5 DEF SubmitTools
      <3>2. QED
        BY <3>1, QuietKeeps
    <2>6. QED
      BY <1>2, <2>2, <2>3, <2>4, <2>5 DEF Idle
  <1>3. CASE Compile
    BY <1>3, CompileRequests
  <1>4. CASE Retry
    BY <1>4, RetryRequests
  <1>5. CASE StartTools
    <2>1. pc' = "tools"
      BY <1>5 DEF StartTools
    <2>2. QED
      BY <2>1, QuietKeeps
  <1>6. CASE \E size \in ToolSizes : ExecuteTool(size)
    BY <1>6, ExecuteRequests
  <1>7. CASE \/ ChatRetries \/ (\E r \in BOOLEAN : ChatFails(r)) \/ ChatOpens
             \/ (\E c \in CallIds : StreamToolCall(c))
             \/ (\E q \in SetToSeqs(chat.builders) : StreamDone(q)) \/ StreamError
             \/ StreamEnd
    <2>1. /\ frame' = frame
          /\ \/ pc \in {"chat", "stream"} /\ pc' \in {"chat", "stream"} /\ UNCHANGED state
             \/ pc \in {"chat", "stream"} /\ pc' = "attempted"
      BY <1>7 DEF ChatRetries, ChatFails, ChatOpens, StreamToolCall, StreamDone, StreamError,
                  StreamEnd
    <2>2. QED
      BY <2>1, SameRequest
  <1>8. CASE UNCHANGED agentVars
    BY <1>8, SameRequest DEF agentVars
  <1>9. QED
    BY <1>1, <1>2, <1>3, <1>4, <1>5, <1>6, <1>7, <1>8 DEF Next, Step

\* LastAssistant is the last answer.
LEMMA LastAnswerIs ==
    ASSUME NEW q \in Seq(Message), LastAssistant(q) # 0
    PROVE  IsLastAnswer(q, LastAssistant(q))
  <1> DEFINE I == {i \in 1 .. Len(q) : q[i].role = "assistant"}
             m == LastAssistant(q)
  <1>1. m = IF I # {} THEN Max(I) ELSE 0
    BY DEF LastAssistant, SelectLastInSeq, SelectLastInSubSeq
  <1>2. /\ Len(q) \in Nat /\ I \subseteq Nat /\ \A x \in I : x <= Len(q)
        /\ DOMAIN q = 1 .. Len(q)
    OBVIOUS
  <1>3. m # 0
    OBVIOUS
  <1>4. m \in I /\ \A x \in I : x <= m
    <2> HIDE DEF I, m
    <2>1. I # {}
      BY <1>1, <1>3
    <2>2. QED
      BY <1>1, <1>2, <2>1, MaxOfBounded
  <1> HIDE DEF m
  <1>5. m \in 1 .. Len(q) /\ q[m].role = "assistant"
    BY <1>4
  <1>6. ASSUME NEW k \in m + 1 .. Len(q), q[k].role = "assistant"
        PROVE  FALSE
    <2>1. k \in I
      BY <1>2, <1>5, <1>6
    <2>2. k <= m
      BY <1>4, <2>1
    <2>3. QED
      BY <1>2, <1>5, <2>2
  <1>7. QED
    BY <1>2, <1>5, <1>6 DEF IsLastAnswer, m

\* A request of run fits the budget or cannot be trimmed further, an attempt
\* that is retried sends no more than the first did, and from the second turn
\* on the model sees a result for every call of its last answer (the compile,
\* trim and snapshot of run_with_observer, push_tool_result).
THEOREM RequestsTheorem == Spec => []RequestsAreSound
  <1>1. Init => RequestInv
    BY DEF Init, RequestInv
  <1>2. LoopInv /\ RequestInv /\ [Next]_agentVars => RequestInv'
    BY RequestStep
  <1>3. LoopInv /\ RequestInv => RequestsAreSound
    <2> SUFFICES ASSUME LoopInv, RequestInv, pc \in {"chat", "stream"}, Running
                 PROVE  RequestsAreSound
      BY DEF RequestsAreSound
    <2> DEFINE q == state.messages
               j == LastAssistant(q)
    <2>1. q \in Seq(Message)
      BY LoopInvIs DEF Good, States
    <2>2. Fitting(q) /\ (frame.turn > 0 => Settled(q))
      BY DEF RequestInv, Requested
    <2> HIDE DEF q
    <2>3. ASSUME frame.turn > 0, j # 0
          PROVE  q[j].calls \subseteq Answered(q, j)
      <3>1. IsLastAnswer(q, j)
        BY <2>1, <2>3, LastAnswerIs
      <3> HIDE DEF j
      <3>2. \A c \in q[j].calls : \E i \in j + 1 .. Len(q) : q[i].role = "tool" /\ q[i].call = c
        BY <2>2, <2>3, <3>1 DEF Settled, IsLastAnswer
      <3>3. QED
        BY <3>2 DEF Answered
    <2>4. QED
      BY <2>2, <2>3 DEF RequestsAreSound, Fitting, q
  <1>4. QED
    BY <1>1, <1>2, <1>3, LoopInvariant, PTL DEF Spec
=============================================================================
