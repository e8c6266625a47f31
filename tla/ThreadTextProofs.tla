---------------------------- MODULE ThreadTextProofs ---------------------------
(***************************************************************************)
(* A conversation file can be read back: machine-checked proofs for all    *)
(* mails, whatever their bodies hold.                                      *)
(***************************************************************************)
EXTENDS ThreadText, TextProofs

-----------------------------------------------------------------------------
(* Reading a text *)

IsText(T) == T \in Seq(ToSet(T))

\* The positions of a text, and those of its headings among them.
LEMMA TextDomain ==
    ASSUME NEW T, IsText(T)
    PROVE  /\ Len(T) \in Nat /\ DOMAIN T = 1..Len(T)
           /\ Headings(T) \subseteq 1..Len(T) /\ Headings(T) \in SUBSET Nat
<1>1. Len(T) \in Nat /\ DOMAIN T = 1..Len(T)
  BY LenProperties DEF IsText
<1> QED BY <1>1 DEF Headings

\* A message goes up to the next heading.
LEMMA EndIs ==
    ASSUME NEW T, IsText(T), NEW i \in Headings(T)
    PROVE  /\ End(T, i) \in i..Len(T) /\ End(T, i) \in Nat
           /\ \A j \in i + 1..End(T, i) : j \notin Headings(T)
           /\ End(T, i) = Len(T) \/ End(T, i) + 1 \in Headings(T)
<1> DEFINE N == {j \in Headings(T) : j > i} \cup {Len(T) + 1}
<1>1. Len(T) \in Nat /\ Headings(T) \subseteq 1..Len(T) /\ i \in 1..Len(T)
  BY TextDomain
<1>2. N \in SUBSET Nat /\ N # {}
  BY <1>1
<1>3. Min(N) \in N /\ \A m \in N : Min(N) <= m
  BY <1>2, MinIs
<1> DEFINE e == Min(N)
<1>4. e \in N /\ \A m \in N : e <= m
  BY <1>3
<1>5. End(T, i) = e - 1
  BY DEF End
<1> HIDE DEF e
<1>6. e \in Nat /\ e > i /\ e <= Len(T) + 1 /\ (e = Len(T) + 1 \/ e \in Headings(T))
  BY <1>1, <1>4
<1>7. ASSUME NEW j \in i + 1..e - 1 PROVE j \notin Headings(T)
  <2>1. j \in Nat /\ j > i /\ j < e
    BY <1>1, <1>6
  <2> QED BY <2>1, <1>4, <1>6
<1>8. e - 1 \in i..Len(T) /\ (e - 1) + 1 = e
  BY <1>1, <1>6
<1> QED BY <1>1, <1>5, <1>6, <1>7, <1>8

\* A heading is in the message that it starts.
LEMMA OneSection ==
    ASSUME NEW T, IsText(T), NEW i \in Headings(T), NEW p \in Headings(T),
           NEW q \in i + 1..End(T, i), p < q, q <= End(T, p)
    PROVE  i = p
<1>1. i \in Nat /\ p \in Nat /\ q \in Nat
  BY TextDomain, EndIs
<1>2. \A j \in i + 1..End(T, i) : j \notin Headings(T)
  BY EndIs
<1>3. \A j \in p + 1..End(T, p) : j \notin Headings(T)
  BY EndIs
<1>4. End(T, i) \in Nat /\ End(T, p) \in Nat
  BY EndIs
<1>5. ~ i < p
  BY <1>1, <1>2, <1>4
<1>6. ~ p < i
  BY <1>1, <1>3, <1>4
<1> QED BY <1>1, <1>5, <1>6

\* A message ends on the last line before the next heading, or of the file.
LEMMA EndIsAt ==
    ASSUME NEW T, IsText(T), NEW i \in Headings(T), NEW e \in i..Len(T),
           \A j \in i + 1..e : j \notin Headings(T),
           e = Len(T) \/ e + 1 \in Headings(T)
    PROVE  End(T, i) = e
<1>1. i \in Nat /\ Len(T) \in Nat /\ e \in Nat /\ Headings(T) \subseteq 1..Len(T)
  BY TextDomain
<1>2. /\ End(T, i) \in i..Len(T) /\ End(T, i) \in Nat
      /\ \A j \in i + 1..End(T, i) : j \notin Headings(T)
      /\ End(T, i) = Len(T) \/ End(T, i) + 1 \in Headings(T)
  BY EndIs
<1> DEFINE f == End(T, i)
<1> HIDE DEF f
<1>3. /\ f \in i..Len(T) /\ f \in Nat /\ (\A j \in i + 1..f : j \notin Headings(T))
      /\ f = Len(T) \/ f + 1 \in Headings(T)
  BY <1>2 DEF f
<1>4. ~ f < e
  <2>1. SUFFICES ASSUME f < e PROVE FALSE
    OBVIOUS
  <2>2. f + 1 \in i + 1..e /\ f # Len(T)
    BY <1>1, <1>3, <2>1
  <2> QED BY <2>2, <1>3
<1>5. ~ e < f
  <2>1. SUFFICES ASSUME e < f PROVE FALSE
    OBVIOUS
  <2>2. e + 1 \in i + 1..f /\ e # Len(T)
    BY <1>1, <1>3, <2>1
  <2> QED BY <2>2, <1>3
<1> QED BY <1>1, <1>3, <1>4, <1>5 DEF f

\* The value of a key in the headers.
LEMMA HeaderValue ==
    ASSUME NEW T, IsText(T), NEW i \in Headings(T), NEW k
    PROVE  LET I == Header(T, i) \cap MetaLines(T, k)
           IN /\ I = {} => LastValue(T, I, Missing) = Missing
              /\ I # {} => \E j \in I : LastValue(T, I, Missing) = T[j][3] /\ \A l \in I : l <= j
<1> DEFINE I == Header(T, i) \cap MetaLines(T, k)
<1>1. Len(T) \in Nat /\ i \in Nat /\ End(T, i) \in Nat
  BY TextDomain, EndIs
<1>2. I \in SUBSET Nat /\ \A j \in I : j <= End(T, i)
  BY <1>1 DEF Header
<1>3. I # {} => Max(I) \in I /\ \A l \in I : l <= Max(I)
  BY <1>1, <1>2, MaxIs
<1> HIDE DEF I
<1>4. /\ I = {} => LastValue(T, I, Missing) = Missing
      /\ I # {} => LastValue(T, I, Missing) = T[Max(I)][3]
  BY DEF LastValue
<1>5. I # {} => \E j \in I : LastValue(T, I, Missing) = T[j][3] /\ \A l \in I : l <= j
  BY <1>3, <1>4
<1> QED BY <1>4, <1>5 DEF I

\* The parts of a message that is read.
LEMMA MessageIs ==
    ASSUME NEW T, IsText(T), NEW i \in Headings(T)
    PROVE  LET y == MessageAt(T, i)
           IN /\ y = [from |-> y.from, date |-> y.date, mid |-> y.mid, to |-> y.to, body |-> y.body]
              /\ y.from = T[i][2] /\ y.date = T[i][3] /\ y.from # Missing /\ y.date # Missing
              /\ y.mid = LastValue(T, Header(T, i) \cap MetaLines(T, "Message-ID"), Missing)
              /\ y.to = LastValue(T, Header(T, i) \cap MetaLines(T, "To"), Missing)
              /\ y.body = At(T, Content(T, i))
<1> DEFINE y == MessageAt(T, i)
<1>1. /\ y = [from |-> y.from, date |-> y.date, mid |-> y.mid, to |-> y.to, body |-> y.body]
      /\ y.from = T[i][2] /\ y.date = T[i][3]
      /\ y.mid = LastValue(T, Header(T, i) \cap MetaLines(T, "Message-ID"), Missing)
      /\ y.to = LastValue(T, Header(T, i) \cap MetaLines(T, "To"), Missing)
      /\ y.body = At(T, Content(T, i))
  BY DEF MessageAt
<1>2. T[i][2] # Missing /\ T[i][3] # Missing
  BY DEF Headings, IsHeading, NamesSender
<1> QED BY <1>1, <1>2

\* The Message-ID that is read is in a header.
LEMMA MidIsRead ==
    ASSUME NEW T, IsText(T), NEW i \in Headings(T)
    PROVE  /\ MessageAt(T, i).mid # Missing =>
                 \E j \in Header(T, i) : IsMeta(T[j], "Message-ID") /\ MessageAt(T, i).mid = T[j][3]
           /\ (\A j \in MetaLines(T, "Message-ID") : T[j][3] # Missing) =>
                 \A j \in Header(T, i) : IsMeta(T[j], "Message-ID") => MessageAt(T, i).mid # Missing
<1> DEFINE I == Header(T, i) \cap MetaLines(T, "Message-ID")
<1>1. MessageAt(T, i).mid = LastValue(T, I, Missing)
  BY MessageIs
<1>2. /\ I = {} => LastValue(T, I, Missing) = Missing
      /\ I # {} => \E j \in I : LastValue(T, I, Missing) = T[j][3] /\ \A l \in I : l <= j
  BY HeaderValue
<1>3. Header(T, i) \subseteq DOMAIN T
  <2>1. i \in 1..Len(T) /\ Len(T) \in Nat /\ DOMAIN T = 1..Len(T) /\ End(T, i) \in i..Len(T)
    BY TextDomain, EndIs
  <2> QED BY <2>1 DEF Header
<1>4. \A j : j \in I <=> j \in Header(T, i) /\ IsMeta(T[j], "Message-ID")
  BY <1>3 DEF MetaLines
<1> HIDE DEF I
<1>5. ASSUME MessageAt(T, i).mid # Missing
      PROVE  \E j \in Header(T, i) : IsMeta(T[j], "Message-ID") /\ MessageAt(T, i).mid = T[j][3]
  BY <1>1, <1>2, <1>4, <1>5
<1>6. ASSUME \A j \in MetaLines(T, "Message-ID") : T[j][3] # Missing,
             NEW j \in Header(T, i), IsMeta(T[j], "Message-ID")
      PROVE  MessageAt(T, i).mid # Missing
  <2>1. \A l \in I : T[l][3] # Missing
    BY <1>3, <1>4, <1>6 DEF MetaLines
  <2> QED BY <2>1, <1>1, <1>2, <1>4, <1>6
<1> QED BY <1>5, <1>6

\* The lines of a body are those of its content.
LEMMA BodyIsRead ==
    ASSUME NEW T, IsText(T), NEW i \in Headings(T)
    PROVE  LET y == MessageAt(T, i)
           IN /\ IsText(y.body)
              /\ \A b \in 1..Len(y.body) : \E j \in Content(T, i) : y.body[b] = T[j]
              /\ \A j \in Content(T, i) : \E b \in 1..Len(y.body) : y.body[b] = T[j]
              /\ \A b \in 1..Len(y.body) : ~ IsHeading(y.body[b]) /\ y.body[b] # Rule
<1> DEFINE y == MessageAt(T, i)
           C == Content(T, i)
           e == InOrder(C, Len(T))
<1>1. i \in 1..Len(T) /\ Len(T) \in Nat /\ DOMAIN T = 1..Len(T) /\ End(T, i) \in i..Len(T) /\ T \in Seq(ToSet(T))
  BY TextDomain, EndIs DEF IsText
<1>2. C \subseteq 1..Len(T)
  BY <1>1 DEF Content
<1>3. Lists(e, C, Len(T))
  BY <1>1, InOrderLists
<1>4. y.body = At(T, C)
  BY MessageIs
<1> HIDE DEF e, C, y
<1>5. /\ At(T, C) \in Seq(ToSet(T)) /\ Len(At(T, C)) = Len(e)
      /\ \A a \in 1..Len(e) : e[a] \in 1..Len(T) /\ At(T, C)[a] = T[e[a]]
  BY <1>1, <1>3, AtPicks
<1>6. IsText(y.body)
  <2> DEFINE s == At(T, C)
  <2>1. Len(s) \in Nat /\ s \in [1..Len(s) -> ToSet(T)]
    BY <1>5, LenProperties
  <2> HIDE DEF s
  <2>2. s \in [1..Len(s) -> ToSet(s)]
    BY <2>1 DEF ToSet
  <2>3. s \in Seq(ToSet(s))
    BY <2>1, <2>2
  <2> QED BY <2>3, <1>4 DEF s, IsText
<1>7. ASSUME NEW b \in 1..Len(y.body) PROVE \E j \in C : y.body[b] = T[j]
  <2>1. b \in 1..Len(e)
    BY <1>4, <1>5
  <2>2. e[b] \in C
    BY <2>1, <1>3 DEF Lists
  <2> QED BY <2>1, <2>2, <1>4, <1>5
<1>8. ASSUME NEW j \in C PROVE \E b \in 1..Len(y.body) : y.body[b] = T[j]
  <2>1. PICK b \in 1..Len(e) : e[b] = j
    BY <1>2, <1>3 DEF Lists
  <2> QED BY <2>1, <1>4, <1>5
<1>9. \A j \in C : ~ IsHeading(T[j]) /\ T[j] # Rule
  <2>1. \A j \in i + 1..End(T, i) : j \notin Headings(T)
    BY EndIs
  <2>2. TAKE j \in C
  <2>3. j \in i + 1..End(T, i) /\ T[j] # Rule /\ j \in DOMAIN T
    BY <1>1, <1>2 DEF C, Content
  <2> QED BY <2>1, <2>3 DEF Headings
<1> QED BY <1>6, <1>7, <1>8, <1>9 DEF y, C

-----------------------------------------------------------------------------
(* Writing a text *)

\* The number of its headers.
Count(m) == IF m.mid = Missing THEN IF m.to = Missing THEN 0 ELSE 1 ELSE IF m.to = Missing THEN 1 ELSE 2

\* A sequence is one of its elements.
LEMMA SeqIsText ==
    ASSUME NEW S, NEW s \in Seq(S)
    PROVE  IsText(s)
<1>1. Len(s) \in Nat /\ s \in [1..Len(s) -> S]
  BY LenProperties
<1>2. s \in [1..Len(s) -> ToSet(s)]
  BY <1>1 DEF ToSet
<1> QED BY <1>1, <1>2 DEF IsText

\* A metadata line is written exactly when its value is not the default.
LEMMA MetaUnlessIs ==
    ASSUME NEW d, NEW k, NEW v
    PROVE  LET s == MetaUnless(d, k, v)
           IN /\ s \in Seq({Meta(k, v)})
              /\ v = d => Len(s) = 0
              /\ v # d => Len(s) = 1 /\ s[1] = Meta(k, v)
<1> DEFINE e == Meta(k, v)
<1> HIDE DEF e
<1>1. <<>> \in Seq({e}) /\ Len(<<>>) = 0 /\ <<e>> \in Seq({e}) /\ Len(<<e>>) = 1 /\ <<e>>[1] = e
  BY EmptySeq
<1>2. MetaUnless(d, k, v) = IF v = d THEN <<>> ELSE <<e>>
  BY DEF MetaUnless, e
<1> QED BY <1>1, <1>2 DEF e

\* The lines that are written for a message: a rule, its heading, one to two lines
\* of metadata when there are such, and the body as it is.
LEMMA WriteMessageLines ==
    ASSUME NEW m, IsText(m.body)
    PROVE  LET w == WriteMessage(m)
               c == Count(m)
           IN /\ IsText(w) /\ c \in 0..2 /\ Len(m.body) \in Nat /\ Len(w) = 2 + c + Len(m.body)
              /\ w[1] = Rule /\ w[2] = Heading(m.from, m.date)
              /\ m.mid # Missing => c >= 1 /\ w[3] = Meta("Message-ID", m.mid)
              /\ m.to # Missing => c >= 1 /\ w[2 + c] = Meta("To", m.to)
              /\ \A j \in 1..c : (m.mid # Missing /\ j = 1) \/ (m.to # Missing /\ j = c)
              /\ \A j \in 1..Len(m.body) : w[2 + c + j] = m.body[j]
<1> DEFINE r == Rule
           g == Heading(m.from, m.date)
           a == Meta("Message-ID", m.mid)
           b == Meta("To", m.to)
           U == <<r, g>>
           A == MetaUnless(Missing, "Message-ID", m.mid)
           B == MetaUnless(Missing, "To", m.to)
           F == U \o A
           G == F \o B
           w == G \o m.body
           c == Count(m)
           l == Len(m.body)
           S == ToSet(m.body) \cup {r, g, a, b}
<1>1. WriteMessage(m) = w
  BY DEF WriteMessage
<1>a. F = U \o A /\ G = F \o B /\ w = G \o m.body
  OBVIOUS
<1> HIDE DEF F, G, w
<1>2. U \in Seq({r, g}) /\ Len(U) = 2 /\ U[1] = r /\ U[2] = g
  <2> HIDE DEF r, g
  <2> QED OBVIOUS
<1> HIDE DEF U, S, c, l, r, g
<1>3. A \in Seq({a}) /\ (m.mid = Missing => Len(A) = 0) /\ (m.mid # Missing => Len(A) = 1 /\ A[1] = a)
  <2> DEFINE k == "Message-ID"
             v == m.mid
  <2> HIDE DEF k, v, B
  <2>1. LET s == MetaUnless(Missing, k, v)
        IN s \in Seq({Meta(k, v)}) /\ (v = Missing => Len(s) = 0)
             /\ (v # Missing => Len(s) = 1 /\ s[1] = Meta(k, v))
    BY MetaUnlessIs
  <2> QED BY <2>1 DEF k, v
<1>4. B \in Seq({b}) /\ (m.to = Missing => Len(B) = 0) /\ (m.to # Missing => Len(B) = 1 /\ B[1] = b)
  BY MetaUnlessIs
<1> USE DEF S, c, l
<1>5. m.body \in Seq(ToSet(m.body)) /\ l \in Nat
  BY LenProperties DEF IsText
<1>6. {r, g} \subseteq S /\ {a} \subseteq S /\ {b} \subseteq S /\ ToSet(m.body) \subseteq S
  OBVIOUS
<1>7. /\ m.mid = Missing /\ m.to = Missing => c = 0
      /\ m.mid = Missing /\ m.to # Missing => c = 1
      /\ m.mid # Missing /\ m.to = Missing => c = 1
      /\ m.mid # Missing /\ m.to # Missing => c = 2
  BY DEF Count
<1> HIDE DEF r, g, a, b, U, A, B, c, S
<1>8. U \in Seq(S) /\ A \in Seq(S) /\ B \in Seq(S) /\ m.body \in Seq(S)
  BY <1>2, <1>3, <1>4, <1>5, <1>6, SeqMonotonic
<1>9. /\ F \in Seq(S) /\ Len(F) = Len(U) + Len(A)
      /\ \A j \in 1..Len(U) : F[j] = U[j]
      /\ \A j \in 1..Len(A) : F[Len(U) + j] = A[j]
  BY <1>a, <1>8, ConcatElements
<1>10. /\ G \in Seq(S) /\ Len(G) = Len(F) + Len(B)
       /\ \A j \in 1..Len(F) : G[j] = F[j]
       /\ \A j \in 1..Len(B) : G[Len(F) + j] = B[j]
  BY <1>a, <1>8, <1>9, ConcatElements
<1>11. /\ w \in Seq(S) /\ Len(w) = Len(G) + l
       /\ \A j \in 1..Len(G) : w[j] = G[j]
       /\ \A j \in 1..l : w[Len(G) + j] = m.body[j]
  BY <1>a, <1>8, <1>10, ConcatElements
<1> HIDE DEF l
<1>12. /\ c \in 0..2 /\ Len(G) = 2 + c /\ G[1] = r /\ G[2] = g
       /\ m.mid # Missing => c >= 1 /\ G[3] = a
       /\ m.to # Missing => c >= 1 /\ G[2 + c] = b
       /\ \A j \in 1..c : (m.mid # Missing /\ j = 1) \/ (m.to # Missing /\ j = c)
  <2>1. F[1] = r /\ F[2] = g /\ (m.mid = Missing => Len(F) = 2) /\ (m.mid # Missing => Len(F) = 3 /\ F[3] = a)
    <3>1. m.mid # Missing => F[2 + 1] = A[1]
      BY <1>2, <1>3, <1>9
    <3> QED BY <1>2, <1>3, <1>9, <3>1
  <2>2. G[1] = r /\ G[2] = g /\ (m.mid # Missing => G[3] = a)
    BY <2>1, <1>10
  <2>3. /\ m.to = Missing => Len(G) = Len(F)
        /\ m.to # Missing => Len(G) = Len(F) + 1 /\ G[Len(F) + 1] = b
    <3>1. Len(F) \in Nat
      BY <2>1
    <3> QED BY <1>4, <1>10, <3>1
  <2>4. CASE m.mid = Missing /\ m.to = Missing
    BY <2>1, <2>2, <2>3, <2>4, <1>7
  <2>5. CASE m.mid = Missing /\ m.to # Missing
    <3>1. c = 1 /\ Len(G) = 2 + c /\ /\ G[2 + c] = b
      BY <2>1, <2>2, <2>3, <2>5, <1>7
    <3>2. \A j \in 1..c : j = c
      BY <3>1
    <3> QED BY <3>1, <3>2, <2>2, <2>5
  <2>6. CASE m.mid # Missing /\ m.to = Missing
    <3>0. c = 1 /\ Len(F) = 3 /\ Len(G) = Len(F) /\ G[3] = a
      BY <2>1, <2>2, <2>3, <2>6, <1>7
    <3>1. c = 1 /\ Len(G) = 2 + c /\ G[3] = a
      BY <3>0
    <3>2. \A j \in 1..c : j = 1
      BY <3>1
    <3> QED BY <3>1, <3>2, <2>2, <2>6
  <2>7. CASE m.mid # Missing /\ m.to # Missing
    <3>0. c = 2 /\ Len(F) = 3 /\ Len(G) = Len(F) + 1 /\ G[3] = a /\ G[Len(F) + 1] = b
      BY <2>1, <2>2, <2>3, <2>7, <1>7
    <3>1. c = 2 /\ Len(G) = 2 + c /\ G[3] = a /\ G[2 + c] = b
      BY <3>0
    <3>2. \A j \in 1..c : j = 1 \/ j = c
      BY <3>1
    <3> QED BY <3>1, <3>2, <2>2, <2>7
  <2> QED BY <2>4, <2>5, <2>6, <2>7
<1>13. IsText(w)
  BY <1>11, SeqIsText
<1>14. Len(w) = 2 + c + l /\ w[1] = r /\ w[2] = g
  BY <1>5, <1>11, <1>12
<1>15. c >= 1 => w[3] = G[3] /\ w[2 + c] = G[2 + c]
  BY <1>11, <1>12
<1>16. \A j \in 1..l : w[2 + c + j] = m.body[j]
  BY <1>11, <1>12
<1>17. m.mid # Missing => c >= 1 /\ w[3] = a
  BY <1>12, <1>15
<1>18. m.to # Missing => c >= 1 /\ w[2 + c] = b
  BY <1>12, <1>15
<1> USE DEF r, g, a, b, c, l, U, A, B, F, G, w
<1> QED BY <1>1, <1>5, <1>12, <1>13, <1>14, <1>16, <1>17, <1>18

\* m was written with its heading at p, and what follows it with one at q.
BlockAt(W, p, q, m) ==
    LET c == Count(m)
    IN /\ c \in 0..2 /\ Len(m.body) \in Nat /\ q = p + 2 + c + Len(m.body)
       /\ W[p - 1] = Rule /\ W[p] = Heading(m.from, m.date)
       /\ m.mid # Missing => c >= 1 /\ W[p + 1] = Meta("Message-ID", m.mid)
       /\ m.to # Missing => c >= 1 /\ W[p + c] = Meta("To", m.to)
       /\ \A j \in 1..c : (m.mid # Missing /\ j = 1) \/ (m.to # Missing /\ j = c)
       /\ \A j \in 1..Len(m.body) : W[p + c + j] = m.body[j]

\* h[k] is the position of the heading of the k-th message that was written.
Written(W, L, h) ==
    /\ IsText(W) /\ Len(L) \in Nat
    /\ h \in [1..Len(L) + 1 -> Nat] /\ h[1] \in {4, 5} /\ h[Len(L) + 1] = Len(W) + 2
    /\ \A k \in 1..Len(L) : BlockAt(W, h[k], h[k + 1], L[k])
    /\ \A i, j \in 1..Len(L) + 1 : i <= j => h[i] <= h[j]
    /\ \A q \in 1..Len(W) : q < h[1] - 1 \/ \E k \in 1..Len(L) : q >= h[k] - 1 /\ q < h[k + 1] - 1
    /\ \A q \in 1..Len(W) : q < h[1] - 1 =>
          /\ ~ NamesSender(W[q]) /\ ~ IsMeta(W[q], "Message-ID")
          /\ IsMeta(W[q], "Thread-ID") => q = 2

\* The lines before the first message.
Opening(W, t) ==
    /\ Len(W) >= 2 /\ W[1] = Title(t.subject) /\ W[2] = Meta("Thread-ID", t.id)
    /\ t.aliases # {} => Len(W) >= 3 /\ W[3] = Meta("Thread-Aliases", t.aliases)

\* The lines above the first message: the subject, the key, and the aliases if any.
LEMMA FrontLines ==
    ASSUME NEW t
    PROVE  LET F == <<Title(t.subject), Meta("Thread-ID", t.id)>>
                       \o MetaUnless({}, "Thread-Aliases", t.aliases)
           IN /\ IsText(F) /\ F[1] = Title(t.subject) /\ F[2] = Meta("Thread-ID", t.id)
              /\ t.aliases = {} => Len(F) = 2
              /\ t.aliases # {} => Len(F) = 3 /\ F[3] = Meta("Thread-Aliases", t.aliases)
<1> DEFINE a == Title(t.subject)
           b == Meta("Thread-ID", t.id)
           v == t.aliases
           c == Meta("Thread-Aliases", v)
           U == <<a, b>>
           A == MetaUnless({}, "Thread-Aliases", v)
           S == {a, b, c}
           F == U \o A
<1>1. U \in Seq({a, b}) /\ Len(U) = 2 /\ U[1] = a /\ U[2] = b
  <2> HIDE DEF a, b
  <2> QED OBVIOUS
<1>2. A \in Seq({c}) /\ (v = {} => Len(A) = 0) /\ (v # {} => Len(A) = 1 /\ A[1] = c)
  <2> HIDE DEF v
  <2> QED BY MetaUnlessIs
<1>3. {a, b} \subseteq S /\ {c} \subseteq S
  OBVIOUS
<1> HIDE DEF a, b, c, U, A, S
<1>4. U \in Seq(S) /\ A \in Seq(S)
  BY <1>1, <1>2, <1>3, SeqMonotonic
<1>5. /\ F \in Seq(S) /\ Len(F) = Len(U) + Len(A)
      /\ \A j \in 1..Len(U) : F[j] = U[j]
      /\ \A j \in 1..Len(A) : F[Len(U) + j] = A[j]
  BY <1>4, ConcatElements
<1> HIDE DEF F
<1>6. F[1] = a /\ F[2] = b /\ (v = {} => Len(F) = 2)
  BY <1>1, <1>2, <1>5
<1>7. v # {} => Len(F) = 3 /\ F[2 + 1] = c
  BY <1>1, <1>2, <1>5
<1>8. IsText(F)
  BY <1>5, SeqIsText
<1>9. v # {} => Len(F) = 3 /\ F[3] = c
  BY <1>7
<1> HIDE DEF v
<1>10. /\ IsText(F) /\ F[1] = a /\ F[2] = b
       /\ v = {} => Len(F) = 2
       /\ v # {} => Len(F) = 3 /\ F[3] = c
  BY <1>6, <1>8, <1>9
<1> QED BY <1>10 DEF a, b, c, F, U, A, v

\* The file of a thread is its first lines and then, in order, a block for each message.
LEMMA TextIsWritten ==
    ASSUME NEW t, Len(t.messages) \in Nat, DOMAIN t.messages = 1..Len(t.messages),
           \A k \in 1..Len(t.messages) : IsText(t.messages[k].body)
    PROVE  LET W == ThreadToMarkdown(t)
           IN /\ Opening(W, t)
              /\ \E h : /\ Written(W, t.messages, h)
                        /\ h[1] = 5 => t.aliases # {}
<1> DEFINE L == t.messages
           n == Len(L)
           seqs == [k \in DOMAIN L |-> WriteMessage(L[k])]
           F == <<Title(t.subject), Meta("Thread-ID", t.id)>> \o MetaUnless({}, "Thread-Aliases", t.aliases)
           R == ToSet(F) \cup UNION {ToSet(seqs[k]) : k \in 1..n}
<1>1. ASSUME NEW k \in 1..n
      PROVE  /\ seqs[k] = WriteMessage(L[k]) /\ IsText(seqs[k]) /\ Len(seqs[k]) = 2 + Count(L[k]) + Len(L[k].body)
             /\ seqs[k] \in Seq(R)
  <2>1. seqs[k] = WriteMessage(L[k])
    OBVIOUS
  <2>2. IsText(seqs[k]) /\ Len(seqs[k]) = 2 + Count(L[k]) + Len(L[k].body)
    BY <2>1, WriteMessageLines
  <2>3. ToSet(seqs[k]) \subseteq R
    OBVIOUS
  <2> HIDE DEF seqs, R
  <2>4. seqs[k] \in Seq(R)
    BY <2>2, <2>3, SeqMonotonic DEF IsText
  <2> QED BY <2>1, <2>2, <2>4
<1>2. seqs \in Seq(Seq(R)) /\ Len(seqs) = n
  <2>1. seqs = [k \in 1..n |-> seqs[k]]
    OBVIOUS
  <2> HIDE DEF seqs, R
  <2>2. seqs \in [1..n -> Seq(R)]
    BY <1>1, <2>1
  <2> QED BY <2>2
<1>3. /\ IsText(F) /\ F[1] = Title(t.subject) /\ F[2] = Meta("Thread-ID", t.id)
      /\ t.aliases = {} => Len(F) = 2
      /\ t.aliases # {} => Len(F) = 3 /\ F[3] = Meta("Thread-Aliases", t.aliases)
  <2> HIDE DEF R, seqs, n, L
  <2> QED BY FrontLines
<1>4. F \in Seq(R)
  <2>1. ToSet(F) \subseteq R
    OBVIOUS
  <2> HIDE DEF F, R
  <2> QED BY <1>3, <2>1, SeqMonotonic DEF IsText
<1> DEFINE G == FlattenSeq(seqs)
           W == F \o G
<1>5. ThreadToMarkdown(t) = W
  BY DEF ThreadToMarkdown
<1> HIDE DEF seqs, F, R
<1>a. n \in Nat
  OBVIOUS
<1> HIDE DEF n, L
<1>c. seqs \in Seq(Seq(R))
  BY <1>2
<1>b. PICK off : Laid(off, seqs, FlattenSeq(seqs), R)
  BY ONLY <1>c, FlattenLaid
<1>6. /\ Offsets(off, seqs) /\ G \in Seq(R) /\ Len(G) = off[n + 1]
      /\ \A k \in 1..n : \A j \in 1..Len(seqs[k]) : G[off[k] + j] = seqs[k][j]
  BY ONLY <1>b, <1>2 DEF Laid
<1> HIDE DEF G
<1> DEFINE f == Len(F)
<1>7. /\ W \in Seq(R) /\ Len(W) = f + Len(G)
      /\ \A j \in 1..f : W[j] = F[j]
      /\ \A j \in 1..Len(G) : W[f + j] = G[j]
  <2>1. F \in Seq(R) /\ G \in Seq(R)
    BY <1>4, <1>6
  <2> QED BY ONLY <2>1, ConcatElements
<1> HIDE DEF W
<1>8. /\ off \in [1..n + 1 -> Nat] /\ off[1] = 0
      /\ \A k \in 1..n : off[k + 1] = off[k] + Len(seqs[k])
  BY <1>2, <1>6 DEF Offsets
<1>9. \A i, j \in 1..n + 1 : i <= j => off[i] <= off[j]
  BY <1>2, <1>6, OffsetsMonotone
<1>10. f \in {2, 3} /\ (f = 3 <=> t.aliases # {})
  <2>1. (t.aliases = {} => f = 2) /\ (t.aliases # {} => f = 3)
    BY <1>3
  <2> HIDE DEF f
  <2> QED BY <2>1
<1>11. IsText(W)
  <2>1. Len(W) \in Nat /\ W \in [1..Len(W) -> R]
    BY <1>7, LenProperties
  <2>2. W \in [1..Len(W) -> ToSet(W)]
    BY <2>1 DEF ToSet
  <2> QED BY <2>1, <2>2 DEF IsText
<1>12. Opening(W, t)
  <2>1. Len(G) \in Nat
    BY <1>6, LenProperties
  <2>2. W[1] = F[1] /\ W[2] = F[2] /\ (f = 3 => W[3] = F[3]) /\ Len(W) >= f
    BY <1>7, <1>10, <2>1
  <2>3. Len(W) \in Nat
    BY <1>7, <1>10, <2>1
  <2> HIDE DEF f
  <2>4. Len(W) >= 2 /\ (f = 3 => Len(W) >= 3)
    BY <2>2, <2>3, <1>10
  <2> QED BY <2>2, <2>4, <1>3, <1>10 DEF Opening
<1> DEFINE h == [k \in 1..n + 1 |-> f + off[k] + 2]
<1>13. h \in [1..n + 1 -> Nat] /\ \A k \in 1..n + 1 : h[k] = f + off[k] + 2 /\ off[k] \in Nat
  BY <1>8, <1>10
<1>14. h[1] = f + 2 /\ h[n + 1] = Len(W) + 2
  <2>1. 1 \in 1..n + 1 /\ n + 1 \in 1..n + 1
    BY <1>a
  <2>2. h[1] = f + off[1] + 2 /\ h[n + 1] = f + off[n + 1] + 2
    BY <1>13, <2>1
  <2> HIDE DEF h, f
  <2> QED BY <2>2, <1>6, <1>7, <1>8, <1>10
<1> HIDE DEF h, f
<1>15. ASSUME NEW k \in 1..n
       PROVE  BlockAt(W, h[k], h[k + 1], L[k])
  <2> DEFINE c == Count(L[k])
             p == h[k]
             w == seqs[k]
             o == off[k]
             l == Len(L[k].body)
  <2>0. IsText(L[k].body) /\ w = WriteMessage(L[k])
    BY <1>1 DEF n, L
  <2>1. /\ IsText(w) /\ c \in 0..2 /\ l \in Nat /\ Len(w) = 2 + c + l
        /\ w[1] = Rule /\ w[2] = Heading(L[k].from, L[k].date)
        /\ L[k].mid # Missing => c >= 1 /\ w[3] = Meta("Message-ID", L[k].mid)
        /\ L[k].to # Missing => c >= 1 /\ w[2 + c] = Meta("To", L[k].to)
        /\ \A j \in 1..c : (L[k].mid # Missing /\ j = 1) \/ (L[k].to # Missing /\ j = c)
        /\ \A j \in 1..l : w[2 + c + j] = L[k].body[j]
    <3> HIDE DEF w
    <3>1. LET v == WriteMessage(L[k])
          IN /\ IsText(v) /\ c \in 0..2 /\ l \in Nat /\ Len(v) = 2 + c + l
             /\ v[1] = Rule /\ v[2] = Heading(L[k].from, L[k].date)
             /\ L[k].mid # Missing => c >= 1 /\ v[3] = Meta("Message-ID", L[k].mid)
             /\ L[k].to # Missing => c >= 1 /\ v[2 + c] = Meta("To", L[k].to)
             /\ \A j \in 1..c : (L[k].mid # Missing /\ j = 1) \/ (L[k].to # Missing /\ j = c)
             /\ \A j \in 1..l : v[2 + c + j] = L[k].body[j]
      BY <2>0, WriteMessageLines
    <3> QED BY <2>0, <3>1
  <2>b. c \in 0..2 /\ l \in Nat /\ Len(w) = 2 + c + l
    BY <2>1
  <2>a. c \in 0..2 /\ l \in Nat /\ Len(w) = 2 + c + l /\ Len(w) \in Nat
    <3> DEFINE x == Len(w)
    <3>1. c \in 0..2 /\ l \in Nat /\ x = 2 + c + l
      BY <2>b
    <3> HIDE DEF x, c, l
    <3>2. x \in Nat
      BY <3>1
    <3> QED BY <3>1, <3>2 DEF x
  <2>2. k \in 1..n + 1 /\ k + 1 \in 1..n + 1
    BY <1>a
  <2>3. p = f + o + 2 /\ o \in Nat /\ h[k + 1] = f + off[k + 1] + 2 /\ off[k + 1] = o + Len(w)
    BY <2>2, <1>8, <1>13
  <2>4. o + Len(w) <= off[n + 1]
    <3>1. n + 1 \in 1..n + 1 /\ k + 1 <= n + 1
      BY <1>a
    <3> QED BY <2>2, <2>3, <3>1, <1>9
  <2>5. \A j \in 1..Len(w) : G[o + j] = w[j]
    BY <1>6
  <2>6. Len(G) = off[n + 1] /\ Len(G) \in Nat
    BY <1>6, LenProperties
  <2> HIDE DEF c, p, w, o, l
  <2>7. \A j \in 1..Len(w) : W[(p - 2) + j] = w[j]
    <3> TAKE j \in 1..Len(w)
    <3>1. j \in Nat /\ j >= 1 /\ j <= Len(w)
      BY <2>a
    <3>2. o + j \in 1..Len(G)
      BY <2>a, <2>3, <2>4, <2>6, <3>1
    <3>3. (p - 2) + j = f + (o + j)
      BY <3>1, <2>3, <1>10
    <3> QED BY <3>2, <3>3, <1>7, <2>5
  <2>8. p \in Nat /\ p >= 4
    BY <2>3, <1>10
  <2>9. W[p - 1] = w[1] /\ W[p] = w[2]
    <3>1. 1 \in 1..Len(w) /\ 2 \in 1..Len(w) /\ (p - 2) + 1 = p - 1 /\ (p - 2) + 2 = p
      BY <2>a, <2>8
    <3> QED BY <3>1, <2>7
  <2>10. c >= 1 => W[p + 1] = w[3] /\ W[p + c] = w[2 + c]
    <3>1. SUFFICES ASSUME c >= 1 PROVE W[p + 1] = w[3] /\ W[p + c] = w[2 + c]
      OBVIOUS
    <3>2. 3 \in 1..Len(w) /\ 2 + c \in 1..Len(w) /\ (p - 2) + 3 = p + 1 /\ (p - 2) + (2 + c) = p + c
      BY <2>a, <2>8, <3>1
    <3> QED BY <3>2, <2>7
  <2>11. \A j \in 1..l : W[p + c + j] = w[2 + c + j]
    <3>1. TAKE j \in 1..l
    <3>2. 2 + c + j \in 1..Len(w) /\ (p - 2) + (2 + c + j) = p + c + j
      BY <2>a, <2>8
    <3> QED BY <3>2, <2>7
  <2>12. h[k + 1] = p + 2 + c + l
    <3> DEFINE x == h[k + 1]
               y == off[k + 1]
    <3>1. x = f + y + 2 /\ y = o + (2 + c + l) /\ p = f + o + 2 /\ o \in Nat /\ f \in Nat
      BY <2>3, <2>a, <1>10
    <3> HIDE DEF x, y
    <3>2. x = p + 2 + c + l
      BY <3>1, <2>a
    <3> QED BY <3>2 DEF x
  <2>13. /\ c \in 0..2 /\ l \in Nat
         /\ W[p - 1] = Rule /\ W[p] = Heading(L[k].from, L[k].date)
         /\ L[k].mid # Missing => c >= 1 /\ W[p + 1] = Meta("Message-ID", L[k].mid)
         /\ L[k].to # Missing => c >= 1 /\ W[p + c] = Meta("To", L[k].to)
         /\ \A j \in 1..c : (L[k].mid # Missing /\ j = 1) \/ (L[k].to # Missing /\ j = c)
         /\ \A j \in 1..l : W[p + c + j] = L[k].body[j]
    BY <2>1, <2>9, <2>10, <2>11
  <2> QED BY <2>12, <2>13 DEF c, p, l, BlockAt
<1>16. \A i, j \in 1..n + 1 : i <= j => h[i] <= h[j]
  BY <1>9, <1>13, <1>10
<1>17. ASSUME NEW q \in 1..Len(W)
       PROVE  q < h[1] - 1 \/ \E k \in 1..n : q >= h[k] - 1 /\ q < h[k + 1] - 1
  <2>1. SUFFICES ASSUME ~ q < h[1] - 1
                 PROVE  \E k \in 1..n : q >= h[k] - 1 /\ q < h[k + 1] - 1
    OBVIOUS
  <2>2. Len(G) \in Nat /\ Len(G) = off[n + 1] /\ Len(W) = f + off[n + 1]
    BY <1>6, <1>7, LenProperties
  <2> DEFINE r == q - f
  <2>3. r \in 1..off[n + 1]
    BY <2>1, <2>2, <1>10, <1>14
  <2>4. PICK k \in 1..n : r - off[k] \in 1..Len(seqs[k])
    BY <1>2, <1>6, <2>3, OffsetsCover
  <2>5. k \in 1..n + 1 /\ k + 1 \in 1..n + 1
    BY <1>a
  <2>6. /\ h[k] = f + off[k] + 2 /\ h[k + 1] = f + off[k + 1] + 2 /\ off[k] \in Nat
        /\ off[k + 1] = off[k] + Len(seqs[k]) /\ Len(seqs[k]) \in Nat
    <3>1. Len(seqs[k]) \in Nat
      BY <1>1, TextDomain
    <3> QED BY <3>1, <2>5, <1>8, <1>13
  <2>7. q >= h[k] - 1 /\ q < h[k + 1] - 1
    <3> DEFINE x == h[k]
               y == h[k + 1]
               o == off[k]
               u == off[k + 1]
               v == Len(seqs[k])
    <3>1. /\ x = f + o + 2 /\ y = f + u + 2 /\ o \in Nat /\ u = o + v /\ v \in Nat
          /\ (q - f) - o \in 1..v /\ f \in Nat /\ q \in Nat
      BY <2>2, <2>4, <2>6, <1>10
    <3> HIDE DEF x, y, o, u, v, r
    <3>2. q >= x - 1 /\ q < y - 1
      BY <3>1
    <3> QED BY <3>2 DEF x, y
  <2> QED BY <2>7
<1>18. h[1] \in {4, 5} /\ (h[1] = 5 => t.aliases # {})
  BY <1>10, <1>14
<1> USE DEF n
<1>e. ASSUME NEW q \in 1..Len(W), q < h[1] - 1
      PROVE  /\ ~ NamesSender(W[q]) /\ ~ IsMeta(W[q], "Message-ID")
             /\ IsMeta(W[q], "Thread-ID") => q = 2
  <2>1. q = 1 \/ q = 2 \/ (q = 3 /\ t.aliases # {})
    BY <1>18, <1>e
  <2>2. CASE q = 1
    <3>1. W[q][1] = "#"
      BY <2>2, <1>12 DEF Opening, Title
    <3> QED BY <3>1 DEF NamesSender, IsMeta
  <2>3. CASE q = 2
    <3>1. W[q][1] = "meta" /\ W[q][2] = "Thread-ID"
      BY <2>3, <1>12 DEF Opening, Meta
    <3> QED BY <2>3, <3>1 DEF NamesSender, IsMeta
  <2>4. CASE q = 3 /\ t.aliases # {}
    <3>1. W[q][1] = "meta" /\ W[q][2] = "Thread-Aliases"
      BY <2>4, <1>12 DEF Opening, Meta
    <3> QED BY <3>1 DEF NamesSender, IsMeta
  <2> QED BY <2>1, <2>2, <2>3, <2>4
<1> HIDE DEF n
<1>d. h \in [1..n + 1 -> Nat] /\ h[1] \in {4, 5} /\ h[n + 1] = Len(W) + 2
  BY <1>13, <1>14, <1>18
<1> USE DEF n
<1>19. Written(W, L, h)
  BY <1>a, <1>d, <1>11, <1>15, <1>16, <1>17, <1>e DEF Written
<1> QED BY <1>5, <1>12, <1>18, <1>19 DEF L

-----------------------------------------------------------------------------
(* Reading what was written *)

Valid(m) == m.from # Missing /\ m.date # Missing

\* Where the block of the k-th message lies in the file.
LEMMA BlockIs ==
    ASSUME NEW W, NEW L, NEW h, Written(W, L, h), NEW k \in 1..Len(L)
    PROVE  LET c == Count(L[k])
               l == Len(L[k].body)
           IN /\ BlockAt(W, h[k], h[k + 1], L[k])
              /\ h[k] \in Nat /\ h[k] >= 4 /\ c \in 0..2 /\ l \in Nat
              /\ h[k + 1] \in Nat /\ h[k + 1] = h[k] + 2 + c + l /\ h[k + 1] <= Len(W) + 2
              /\ h[1] <= h[k] /\ Len(W) \in Nat /\ DOMAIN W = 1..Len(W)
              /\ k = Len(L) \/ k + 1 \in 1..Len(L)
              /\ k = Len(L) => h[k + 1] = Len(W) + 2
<1> DEFINE c == Count(L[k])
           l == Len(L[k].body)
           n == Len(L)
<1>1. n \in Nat /\ BlockAt(W, h[k], h[k + 1], L[k])
  BY DEF Written
<1>2. 1 \in 1..n + 1 /\ n + 1 \in 1..n + 1 /\ k \in 1..n + 1 /\ k + 1 \in 1..n + 1 /\ 1 <= k /\ k + 1 <= n + 1
  BY <1>1
<1>3. h[1] \in {4, 5} /\ h[n + 1] = Len(W) + 2 /\ \A i \in 1..n + 1 : h[i] \in Nat
  BY DEF Written
<1>4. h[1] <= h[k] /\ h[k + 1] <= h[n + 1]
  BY <1>2 DEF Written
<1>5. c \in 0..2 /\ l \in Nat /\ h[k + 1] = h[k] + 2 + c + l
  BY <1>1 DEF BlockAt
<1>6. Len(W) \in Nat /\ DOMAIN W = 1..Len(W)
  BY TextDomain DEF Written
<1>7. h[k] \in Nat /\ h[k + 1] \in Nat /\ h[k] >= 4
  BY <1>2, <1>3, <1>4
<1>8. k = n \/ k + 1 \in 1..n
  BY <1>1
<1> QED BY <1>1, <1>3, <1>4, <1>5, <1>6, <1>7, <1>8

\* What a line is.
LEMMA LineIs ==
    ASSUME NEW W, NEW L, NEW h, Written(W, L, h), NEW q \in 1..Len(W)
    PROVE  \/ q < h[1] - 1
           \/ \E k \in 1..Len(L) :
                 \/ q = h[k] - 1 /\ W[q] = Rule
                 \/ q = h[k] /\ W[q] = Heading(L[k].from, L[k].date)
                 \/ q = h[k] + 1 /\ L[k].mid # Missing /\ W[q] = Meta("Message-ID", L[k].mid)
                 \/ q = h[k] + Count(L[k]) /\ Count(L[k]) >= 1 /\ L[k].to # Missing /\ W[q] = Meta("To", L[k].to)
                 \/ \E j \in 1..Len(L[k].body) : q = h[k] + Count(L[k]) + j /\ W[q] = L[k].body[j]
<1>1. SUFFICES ASSUME ~ q < h[1] - 1
               PROVE  \E k \in 1..Len(L) :
                 \/ q = h[k] - 1 /\ W[q] = Rule
                 \/ q = h[k] /\ W[q] = Heading(L[k].from, L[k].date)
                 \/ q = h[k] + 1 /\ L[k].mid # Missing /\ W[q] = Meta("Message-ID", L[k].mid)
                 \/ q = h[k] + Count(L[k]) /\ Count(L[k]) >= 1 /\ L[k].to # Missing /\ W[q] = Meta("To", L[k].to)
                 \/ \E j \in 1..Len(L[k].body) : q = h[k] + Count(L[k]) + j /\ W[q] = L[k].body[j]
  OBVIOUS
<1>2. PICK k \in 1..Len(L) : q >= h[k] - 1 /\ q < h[k + 1] - 1
  BY <1>1 DEF Written
<1> DEFINE c == Count(L[k])
           l == Len(L[k].body)
           p == h[k]
<1>3. /\ p \in Nat /\ p >= 4 /\ c \in 0..2 /\ l \in Nat /\ h[k + 1] = p + 2 + c + l
  BY BlockIs
<1>4. BlockAt(W, p, h[k + 1], L[k])
  BY BlockIs
<1>5. /\ W[p - 1] = Rule /\ W[p] = Heading(L[k].from, L[k].date)
      /\ L[k].mid # Missing => c >= 1 /\ W[p + 1] = Meta("Message-ID", L[k].mid)
      /\ L[k].to # Missing => c >= 1 /\ W[p + c] = Meta("To", L[k].to)
      /\ \A j \in 1..c : (L[k].mid # Missing /\ j = 1) \/ (L[k].to # Missing /\ j = c)
      /\ \A j \in 1..l : W[p + c + j] = L[k].body[j]
  BY <1>4 DEF BlockAt
<1> HIDE DEF c, l, p
<1>6. q \in Nat /\ q >= p - 1 /\ q < p + 1 + c + l
  BY <1>2, <1>3 DEF p
<1>7. q = p - 1 \/ q = p \/ q - p \in 1..c \/ q - (p + c) \in 1..l
  BY <1>3, <1>6
<1>8. CASE q - p \in 1..c
  <2>1. (L[k].mid # Missing /\ q - p = 1) \/ (L[k].to # Missing /\ q - p = c)
    BY <1>5, <1>8
  <2>2. CASE L[k].mid # Missing /\ q - p = 1
    <3>1. q = p + 1
      BY <2>2, <1>3, <1>6
    <3> QED BY <2>2, <3>1, <1>5 DEF p
  <2>3. CASE L[k].to # Missing /\ q - p = c
    <3>1. q = p + c
      BY <2>3, <1>3, <1>6
    <3> QED BY <2>3, <3>1, <1>5 DEF p, c
  <2> QED BY <2>1, <2>2, <2>3
<1>9. CASE q - (p + c) \in 1..l
  <2> DEFINE j == q - (p + c)
  <2>1. q = p + c + j /\ j \in 1..l
    BY <1>3, <1>6, <1>9
  <2> HIDE DEF j
  <2>2. W[q] = L[k].body[j]
    BY <2>1, <1>5
  <2> QED BY <2>1, <2>2 DEF p, c, l
<1>10. CASE q = p - 1
  BY <1>10, <1>5 DEF p
<1>11. CASE q = p
  BY <1>11, <1>5 DEF p
<1> QED BY <1>7, <1>8, <1>9, <1>10, <1>11

\* A line with a key is one corky wrote, or one of a body.
LEMMA MidLine ==
    ASSUME NEW W, NEW L, NEW h, Written(W, L, h), NEW q \in 1..Len(W), IsMeta(W[q], "Message-ID")
    PROVE  \E k \in 1..Len(L) :
              \/ q = h[k] + 1 /\ L[k].mid # Missing /\ W[q][3] = L[k].mid
              \/ \E j \in 1..Len(L[k].body) : q = h[k] + Count(L[k]) + j /\ W[q] = L[k].body[j]
<1>1. ~ q < h[1] - 1
  BY DEF Written
<1>2. W[q] # Rule /\ (\A a, b : W[q] # Heading(a, b)) /\ \A v : W[q] # Meta("To", v)
  BY DEF IsMeta, Rule, Heading, Meta
<1>3. \A v : Meta("Message-ID", v)[3] = v
  BY DEF Meta
<1> QED BY <1>1, <1>2, <1>3, LineIs

\* A line that names a key is the second of the file or one of a body.
LEMMA IdLine ==
    ASSUME NEW W, NEW L, NEW h, Written(W, L, h), NEW q \in 1..Len(W), IsMeta(W[q], "Thread-ID")
    PROVE  q = 2 \/ \E k \in 1..Len(L) : \E j \in 1..Len(L[k].body) : W[q] = L[k].body[j]
<1>1. q < h[1] - 1 => q = 2
  BY DEF Written
<1>2. /\ W[q] # Rule /\ (\A a, b : W[q] # Heading(a, b))
      /\ \A v : W[q] # Meta("To", v) /\ W[q] # Meta("Message-ID", v)
  BY DEF IsMeta, Rule, Heading, Meta
<1> QED BY <1>1, <1>2, LineIs

\* A line that names a sender is the heading of a message or is quoted in a body.
LEMMA SenderLine ==
    ASSUME NEW W, NEW L, NEW h, Written(W, L, h), NEW q \in 1..Len(W), NamesSender(W[q])
    PROVE  \E k \in 1..Len(L) :
              \/ q = h[k] /\ W[q] = Heading(L[k].from, L[k].date)
              \/ \E j \in 1..Len(L[k].body) : q = h[k] + Count(L[k]) + j /\ W[q] = L[k].body[j]
<1>1. ~ q < h[1] - 1
  BY DEF Written
<1>2. W[q] # Rule /\ \A u, v : W[q] # Meta(u, v)
  BY DEF NamesSender, Rule, Meta
<1> QED BY <1>1, <1>2, LineIs

\* What is read as a heading is the heading of a message or such a line of a body.
LEMMA HeadingIs ==
    ASSUME NEW W, NEW L, NEW h, Written(W, L, h), NEW i \in Headings(W)
    PROVE  \E k \in 1..Len(L) :
              \/ i = h[k] /\ Valid(L[k])
              \/ \E j \in 1..Len(L[k].body) :
                    i = h[k] + Count(L[k]) + j /\ W[i] = L[k].body[j] /\ IsHeading(L[k].body[j])
<1>1. i \in 1..Len(W) /\ IsHeading(W[i]) /\ NamesSender(W[i]) /\ W[i][3] # Missing
  BY TextDomain DEF Written, Headings, IsHeading
<1>2. PICK k \in 1..Len(L) :
              \/ i = h[k] /\ W[i] = Heading(L[k].from, L[k].date)
              \/ \E j \in 1..Len(L[k].body) : i = h[k] + Count(L[k]) + j /\ W[i] = L[k].body[j]
  BY <1>1, SenderLine
<1>3. ASSUME W[i] = Heading(L[k].from, L[k].date) PROVE Valid(L[k])
  <2>1. W[i][2] = L[k].from /\ W[i][3] = L[k].date
    BY <1>3 DEF Heading
  <2> QED BY <2>1, <1>1 DEF Valid, NamesSender
<1> QED BY <1>1, <1>2, <1>3

\* The heading of a block names the sender and the date of its message, and is read as a
\* heading when the message has both.
LEMMA BlockHeading ==
    ASSUME NEW W, NEW L, NEW h, Written(W, L, h), NEW k \in 1..Len(L)
    PROVE  /\ h[k] \in 1..Len(W) /\ W[h[k]][2] = L[k].from /\ W[h[k]][3] = L[k].date
           /\ Valid(L[k]) => h[k] \in Headings(W)
           /\ L[k].from # Missing => NamesSender(W[h[k]])
<1> DEFINE p == h[k]
<1>1. /\ p \in Nat /\ p >= 4 /\ Count(L[k]) \in 0..2 /\ Len(L[k].body) \in Nat
      /\ h[k + 1] = p + 2 + Count(L[k]) + Len(L[k].body) /\ h[k + 1] <= Len(W) + 2
      /\ Len(W) \in Nat /\ DOMAIN W = 1..Len(W) /\ BlockAt(W, p, h[k + 1], L[k])
  <2>1. BlockAt(W, h[k], h[k + 1], L[k])
    BY BlockIs
  <2>2. /\ h[k] \in Nat /\ h[k] >= 4 /\ Count(L[k]) \in 0..2 /\ Len(L[k].body) \in Nat
        /\ h[k + 1] = h[k] + 2 + Count(L[k]) + Len(L[k].body) /\ h[k + 1] <= Len(W) + 2
    BY BlockIs
  <2>3. Len(W) \in Nat /\ DOMAIN W = 1..Len(W)
    BY BlockIs
  <2> QED BY <2>1, <2>2, <2>3
<1>2. p \in 1..Len(W)
  <2> DEFINE b == h[k + 1]
             c == Count(L[k])
             l == Len(L[k].body)
             w == Len(W)
  <2>1. p \in Nat /\ p >= 4 /\ c \in 0..2 /\ l \in Nat /\ b = p + 2 + c + l /\ b <= w + 2 /\ w \in Nat
    BY <1>1
  <2> HIDE DEF p, b, c, l, w
  <2>2. p \in 1..w
    BY ONLY <2>1
  <2> QED BY <2>2 DEF w
<1>3. W[p] = Heading(L[k].from, L[k].date)
  BY <1>1 DEF BlockAt
<1>4. W[p][1] = "##" /\ W[p][2] = L[k].from /\ W[p][3] = L[k].date
  BY <1>3 DEF Heading
<1> QED BY <1>1, <1>2, <1>4 DEF Valid, Headings, IsHeading, NamesSender

\* The headers of a message do not reach the next one that was written.
LEMMA HeaderStays ==
    ASSUME NEW W, NEW L, NEW h, Written(W, L, h), NEW k \in 1..Len(L),
           NEW i \in Headings(W), h[k] <= i, i <= h[k + 1] - 2, NEW q \in Header(W, i)
    PROVE  q \in 1..Len(W) /\ i < q /\ q <= h[k + 1] - 2 /\ W[q][1] = "meta"
<1>1. /\ h[k + 1] \in Nat /\ Len(W) \in Nat /\ (k = Len(L) \/ k + 1 \in 1..Len(L))
      /\ k = Len(L) => h[k + 1] = Len(W) + 2
  BY BlockIs
<1>2. End(W, i) \in i..Len(W) /\ End(W, i) \in Nat /\ i \in 1..Len(W)
  BY EndIs, TextDomain DEF Written
<1>3. q \in i + 1..End(W, i) /\ \A j \in i + 1..q : W[j][1] = "meta"
  BY DEF Header
<1>4. q \in Nat /\ i \in Nat /\ i < q /\ q <= Len(W) /\ q \in 1..Len(W) /\ q \in i + 1..q
  BY <1>1, <1>2, <1>3
<1>5. ~ h[k + 1] - 1 <= q
  <2>1. SUFFICES ASSUME h[k + 1] - 1 <= q PROVE FALSE
    OBVIOUS
  <2>2. k # Len(L)
    BY <2>1, <1>1, <1>4
  <2>3. k + 1 \in 1..Len(L)
    BY <2>2, <1>1
  <2> DEFINE g == k + 1
  <2> HIDE DEF g
  <2>4. BlockAt(W, h[g], h[g + 1], L[g])
    BY <2>3, BlockIs DEF g
  <2>5. W[h[g] - 1] = Rule
    BY <2>4 DEF BlockAt
  <2>6. h[k + 1] - 1 \in i + 1..q
    BY <2>1, <1>1, <1>4
  <2>7. W[h[k + 1] - 1][1] = "meta"
    BY <2>6, <1>3
  <2> QED BY <2>5, <2>7 DEF g, Rule
<1>6. q <= h[k + 1] - 2
  BY <1>1, <1>4, <1>5
<1> QED BY <1>3, <1>4, <1>6

\* A block ends before any later one starts.
LEMMA BlocksApart ==
    ASSUME NEW W, NEW L, NEW h, Written(W, L, h), NEW a \in 1..Len(L), NEW b \in 1..Len(L), a < b
    PROVE  h[a + 1] <= h[b]
<1>1. a + 1 \in 1..Len(L) + 1 /\ b \in 1..Len(L) + 1 /\ a + 1 <= b
  OBVIOUS
<1> QED BY <1>1 DEF Written

\* A line of a block, by its offset, is in the block.
LEMMA Within ==
    ASSUME NEW a \in Nat, NEW b \in Nat, NEW c \in 0..2, NEW l \in Nat, NEW q \in Nat,
           b = a + 2 + c + l, (q = a + 1 /\ c >= 1) \/ \E j \in 1..l : q = a + c + j
    PROVE  a < q /\ q <= b - 2
OBVIOUS

\* The Message-ID that is read of a message that was written, or of one in its body.
LEMMA MidStays ==
    ASSUME NEW W, NEW L, NEW h, Written(W, L, h), NEW k \in 1..Len(L),
           NEW i \in Headings(W), h[k] <= i, i <= h[k + 1] - 2, MessageAt(W, i).mid # Missing
    PROVE  \/ i = h[k] /\ L[k].mid # Missing /\ MessageAt(W, i).mid = L[k].mid
           \/ \E j \in 1..Len(L[k].body) :
                 IsMeta(L[k].body[j], "Message-ID") /\ MessageAt(W, i).mid = L[k].body[j][3]
<1>0. IsText(W) /\ Len(L) \in Nat
  BY DEF Written
<1>1. PICK q \in Header(W, i) : IsMeta(W[q], "Message-ID") /\ MessageAt(W, i).mid = W[q][3]
  BY <1>0, MidIsRead
<1>2. q \in 1..Len(W) /\ i < q /\ q <= h[k + 1] - 2
  BY HeaderStays
<1>3. PICK g \in 1..Len(L) :
              \/ q = h[g] + 1 /\ L[g].mid # Missing /\ W[q][3] = L[g].mid
              \/ \E j \in 1..Len(L[g].body) : q = h[g] + Count(L[g]) + j /\ W[q] = L[g].body[j]
  BY <1>1, <1>2, MidLine
<1>4. /\ h[k] \in Nat /\ h[k + 1] \in Nat /\ h[g] \in Nat /\ h[g + 1] \in Nat /\ Count(L[g]) \in 0..2
      /\ Len(L[g].body) \in Nat /\ h[g + 1] = h[g] + 2 + Count(L[g]) + Len(L[g].body)
      /\ L[g].mid # Missing => Count(L[g]) >= 1
  <2>1. BlockAt(W, h[g], h[g + 1], L[g])
    BY BlockIs
  <2>2. L[g].mid # Missing => Count(L[g]) >= 1
    BY <2>1 DEF BlockAt
  <2> QED BY <2>2, BlockIs
<1>5. h[g] < q /\ q <= h[g + 1] - 2 /\ q \in Nat /\ i \in Nat
  <2>1. q \in Nat /\ i \in Nat
    BY <1>0, <1>2, TextDomain
  <2> DEFINE a == h[g]
             b == h[g + 1]
             c == Count(L[g])
             l == Len(L[g].body)
  <2>2. a \in Nat /\ b \in Nat /\ c \in 0..2 /\ l \in Nat /\ b = a + 2 + c + l
    BY <1>4
  <2>3. (q = a + 1 /\ c >= 1) \/ \E j \in 1..l : q = a + c + j
    BY <1>3, <1>4
  <2>4. a < q /\ q <= b - 2
    <3> HIDE DEF a, b, c, l
    <3> QED BY ONLY <2>1, <2>2, <2>3, Within
  <2> QED BY <2>1, <2>4
<1>6. ~ g < k
  <2>1. SUFFICES ASSUME g < k PROVE FALSE
    OBVIOUS
  <2>2. h[g + 1] <= h[k]
    BY <2>1, BlocksApart
  <2> DEFINE a == h[k]
             b == h[g + 1]
  <2>3. a \in Nat /\ b \in Nat /\ b <= a /\ a <= i /\ i < q /\ q <= b - 2
    BY <2>2, <1>2, <1>4, <1>5
  <2>4. q \in Nat /\ i \in Nat
    BY <1>5
  <2> HIDE DEF a, b
  <2> QED BY ONLY <2>3, <2>4
<1>7. ~ k < g
  <2>1. SUFFICES ASSUME k < g PROVE FALSE
    OBVIOUS
  <2>2. h[k + 1] <= h[g]
    BY <2>1, BlocksApart
  <2> DEFINE a == h[g]
             b == h[k + 1]
  <2>3. a \in Nat /\ b \in Nat /\ b <= a /\ a < q /\ q <= b - 2
    BY <2>2, <1>2, <1>4, <1>5
  <2>4. q \in Nat
    BY <1>5
  <2> HIDE DEF a, b
  <2> QED BY ONLY <2>3, <2>4
<1>8. g = k
  BY <1>0, <1>6, <1>7
<1>9. CASE q = h[g] + 1 /\ L[g].mid # Missing /\ W[q][3] = L[g].mid
  <2>1. i = h[k]
    BY <1>9, <1>8, <1>2, <1>4, <1>5
  <2> QED BY <2>1, <1>9, <1>8, <1>1
<1>10. CASE \E j \in 1..Len(L[g].body) : q = h[g] + Count(L[g]) + j /\ W[q] = L[g].body[j]
  BY <1>10, <1>8, <1>1
<1> QED BY <1>3, <1>9, <1>10

\* A message goes on at least to the lines that follow its heading.
LEMMA EndAtLeast ==
    ASSUME NEW T, IsText(T), NEW i \in Headings(T), NEW e \in i..Len(T),
           \A j \in i + 1..e : j \notin Headings(T)
    PROVE  e <= End(T, i)
<1>1. i \in Nat /\ Len(T) \in Nat /\ e \in Nat
  BY TextDomain
<1> DEFINE f == End(T, i)
<1>2. f \in i..Len(T) /\ f \in Nat /\ (f = Len(T) \/ f + 1 \in Headings(T))
  BY EndIs
<1> HIDE DEF f
<1>3. SUFFICES ASSUME f < e PROVE FALSE
  BY <1>1, <1>2 DEF f
<1>4. f + 1 \in i + 1..e /\ f # Len(T)
  BY <1>1, <1>2, <1>3
<1> QED BY <1>2, <1>4

\* The lines of metadata that corky wrote are in the header, if the message has a heading.
LEMMA BlockHeader ==
    ASSUME NEW W, NEW L, NEW h, Written(W, L, h), NEW k \in 1..Len(L), Valid(L[k])
    PROVE  /\ h[k] \in Headings(W)
           /\ \A j \in h[k] + 1..h[k] + Count(L[k]) : j \in Header(W, h[k])
<1> DEFINE p == h[k]
           c == Count(L[k])
           l == Len(L[k].body)
<1>1. /\ p \in Nat /\ p >= 4 /\ c \in 0..2 /\ l \in Nat /\ h[k + 1] = p + 2 + c + l
      /\ h[k + 1] <= Len(W) + 2 /\ Len(W) \in Nat /\ DOMAIN W = 1..Len(W)
  BY BlockIs
<1>2. BlockAt(W, p, h[k + 1], L[k])
  BY BlockIs
<1>3. /\ L[k].mid # Missing => W[p + 1] = Meta("Message-ID", L[k].mid)
      /\ L[k].to # Missing => W[p + c] = Meta("To", L[k].to)
      /\ \A j \in 1..c : (L[k].mid # Missing /\ j = 1) \/ (L[k].to # Missing /\ j = c)
  BY <1>2 DEF BlockAt
<1>4. p \in Headings(W)
  BY BlockHeading
<1>5. IsText(W)
  BY DEF Written
<1> HIDE DEF p, c, l
<1>6. ASSUME NEW j \in p + 1..p + c PROVE W[j][1] = "meta" /\ j \notin Headings(W)
  <2> DEFINE d == j - p
  <2>1. d \in 1..c /\ j = p + d
    BY <1>1
  <2> HIDE DEF d
  <2>2. W[j] = Meta("Message-ID", L[k].mid) \/ W[j] = Meta("To", L[k].to)
    BY <2>1, <1>3
  <2>3. W[j][1] = "meta"
    BY <2>2 DEF Meta
  <2> QED BY <2>3 DEF Headings, IsHeading, NamesSender
<1>7. p + c \in p..Len(W)
  BY <1>1
<1>8. p + c <= End(W, p)
  BY <1>4, <1>5, <1>6, <1>7, EndAtLeast
<1>9. End(W, p) \in Nat
  BY <1>4, <1>5, EndIs
<1>10. ASSUME NEW j \in p + 1..p + c PROVE j \in Header(W, p)
  <2>1. j \in p + 1..End(W, p) /\ \A i \in p + 1..j : i \in p + 1..p + c
    BY <1>1, <1>8, <1>9
  <2> QED BY <2>1, <1>6 DEF Header
<1> QED BY <1>4, <1>10 DEF p, c

\* A message that was written with a Message-ID is read with one.
LEMMA HeaderMid ==
    ASSUME NEW W, NEW L, NEW h, Written(W, L, h), NEW k \in 1..Len(L), Valid(L[k]),
           L[k].mid # Missing, \A j \in MetaLines(W, "Message-ID") : W[j][3] # Missing
    PROVE  h[k] + 1 \in Header(W, h[k]) /\ MessageAt(W, h[k]).mid # Missing
<1>1. h[k] \in Headings(W) /\ \A j \in h[k] + 1..h[k] + Count(L[k]) : j \in Header(W, h[k])
  BY BlockHeader
<1>2. BlockAt(W, h[k], h[k + 1], L[k]) /\ h[k] \in Nat /\ Count(L[k]) \in 0..2
  BY BlockIs
<1>3. Count(L[k]) >= 1 /\ W[h[k] + 1] = Meta("Message-ID", L[k].mid)
  BY <1>2 DEF BlockAt
<1>4. h[k] + 1 \in Header(W, h[k])
  BY <1>1, <1>2, <1>3
<1>5. IsMeta(W[h[k] + 1], "Message-ID")
  BY <1>3 DEF IsMeta, Meta
<1> QED BY <1>1, <1>4, <1>5, MidIsRead DEF Written

\* The headers and the end of the header of a message whose body starts with text.
LEMMA PlainHeader ==
    ASSUME NEW W, NEW L, NEW h, Written(W, L, h), NEW k \in 1..Len(L), Valid(L[k]),
           1 \in 1..Len(L[k].body), L[k].body[1][1] = "text"
    PROVE  LET e == h[k] + Count(L[k])
           IN /\ Header(W, h[k]) = h[k] + 1..e
              /\ e + 1 <= End(W, h[k]) /\ W[e + 1] = L[k].body[1]
<1> DEFINE p == h[k]
           c == Count(L[k])
           l == Len(L[k].body)
           e == p + c
<1>1. /\ p \in Nat /\ p >= 4 /\ c \in 0..2 /\ l \in Nat /\ h[k + 1] = p + 2 + c + l
      /\ h[k + 1] <= Len(W) + 2 /\ Len(W) \in Nat /\ DOMAIN W = 1..Len(W)
  BY BlockIs
<1>2. W[e + 1] = L[k].body[1]
  <2>1. BlockAt(W, p, h[k + 1], L[k])
    BY BlockIs
  <2> QED BY <2>1 DEF BlockAt
<1>3. p \in Headings(W) /\ \A j \in p + 1..e : j \in Header(W, p)
  BY BlockHeader
<1>4. IsText(W)
  BY DEF Written
<1>5. W[e + 1][1] # "meta" /\ ~ IsHeading(W[e + 1])
  BY <1>2 DEF IsHeading, NamesSender
<1>6. l >= 1
  OBVIOUS
<1> HIDE DEF p, c, l, e
<1>7. e \in Nat /\ p <= e /\ e + 1 <= Len(W)
  BY <1>1, <1>6 DEF e
<1>8. \A j \in p + 1..e + 1 : j \notin Headings(W)
  <2>1. TAKE j \in p + 1..e + 1
  <2>2. CASE j \in p + 1..e
    <3>1. \A i \in p + 1..End(W, p) : i \notin Headings(W)
      BY <1>3, <1>4, EndIs
    <3> QED BY <3>1, <2>2, <1>3 DEF Header
  <2>3. CASE j = e + 1
    BY <2>3, <1>5 DEF Headings
  <2> QED BY <1>1, <1>7, <2>2, <2>3
<1>9. e + 1 \in p..Len(W)
  BY <1>1, <1>7
<1>10. e + 1 <= End(W, p)
  BY <1>3, <1>4, <1>8, <1>9, EndAtLeast
<1>11. ASSUME NEW j \in Header(W, p) PROVE j \in p + 1..e
  <2>1. j \in p + 1..End(W, p) /\ \A i \in p + 1..j : W[i][1] = "meta"
    BY DEF Header
  <2>2. End(W, p) \in Nat
    BY <1>3, <1>4, EndIs
  <2>3. ~ j >= e + 1
    <3>1. SUFFICES ASSUME j >= e + 1 PROVE FALSE
      OBVIOUS
    <3>2. e + 1 \in p + 1..j
      BY <3>1, <1>1, <1>7, <2>1, <2>2
    <3> QED BY <3>2, <2>1, <1>5
  <2> QED BY <1>1, <1>7, <2>1, <2>2, <2>3
<1>12. Header(W, p) = p + 1..e
  BY <1>3, <1>11
<1> QED BY <1>2, <1>10, <1>12 DEF e, p, c

\* Such a message is read with the headers it was written with, and its body starts as it did.
LEMMA HeadersRead ==
    ASSUME NEW W, NEW L, NEW h, Written(W, L, h), NEW k \in 1..Len(L), Valid(L[k]),
           1 \in 1..Len(L[k].body), L[k].body[1][1] = "text"
    PROVE  LET y == MessageAt(W, h[k])
           IN /\ y.from = L[k].from /\ y.date = L[k].date /\ y.mid = L[k].mid /\ y.to = L[k].to
              /\ 1 \in 1..Len(y.body) /\ y.body[1][1] = "text"
<1> DEFINE p == h[k]
           c == Count(L[k])
           e == p + c
           y == MessageAt(W, p)
<1>1. p \in Nat /\ c \in 0..2 /\ Len(W) \in Nat /\ DOMAIN W = 1..Len(W) /\ IsText(W) /\ p \in Headings(W)
      /\ p \in 1..Len(W)
  <2>1. IsText(W)
    BY DEF Written
  <2>2. p \in 1..Len(W) /\ p \in Headings(W)
    BY BlockHeading
  <2> QED BY <2>1, <2>2, BlockIs
<1>2. Header(W, p) = p + 1..e /\ e + 1 <= End(W, p) /\ W[e + 1] = L[k].body[1]
  BY PlainHeader
<1>3. y.from = L[k].from /\ y.date = L[k].date
  <2>1. W[p][2] = L[k].from /\ W[p][3] = L[k].date
    BY BlockHeading
  <2>2. y.from = W[p][2] /\ y.date = W[p][3]
    BY <1>1, MessageIs
  <2> QED BY <2>1, <2>2
<1>4. /\ L[k].mid # Missing => c >= 1 /\ W[p + 1] = Meta("Message-ID", L[k].mid)
      /\ L[k].to # Missing => c >= 1 /\ W[p + c] = Meta("To", L[k].to)
      /\ \A j \in 1..c : (L[k].mid # Missing /\ j = 1) \/ (L[k].to # Missing /\ j = c)
  <2>1. BlockAt(W, p, h[k + 1], L[k])
    BY BlockIs
  <2> QED BY <2>1 DEF BlockAt
<1>5. End(W, p) \in Nat /\ End(W, p) <= Len(W)
  BY <1>1, EndIs
<1>6. /\ \A f : LET I == Header(W, p) \cap MetaLines(W, f)
                IN /\ I = {} => LastValue(W, I, Missing) = Missing
                   /\ I # {} => \E j \in I : LastValue(W, I, Missing) = W[j][3]
  BY <1>1, HeaderValue
<1>7. /\ y.mid = LastValue(W, Header(W, p) \cap MetaLines(W, "Message-ID"), Missing)
      /\ y.to = LastValue(W, Header(W, p) \cap MetaLines(W, "To"), Missing)
      /\ y.body = At(W, Content(W, p))
  BY <1>1, MessageIs
<1> HIDE DEF p, c, y
<1>8. ASSUME NEW j \in Header(W, p)
      PROVE  /\ j \in 1..Len(W)
             /\ (j = p + 1 /\ L[k].mid # Missing /\ W[j] = Meta("Message-ID", L[k].mid))
                   \/ (L[k].to # Missing /\ W[j] = Meta("To", L[k].to))
  <2> DEFINE d == j - p
  <2>1. d \in 1..c /\ j = p + d /\ j \in 1..Len(W)
    BY <1>1, <1>2, <1>5
  <2> HIDE DEF d
  <2> QED BY <2>1, <1>4
<1>9. y.mid = L[k].mid
  <2> DEFINE I == Header(W, p) \cap MetaLines(W, "Message-ID")
  <2>1. \A j \in I : L[k].mid # Missing /\ W[j][3] = L[k].mid
    BY <1>8 DEF MetaLines, IsMeta, Meta
  <2>2. L[k].mid # Missing => I # {}
    <3>1. SUFFICES ASSUME L[k].mid # Missing PROVE p + 1 \in I
      OBVIOUS
    <3>2. p + 1 \in Header(W, p) /\ p + 1 \in DOMAIN W
      BY <3>1, <1>1, <1>2, <1>4, <1>5
    <3> QED BY <3>1, <3>2, <1>4 DEF MetaLines, IsMeta, Meta
  <2>3. y.mid = LastValue(W, I, Missing) /\ (I = {} => LastValue(W, I, Missing) = Missing)
        /\ (I # {} => \E j \in I : LastValue(W, I, Missing) = W[j][3])
    BY <1>6, <1>7
  <2> HIDE DEF I
  <2> QED BY <2>1, <2>2, <2>3
<1>10. y.to = L[k].to
  <2> DEFINE I == Header(W, p) \cap MetaLines(W, "To")
  <2>1. \A j \in I : L[k].to # Missing /\ W[j][3] = L[k].to
    BY <1>8 DEF MetaLines, IsMeta, Meta
  <2>2. L[k].to # Missing => I # {}
    <3>1. SUFFICES ASSUME L[k].to # Missing PROVE p + c \in I
      OBVIOUS
    <3>2. p + c \in Header(W, p) /\ p + c \in DOMAIN W
      BY <3>1, <1>1, <1>2, <1>4, <1>5
    <3> QED BY <3>1, <3>2, <1>4 DEF MetaLines, IsMeta, Meta
  <2>3. y.to = LastValue(W, I, Missing) /\ (I = {} => LastValue(W, I, Missing) = Missing)
        /\ (I # {} => \E j \in I : LastValue(W, I, Missing) = W[j][3])
    BY <1>6, <1>7
  <2> HIDE DEF I
  <2> QED BY <2>1, <2>2, <2>3
<1>11. 1 \in 1..Len(y.body) /\ y.body[1][1] = "text"
  <2> DEFINE C == Content(W, p)
             s == InOrder(C, Len(W))
  <2>1. W[e + 1][1] = "text" /\ W[e + 1] # Rule
    BY <1>2 DEF Rule
  <2>2. e + 1 \in C /\ (\A j \in C : j >= e + 1 /\ j \in Nat) /\ C \subseteq 1..Len(W)
    BY <1>1, <1>2, <1>5, <2>1 DEF Content
  <2>3. Lists(s, C, Len(W))
    BY <1>1, InOrderLists
  <2> HIDE DEF s, C
  <2>4. /\ Len(y.body) = Len(s)
        /\ \A a \in 1..Len(s) : s[a] \in 1..Len(W) /\ y.body[a] = W[s[a]]
    <3>1. W \in Seq(ToSet(W)) /\ y.body = At(W, C)
      BY <1>1, <1>7 DEF IsText, C
    <3> QED BY <3>1, <2>3, AtPicks
  <2>5. PICK a \in 1..Len(s) : s[a] = e + 1
    BY <2>2, <2>3 DEF Lists
  <2>6. Len(s) \in Nat /\ \A b \in 1..Len(s) : s[b] \in C
    BY <2>3 DEF Lists
  <2>7. 1 \in 1..Len(s)
    BY <2>5, <2>6
  <2>8. s[1] = e + 1
    <3>1. CASE a = 1
      BY <3>1, <2>5
    <3>2. CASE a # 1
      <4>1. 1 < a
        BY <3>2, <2>5, <2>6
      <4>2. s[1] < e + 1
        BY <4>1, <2>3, <2>5, <2>7 DEF Lists
      <4>3. s[1] >= e + 1 /\ s[1] \in Nat
        BY <2>2, <2>6, <2>7
      <4> QED BY <4>2, <4>3, <1>1
    <3> QED BY <3>1, <3>2
  <2> QED BY <2>1, <2>4, <2>7, <2>8
<1> QED BY <1>3, <1>9, <1>10, <1>11 DEF y, p

\* Between the headers and the next message, without its rule, is the body.
BodyAt(T, p, e, l) ==
    /\ IsText(T) /\ p \in Headings(T) /\ e \in Nat /\ l \in Nat
    /\ p <= e /\ Header(T, p) = p + 1..e /\ e + l <= Len(T)
    /\ \A j \in e + 1..e + l : ~ IsHeading(T[j]) /\ T[j] # Rule
    /\ e + l = Len(T) \/ (e + l + 2 \in Headings(T) /\ T[e + l + 1] = Rule)

\* What is read as the content of a message are the lines of its body.
LEMMA ContentIs ==
    ASSUME NEW T, NEW p, NEW e, NEW l, BodyAt(T, p, e, l)
    PROVE  Content(T, p) = e + 1..e + l
<1>0. /\ IsText(T) /\ p \in Headings(T) /\ e \in Nat /\ l \in Nat
      /\ p <= e /\ Header(T, p) = p + 1..e /\ e + l <= Len(T)
      /\ \A j \in e + 1..e + l : ~ IsHeading(T[j]) /\ T[j] # Rule
      /\ e + l = Len(T) \/ (e + l + 2 \in Headings(T) /\ T[e + l + 1] = Rule)
  BY DEF BodyAt
<1> DEFINE f == End(T, p)
           n == Len(T)
           H == Headings(T)
<1>1. /\ p \in Nat /\ n \in Nat /\ f \in Nat /\ f <= n /\ p <= n
      /\ \A j \in p + 1..f : j \notin H
  BY <1>0, TextDomain, EndIs
<1>2. \A j \in p + 1..e + l : j \notin H
  <2>1. \A j \in p + 1..e : T[j][1] = "meta"
    <3>1. TAKE j \in p + 1..e
    <3>2. j \in Header(T, p) /\ j \in p + 1..j
      BY <1>0, <1>1
    <3> QED BY <3>2 DEF Header
  <2>2. \A j \in p + 1..e + l : j \in p + 1..e \/ j \in e + 1..e + l
    BY <1>0, <1>1
  <2> QED BY <2>1, <2>2, <1>0 DEF Headings, IsHeading, NamesSender
<1>3. e + l <= f
  <2>1. e + l \in p..Len(T)
    BY <1>0, <1>1
  <2> QED BY <2>1, <1>0, <1>2, EndAtLeast
<1>4. Content(T, p) = {j \in p + 1..f : j \notin p + 1..e /\ T[j] # Rule}
  BY <1>0 DEF Content
<1> HIDE DEF f, n, H
<1>5. e + l = n \/ (e + l + 2 \in H /\ T[e + l + 1] = Rule)
  BY <1>0 DEF n, H
<1>6. ASSUME NEW j \in e + 1..e + l PROVE j \in p + 1..f /\ j \notin p + 1..e /\ T[j] # Rule
  BY <1>0, <1>1, <1>3
<1>7. ASSUME NEW j \in p + 1..f, j \notin p + 1..e, T[j] # Rule PROVE j \in e + 1..e + l
  <2>1. j \in Nat /\ j >= e + 1 /\ j <= f
    BY <1>0, <1>1, <1>7
  <2>2. ~ j > e + l
    <3>1. SUFFICES ASSUME j > e + l PROVE FALSE
      OBVIOUS
    <3>2. e + l # n
      BY <1>0, <1>1, <2>1, <3>1
    <3>3. j # e + l + 1
      BY <1>5, <1>7, <3>2
    <3>4. e + l + 2 \in p + 1..f
      BY <1>0, <1>1, <2>1, <3>1, <3>3
    <3> QED BY <1>0, <1>1, <1>5, <3>2, <3>4
  <2> QED BY <1>0, <2>1, <2>2
<1> QED BY <1>4, <1>6, <1>7 DEF f

\* A body without headings and rules is read up to the next message.
LEMMA BodyRead ==
    ASSUME NEW W, NEW L, NEW h, Written(W, L, h), NEW k \in 1..Len(L), Valid(L[k]),
           1 \in 1..Len(L[k].body), L[k].body[1][1] = "text", IsText(L[k].body),
           \A j \in 1..Len(L[k].body) : L[k].body[j][1] \in {"text", "meta"},
           k = Len(L) \/ Valid(L[k + 1])
    PROVE  MessageAt(W, h[k]).body = L[k].body
<1> DEFINE p == h[k]
           c == Count(L[k])
           e == p + c
           z == L[k].body
           l == Len(z)
           C == Content(W, p)
           q == h[k + 1]
           n == Len(W)
<1>1. /\ p \in Nat /\ c \in 0..2 /\ l \in Nat /\ n \in Nat
      /\ q = p + 2 + c + l /\ q <= n + 2 /\ (k = Len(L) => q = n + 2)
      /\ (k = Len(L) \/ k + 1 \in 1..Len(L))
  BY BlockIs
<1>2. IsText(W) /\ IsText(z)
  BY DEF Written
<1>3. p \in Headings(W)
  BY BlockHeading
<1>4. Header(W, p) = p + 1..e
  BY PlainHeader
<1>5. \A j \in 1..l : W[e + j] = z[j]
  <2>1. BlockAt(W, p, h[k + 1], L[k])
    BY BlockIs
  <2> QED BY <2>1 DEF BlockAt
<1>6. k # Len(L) => q \in Headings(W) /\ W[q - 1] = Rule
  <2>1. SUFFICES ASSUME k # Len(L) PROVE q \in Headings(W) /\ W[q - 1] = Rule
    OBVIOUS
  <2> DEFINE g == k + 1
  <2>2. g \in 1..Len(L) /\ Valid(L[g])
    BY <2>1, <1>1
  <2> HIDE DEF g
  <2>3. h[g] \in Headings(W)
    BY <2>2, BlockHeading
  <2>4. BlockAt(W, h[g], h[g + 1], L[g])
    BY <2>2, BlockIs
  <2>5. W[h[g] - 1] = Rule
    BY <2>4 DEF BlockAt
  <2> QED BY <2>3, <2>5 DEF g
<1>7. \A j \in 1..l : z[j][1] \in {"text", "meta"}
  OBVIOUS
<1>8. MessageAt(W, p).body = At(W, C)
  BY <1>2, <1>3, MessageIs
<1>9. e = p + c
  OBVIOUS
<1> HIDE DEF p, c, e, z, l, q, n
<1>10. e \in Nat /\ p <= e /\ q = e + l + 2 /\ e + l <= n /\ q - 1 = e + l + 1
       /\ (k = Len(L) => e + l = n)
  BY ONLY <1>1, <1>9
<1>11. \A j \in e + 1..e + l : ~ IsHeading(W[j]) /\ W[j] # Rule
  <2>1. TAKE j \in e + 1..e + l
  <2> DEFINE d == j - e
  <2>2. d \in 1..l /\ j = e + d
    BY <1>1, <1>10
  <2> HIDE DEF d
  <2>3. W[j][1] \in {"text", "meta"}
    BY <2>2, <1>5, <1>7
  <2> QED BY <2>3 DEF Rule, IsHeading, NamesSender
<1>12. C = e + 1..e + l
  <2>1. e + l = Len(W) \/ (e + l + 2 \in Headings(W) /\ W[e + l + 1] = Rule)
    BY <1>6, <1>10 DEF n
  <2>2. e \in Nat /\ l \in Nat /\ p <= e /\ e + l <= Len(W)
    BY <1>1, <1>10 DEF n
  <2>3. IsText(W)
    BY <1>2
  <2>4. Content(W, p) = e + 1..e + l
    <3>1. BodyAt(W, p, e, l)
      BY <2>3, <1>3, <1>4, <1>11, <2>1, <2>2 DEF BodyAt
    <3> QED BY <3>1, ContentIs
  <2> QED BY <2>4
<1> HIDE DEF C
<1> DEFINE s == [j \in 1..l |-> e + j]
<1>13. Lists(s, C, n)
  <2>1. e + l <= n /\ e \in Nat /\ l \in Nat /\ n \in Nat
    BY <1>1, <1>10
  <2> QED BY <2>1, <1>12, ListsRange
<1>14. Len(s) = l /\ \A j \in 1..l : s[j] = e + j
  BY <1>1
<1> HIDE DEF s
<1> DEFINE b == At(W, C)
<1>15. b \in Seq(ToSet(W)) /\ Len(b) = l /\ \A j \in 1..l : b[j] = W[e + j]
  <2>1. W \in Seq(ToSet(W))
    BY <1>2 DEF IsText
  <2>2. /\ At(W, C) \in Seq(ToSet(W)) /\ Len(At(W, C)) = Len(s)
        /\ \A a \in 1..Len(s) : s[a] \in 1..Len(W) /\ At(W, C)[a] = W[s[a]]
    BY <2>1, <1>13, AtPicks DEF n
  <2> QED BY <2>2, <1>14
<1> HIDE DEF b
<1>16. z \in Seq(ToSet(z)) /\ Len(z) = l /\ \A j \in 1..l : b[j] = z[j]
  BY <1>2, <1>5, <1>15 DEF IsText, l
<1>17. b = z
  <2>1. b \in [1..l -> ToSet(W)] /\ z \in [1..l -> ToSet(z)]
    BY <1>15, <1>16, LenProperties
  <2> QED BY <2>1, <1>16
<1> QED BY <1>8, <1>17 DEF p, z, b

-----------------------------------------------------------------------------
(* Sorting *)

\* q[k] is the place in ms of the k-th message of r: by time and, at the same time, as in ms.
InTime(r, ms, q) ==
    /\ Len(r) \in Nat /\ DOMAIN r = 1..Len(r) /\ q \in [1..Len(r) -> 1..Len(ms)]
    /\ \A k \in 1..Len(r) : r[k] = ms[q[k]]
    /\ \A i \in 1..Len(ms) : \E k \in 1..Len(r) : q[k] = i
    /\ \A a, b \in 1..Len(r) : a < b =>
          \/ Time(r[a].date) < Time(r[b].date)
          \/ Time(r[a].date) = Time(r[b].date) /\ q[a] < q[b]

\* Sorted puts the messages in order of their times and keeps the order of equal ones.
LEMMA SortedIs ==
    ASSUME MaxTime \in Nat, NEW S, NEW ms \in Seq(S),
           \A i \in 1..Len(ms) : Time(ms[i].date) \in 0..MaxTime
    PROVE  \E q : InTime(Sorted(ms), ms, q)
<1> DEFINE n == Len(ms)
           N == MaxTime + 1
           I(t) == {i \in DOMAIN ms : Time(ms[i].date) = t - 1}
           e(t) == InOrder(I(t), n)
           s(t) == At(ms, I(t))
           seqs == [t \in 1..N |-> s(t)]
           F == FlattenSeq(seqs)
<1>1. n \in Nat /\ N \in Nat /\ DOMAIN ms = 1..n
  BY LenProperties
<1>2. Sorted(ms) = F
  BY DEF Sorted
<1>3. ASSUME NEW t
      PROVE  /\ s(t) \in Seq(S) /\ Len(s(t)) = Len(e(t)) /\ Len(e(t)) \in Nat
             /\ \A a \in 1..Len(e(t)) : e(t)[a] \in 1..n /\ e(t)[a] \in I(t) /\ s(t)[a] = ms[e(t)[a]]
             /\ \A a, b \in 1..Len(e(t)) : a < b => e(t)[a] < e(t)[b]
             /\ \A i \in I(t) : \E a \in 1..Len(e(t)) : e(t)[a] = i
  <2>1. Lists(e(t), I(t), n)
    BY <1>1, InOrderLists
  <2> DEFINE J == I(t)
             d == e(t)
  <2>2. I(t) \subseteq 1..n
    BY <1>1
  <2> HIDE DEF e, I, n
  <2>3. /\ At(ms, J) \in Seq(S) /\ Len(At(ms, J)) = Len(d)
        /\ \A a \in 1..Len(d) : d[a] \in 1..n /\ At(ms, J)[a] = ms[d[a]]
    BY <2>1, AtPicks DEF n
  <2>4. Len(d) \in Nat
    BY <2>1 DEF Lists
  <2> QED BY <2>1, <2>2, <2>3, <2>4 DEF Lists
<1> HIDE DEF e, s
<1>4. seqs \in Seq(Seq(S)) /\ Len(seqs) = N /\ \A t \in 1..N : seqs[t] = s(t)
  BY <1>1, <1>3
<1> HIDE DEF seqs, n, N
<1>b. seqs \in Seq(Seq(S))
  BY <1>4
<1>a. PICK off : Laid(off, seqs, FlattenSeq(seqs), S)
  BY ONLY <1>b, FlattenLaid
<1>5. /\ Offsets(off, seqs) /\ F \in Seq(S) /\ Len(F) = off[N + 1]
      /\ \A k \in 1..N : \A j \in 1..Len(seqs[k]) : F[off[k] + j] = seqs[k][j]
  BY ONLY <1>a, <1>4 DEF Laid
<1> HIDE DEF F
<1> DEFINE In(k, t) == k - off[t] \in 1..Len(seqs[t])
           at(k) == CHOOSE t \in 1..N : In(k, t)
           q == [k \in 1..Len(F) |-> e(at(k))[k - off[at(k)]]]
<1>6. Len(F) \in Nat /\ DOMAIN F = 1..Len(F)
  BY <1>5, LenProperties
<1>7. ASSUME NEW k \in 1..Len(F) PROVE at(k) \in 1..N /\ In(k, at(k))
  <2>1. \E t \in 1..N : In(k, t)
    BY <1>4, <1>5, OffsetsCover
  <2> HIDE DEF In
  <2> QED BY <2>1
<1>8. ASSUME NEW t \in 1..N, NEW u \in 1..N, t < u, NEW j \in Nat, NEW k \in Nat, In(j, t), In(k, u)
      PROVE  j < k
  <2>1. off[t] \in Nat /\ off[u] \in Nat /\ Len(seqs[t]) \in Nat /\ off[t] + Len(seqs[t]) <= off[u]
    <3>1. t \in 1..Len(seqs) /\ u \in 1..Len(seqs) + 1
      BY <1>1, <1>4
    <3> QED BY <3>1, <1>4, <1>5, <1>8, OffsetsApart
  <2> DEFINE o == off[t]
             p == off[u]
             l == Len(seqs[t])
             r == Len(seqs[u])
  <2>2. j - o \in 1..l /\ k - p \in 1..r /\ o \in Nat /\ p \in Nat /\ l \in Nat /\ o + l <= p
    BY <1>8, <2>1
  <2> HIDE DEF o, p, l, r
  <2> QED BY ONLY <2>2, j \in Nat, k \in Nat
<1> HIDE DEF at, In
<1>9. ASSUME NEW k \in 1..Len(F), NEW t \in 1..N, In(k, t)
      PROVE  /\ at(k) = t /\ off[t] \in Nat /\ k - off[t] \in 1..Len(e(t))
             /\ q[k] = e(t)[k - off[t]] /\ q[k] \in 1..n /\ q[k] \in I(t) /\ F[k] = ms[q[k]]
  <2>1. at(k) = t
    <3>1. at(k) \in 1..N /\ In(k, at(k)) /\ k \in Nat
      BY <1>6, <1>7
    <3>2. at(k) \in Nat /\ t \in Nat
      BY <1>1, <3>1
    <3> QED BY <1>8, <1>9, <3>1, <3>2
  <2>2. off[t] \in Nat
    <3>1. t \in 1..Len(seqs) + 1
      BY <1>1, <1>4
    <3> QED BY <3>1, <1>5 DEF Offsets
  <2>3. k - off[t] \in 1..Len(seqs[t])
    BY <1>9 DEF In
  <2>4. seqs[t] = s(t) /\ Len(s(t)) = Len(e(t))
    BY <1>3, <1>4
  <2> DEFINE j == k - off[t]
  <2>5. j \in 1..Len(e(t)) /\ k = off[t] + j
    BY <1>6, <2>2, <2>3, <2>4
  <2>6. q[k] = e(t)[j]
    BY <2>1
  <2> HIDE DEF j, q
  <2>7. F[k] = s(t)[j]
    BY <1>5, <2>4, <2>5
  <2>8. e(t)[j] \in 1..n /\ e(t)[j] \in I(t) /\ s(t)[j] = ms[e(t)[j]]
    BY <1>3, <2>5
  <2> QED BY <2>1, <2>2, <2>5, <2>6, <2>7, <2>8 DEF j
<1>10. \A k \in 1..Len(F) : q[k] \in 1..n /\ F[k] = ms[q[k]] /\ Time(F[k].date) = at(k) - 1
  BY <1>7, <1>9 DEF I
<1>11. q \in [1..Len(F) -> 1..n]
  BY <1>10
<1>12. ASSUME NEW i \in 1..n PROVE \E k \in 1..Len(F) : q[k] = i
  <2> DEFINE t == Time(ms[i].date) + 1
  <2>1. t \in 1..N /\ i \in I(t)
    <3>1. Time(ms[i].date) \in 0..MaxTime
      BY DEF n
    <3>2. t - 1 = Time(ms[i].date) /\ t \in 1..N
      BY <3>1 DEF N
    <3> QED BY <3>2, <1>1
  <2> HIDE DEF t
  <2>2. PICK a \in 1..Len(e(t)) : e(t)[a] = i
    BY <1>3, <2>1
  <2>3. seqs[t] = s(t) /\ Len(seqs[t]) = Len(e(t))
    BY <1>3, <1>4, <2>1
  <2>4. off[t] \in Nat /\ off[N + 1] \in Nat /\ off[t] + Len(seqs[t]) <= off[N + 1]
    <3>1. t \in 1..Len(seqs) /\ N + 1 \in 1..Len(seqs) + 1 /\ t < N + 1
      BY <1>1, <1>4, <2>1
    <3> QED BY <3>1, <1>4, <1>5, OffsetsApart
  <2> DEFINE k == off[t] + a
  <2>5. k \in 1..Len(F) /\ k - off[t] = a
    <3> DEFINE o == off[t]
               l == Len(seqs[t])
               m == Len(F)
    <3>1. o \in Nat /\ m \in Nat /\ o + l <= m /\ a \in 1..l /\ k = o + a /\ l \in Nat
      BY <1>3, <1>5, <1>6, <2>2, <2>3, <2>4
    <3> HIDE DEF o, l, m, k
    <3>2. k \in 1..m /\ k - o = a
      BY ONLY <3>1
    <3> QED BY <3>2 DEF o, m
  <2> HIDE DEF k
  <2>6. In(k, t)
    BY <2>2, <2>3, <2>5 DEF In
  <2> QED BY <1>9, <2>1, <2>2, <2>5, <2>6
<1>13. ASSUME NEW a \in 1..Len(F), NEW b \in 1..Len(F), a < b
       PROVE  \/ Time(F[a].date) < Time(F[b].date)
              \/ Time(F[a].date) = Time(F[b].date) /\ q[a] < q[b]
  <2>1. at(a) \in 1..N /\ at(b) \in 1..N /\ In(a, at(a)) /\ In(b, at(b))
    BY <1>7
  <2>2. at(a) \in Nat /\ at(b) \in Nat /\ a \in Nat /\ b \in Nat
    BY <2>1, <1>1, <1>6
  <2>3. ~ at(b) < at(a)
    <3>1. SUFFICES ASSUME at(b) < at(a) PROVE FALSE
      OBVIOUS
    <3>2. b < a
      BY <3>1, <2>1, <2>2, <1>8
    <3> QED BY <3>2, <2>2, <1>13
  <2>4. CASE at(a) = at(b)
    <3> DEFINE t == at(a)
    <3>1. /\ off[t] \in Nat /\ a - off[t] \in 1..Len(e(t)) /\ b - off[t] \in 1..Len(e(t))
          /\ q[a] = e(t)[a - off[t]] /\ q[b] = e(t)[b - off[t]]
      BY <2>1, <2>4, <1>9
    <3> HIDE DEF t, q
    <3>2. a - off[t] < b - off[t]
      BY <3>1, <2>2, <1>13
    <3>3. q[a] < q[b]
      BY <3>1, <3>2, <1>3
    <3>4. Time(F[a].date) = Time(F[b].date)
      BY <1>10, <2>4
    <3> QED BY <3>3, <3>4
  <2>5. CASE at(a) < at(b)
    <3>1. Time(F[a].date) = at(a) - 1 /\ Time(F[b].date) = at(b) - 1
      BY <1>10
    <3> QED BY <3>1, <2>2, <2>5
  <2> QED BY <2>2, <2>3, <2>4, <2>5
<1> HIDE DEF q
<1>14. InTime(F, ms, q)
  BY <1>6, <1>10, <1>11, <1>12, <1>13 DEF InTime, n
<1> QED BY <1>2, <1>14

-----------------------------------------------------------------------------
(* The inductive invariant.  W is a text, X are the mails that were merged into it.  The      *)
(* predicates of the model that speak of `merged' are stated for any set of mails.            *)

UnmistakableIn(X, m) ==
    \A x \in X :
        /\ DedupKey(x) = DedupKey(m) => x = m
        /\ \A l \in Quoted(x) :
              IF m.mid # Missing THEN IsMeta(l, "Message-ID") => l[3] # m.mid
              ELSE IsHeading(l) /\ l[2] = m.from => Time(l[3]) # Time(m.date)

PlainIn(X, m) ==
    /\ m.from # Missing /\ Time(m.date) > 0
    /\ m.body # <<>> /\ Head(m.body)[1] = "text"
    /\ \A l \in Quoted(m) : l[1] \in {"text", "meta"}
    /\ UnmistakableIn(X, m)

LatestIn(X) == {m \in X : \A x \in X : Time(x.date) <= Time(m.date)}
QuotesArePastIn(X) == \A x \in X : \A l \in Quoted(x) : IsHeading(l) => Time(l[3]) <= Time(x.date)

\* The file has the subject and claims the key.
Identified(W) ==
    /\ Len(W) >= 2 /\ W[1] = Title(subject) /\ IsMeta(W[2], "Thread-ID")
    /\ \/ W[2][3] = ThreadKey
       \/ Len(W) >= 3 /\ IsMeta(W[3], "Thread-Aliases") /\ ThreadKey \in W[3][3]
    /\ \A i \in MetaLines(W, "Thread-ID") : W[i][3] # Missing

\* A Message-ID and a sender in the file are those of a mail, or of a line that a mail quotes.
HasMid(x, v) == x.mid = v \/ \E l \in Quoted(x) : IsMeta(l, "Message-ID") /\ l[3] = v
Quotes(x, f, d) == \E l \in Quoted(x) : l[1] = "##" /\ l[2] = f /\ l[3] = d
Traced(W, X) ==
    /\ \A i \in MetaLines(W, "Message-ID") : W[i][3] # Missing /\ \E x \in X : HasMid(x, W[i][3])
    /\ \A i \in DOMAIN W : NamesSender(W[i]) =>
          \E x \in X : (x.from = W[i][2] /\ x.date = W[i][3]) \/ Quotes(x, W[i][2], W[i][3])
    /\ \A i \in Headings(W) : MessageAt(W, i).mid = Missing =>
          \E x \in X : \/ x.mid = Missing /\ x.from = W[i][2] /\ x.date = W[i][3]
                       \/ Quotes(x, W[i][2], W[i][3])

\* A plain mail is there, and its body is whole if no mail without a sender can follow it.
Named(X, m) == \A x \in X : Time(x.date) >= Time(m.date) => x.from # Missing
IsReadAs(y, m) ==
    /\ y.from = m.from /\ y.date = m.date /\ y.mid = m.mid /\ y.to = m.to
    /\ 1 \in 1..Len(y.body) /\ y.body[1][1] = "text"
ReadBack(W, X) ==
    \A m \in X : PlainIn(X, m) => \E i \in Headings(W) :
        IsReadAs(MessageAt(W, i), m) /\ (Named(X, m) => MessageAt(W, i) = m)

\* It is there once, and no other message has its Message-ID in its body.
KeyAt(W, i) == DedupKey(MessageAt(W, i))
Once(W, X) ==
    \A m \in X : PlainIn(X, m) =>
       /\ \A i, j \in Headings(W) : KeyAt(W, i) = DedupKey(m) /\ KeyAt(W, j) = DedupKey(m) => i = j
       /\ m.mid # Missing => \A i \in Headings(W) : \A j \in Content(W, i) :
             ~ (IsMeta(W[j], "Message-ID") /\ W[j][3] = m.mid)

Ordered(W, X) ==
    \A m, x \in X : PlainIn(X, m) /\ PlainIn(X, x) =>
       \A i, j \in Headings(W) : i < j /\ KeyAt(W, i) = DedupKey(m) /\ KeyAt(W, j) = DedupKey(x)
          => Time(W[i][3]) <= Time(W[j][3])

\* The last sender that is named is that of one of the latest mails.
LastOne(W, X) ==
    X # {} /\ QuotesArePastIn(X) /\ (\A m \in LatestIn(X) : PlainIn(X, m)) =>
       \E i \in Headings(W) : /\ \A j \in DOMAIN W : NamesSender(W[j]) => j <= i
                              /\ \A m \in LatestIn(X) : Time(W[i][3]) = Time(m.date)

ThreadInv ==
    /\ merged \subseteq Mails
    /\ subject # Missing /\ (\A x \in merged : NoBlanks(x)) =>
         /\ IsText(text) /\ (text = <<>> <=> merged = {}) /\ (text # <<>> => Identified(text))
         /\ Traced(text, merged) /\ ReadBack(text, merged) /\ Once(text, merged)
         /\ Ordered(text, merged) /\ LastOne(text, merged)

-----------------------------------------------------------------------------
(* A step.  The messages L that are written are those that were read of W, src[k] being the  *)
(* heading of the k-th, and the mail m, for which src[k] is 0, unless its key was there.      *)

Known(W, L, m, src) ==
    /\ \A k \in 1..Len(L) : src[k] # 0
    /\ \E i \in Headings(W) : KeyAt(W, i) = DedupKey(m)
    /\ \A a, b \in 1..Len(L) : a < b => src[a] < src[b]

Added(W, L, m, src) ==
    /\ \E k \in 1..Len(L) : src[k] = 0
    /\ \A i \in Headings(W) : KeyAt(W, i) # DedupKey(m)
    /\ \A a, b \in 1..Len(L) : a < b =>
          \/ Time(L[a].date) < Time(L[b].date)
          \/ Time(L[a].date) = Time(L[b].date) /\ src[a] # 0 /\ (src[b] = 0 \/ src[a] < src[b])

Joined(W, L, m, src) ==
    /\ IsText(W) /\ Len(L) \in Nat /\ src \in [1..Len(L) -> Nat] /\ IsText(m.body)
    /\ \A k \in 1..Len(L) :
          \/ src[k] = 0 /\ L[k] = m
          \/ src[k] # 0 /\ src[k] \in Headings(W) /\ L[k] = MessageAt(W, src[k])
    /\ \A a, b \in 1..Len(L) : src[a] = src[b] => a = b
    /\ \A i \in Headings(W) : \E k \in 1..Len(L) : src[k] = i
    /\ Known(W, L, m, src) \/ Added(W, L, m, src)

\* The lines that a mail quotes are those of its body.
LEMMA QuotedLine ==
    ASSUME NEW m, IsText(m.body)
    PROVE  /\ \A j \in 1..Len(m.body) : m.body[j] \in Quoted(m)
           /\ \A l \in Quoted(m) : \E j \in 1..Len(m.body) : l = m.body[j]
<1>1. DOMAIN m.body = 1..Len(m.body)
  BY TextDomain
<1> QED BY <1>1 DEF Quoted, ToSet

\* A line of a body is one of the new mail, or one that was read.
LEMMA KeptLine ==
    ASSUME NEW W, NEW L, NEW m, NEW src, Joined(W, L, m, src), NEW k \in 1..Len(L),
           NEW j \in 1..Len(L[k].body)
    PROVE  \/ src[k] = 0 /\ L[k] = m /\ L[k].body[j] \in Quoted(m)
           \/ /\ src[k] \in Headings(W) /\ L[k] = MessageAt(W, src[k]) /\ ~ IsHeading(L[k].body[j])
              /\ \E i \in Content(W, src[k]) : i \in DOMAIN W /\ i > src[k] /\ L[k].body[j] = W[i]
<1>1. IsText(W) /\ IsText(m.body)
  BY DEF Joined
<1>2. CASE src[k] = 0 /\ L[k] = m
  BY <1>1, <1>2, QuotedLine
<1>3. CASE src[k] # 0 /\ src[k] \in Headings(W) /\ L[k] = MessageAt(W, src[k])
  <2> DEFINE p == src[k]
             y == MessageAt(W, p)
  <2>1. p \in Headings(W) /\ L[k] = y
    BY <1>3
  <2> HIDE DEF p
  <2>2. /\ \A b \in 1..Len(y.body) : \E i \in Content(W, p) : y.body[b] = W[i]
        /\ \A b \in 1..Len(y.body) : ~ IsHeading(y.body[b]) /\ y.body[b] # Rule
    BY <1>1, <2>1, BodyIsRead
  <2>3. \A i \in Content(W, p) : i \in DOMAIN W /\ i > p
    <3>1. p \in 1..Len(W) /\ Len(W) \in Nat /\ DOMAIN W = 1..Len(W) /\ End(W, p) \in p..Len(W)
      BY <1>1, <2>1, TextDomain, EndIs
    <3> QED BY <3>1 DEF Content
  <2> HIDE DEF y
  <2> QED BY <2>1, <2>2, <2>3 DEF p, y
<1> QED BY <1>2, <1>3 DEF Joined

\* What the file names goes back to the mails.
LEMMA TracedStays ==
    ASSUME NEW W, NEW X, NEW L, NEW m, NEW src, Joined(W, L, m, src), NEW T, NEW h,
           Written(T, L, h), Traced(W, X), NoBlanks(m)
    PROVE  Traced(T, X \cup {m})
<1> DEFINE Y == X \cup {m}
<1>1. IsText(W) /\ IsText(T) /\ DOMAIN T = 1..Len(T) /\ Headings(T) \subseteq 1..Len(T) /\ m \in Y
  BY TextDomain DEF Joined, Written
<1>2. \A k \in 1..Len(L) :
          \/ src[k] = 0 /\ L[k] = m
          \/ src[k] # 0 /\ src[k] \in Headings(W) /\ L[k] = MessageAt(W, src[k])
  BY DEF Joined
<1>3. ASSUME NEW i \in MetaLines(T, "Message-ID")
      PROVE  T[i][3] # Missing /\ \E x \in Y : HasMid(x, T[i][3])
  <2>1. i \in 1..Len(T) /\ IsMeta(T[i], "Message-ID")
    BY <1>1 DEF MetaLines
  <2>2. PICK k \in 1..Len(L) :
              \/ i = h[k] + 1 /\ L[k].mid # Missing /\ T[i][3] = L[k].mid
              \/ \E j \in 1..Len(L[k].body) : i = h[k] + Count(L[k]) + j /\ T[i] = L[k].body[j]
    BY <2>1, MidLine
  <2>3. ASSUME NEW u \in DOMAIN W, IsMeta(W[u], "Message-ID"), T[i][3] = W[u][3]
        PROVE  T[i][3] # Missing /\ \E x \in Y : HasMid(x, T[i][3])
    BY <2>3 DEF Traced, MetaLines
  <2>4. CASE L[k].mid # Missing /\ T[i][3] = L[k].mid
    <3>1. CASE L[k] = m
      BY <3>1, <2>4 DEF HasMid
    <3>2. CASE src[k] \in Headings(W) /\ L[k] = MessageAt(W, src[k])
      <4> DEFINE p == src[k]
      <4> HIDE DEF p
      <4>1. p \in Headings(W) /\ MessageAt(W, p).mid # Missing /\ T[i][3] = MessageAt(W, p).mid
        BY <3>2, <2>4 DEF p
      <4>2. PICK u \in Header(W, p) : IsMeta(W[u], "Message-ID") /\ MessageAt(W, p).mid = W[u][3]
        BY <4>1, <1>1, MidIsRead
      <4>3. u \in DOMAIN W
        <5>1. p \in 1..Len(W) /\ Len(W) \in Nat /\ DOMAIN W = 1..Len(W) /\ End(W, p) \in p..Len(W)
          BY <1>1, <4>1, TextDomain, EndIs
        <5> QED BY <5>1 DEF Header
      <4> QED BY <2>3, <4>1, <4>2, <4>3
    <3> QED BY <3>1, <3>2, <1>2
  <2>5. CASE \E j \in 1..Len(L[k].body) : T[i] = L[k].body[j]
    <3>1. PICK j \in 1..Len(L[k].body) : T[i] = L[k].body[j]
      BY <2>5
    <3>2. CASE L[k].body[j] \in Quoted(m)
      BY <3>1, <3>2, <2>1 DEF NoBlanks, HasMid
    <3>3. CASE \E u \in DOMAIN W : L[k].body[j] = W[u]
      BY <3>1, <3>3, <2>1, <2>3
    <3> QED BY <3>2, <3>3, KeptLine
  <2> QED BY <2>2, <2>4, <2>5
<1>4. ASSUME NEW i \in DOMAIN T, NamesSender(T[i])
      PROVE  \E x \in Y : (x.from = T[i][2] /\ x.date = T[i][3]) \/ Quotes(x, T[i][2], T[i][3])
  <2>1. PICK k \in 1..Len(L) :
              \/ i = h[k] /\ T[i] = Heading(L[k].from, L[k].date)
              \/ \E j \in 1..Len(L[k].body) : i = h[k] + Count(L[k]) + j /\ T[i] = L[k].body[j]
    BY <1>1, <1>4, SenderLine
  <2>2. ASSUME NEW u \in DOMAIN W, NamesSender(W[u]), T[i][2] = W[u][2], T[i][3] = W[u][3]
        PROVE  \E x \in Y : (x.from = T[i][2] /\ x.date = T[i][3]) \/ Quotes(x, T[i][2], T[i][3])
    BY <2>2 DEF Traced
  <2>3. CASE T[i] = Heading(L[k].from, L[k].date)
    <3>0. T[i][2] = L[k].from /\ T[i][3] = L[k].date
      BY <2>3 DEF Heading
    <3>1. CASE L[k] = m
      BY <3>0, <3>1
    <3>2. CASE src[k] \in Headings(W) /\ L[k] = MessageAt(W, src[k])
      <4> DEFINE p == src[k]
      <4> HIDE DEF p
      <4>1. p \in Headings(W) /\ L[k] = MessageAt(W, p)
        BY <3>2 DEF p
      <4>2. MessageAt(W, p).from = W[p][2] /\ MessageAt(W, p).date = W[p][3]
        BY <4>1, <1>1, MessageIs
      <4>3. p \in DOMAIN W /\ NamesSender(W[p])
        BY <4>1 DEF Headings, IsHeading
      <4> QED BY <2>2, <3>0, <4>1, <4>2, <4>3
    <3> QED BY <3>1, <3>2, <1>2
  <2>4. CASE \E j \in 1..Len(L[k].body) : T[i] = L[k].body[j]
    <3>1. PICK j \in 1..Len(L[k].body) : T[i] = L[k].body[j]
      BY <2>4
    <3>2. CASE L[k].body[j] \in Quoted(m)
      BY <3>1, <3>2, <1>4 DEF NamesSender, Quotes
    <3>3. CASE \E u \in DOMAIN W : L[k].body[j] = W[u]
      BY <3>1, <3>3, <1>4, <2>2
    <3> QED BY <3>2, <3>3, KeptLine
  <2> QED BY <2>1, <2>3, <2>4
<1>5. ASSUME NEW i \in Headings(T), MessageAt(T, i).mid = Missing
      PROVE  \E x \in Y : \/ x.mid = Missing /\ x.from = T[i][2] /\ x.date = T[i][3]
                          \/ Quotes(x, T[i][2], T[i][3])
  <2>1. PICK k \in 1..Len(L) :
              \/ i = h[k] /\ Valid(L[k])
              \/ \E j \in 1..Len(L[k].body) :
                    i = h[k] + Count(L[k]) + j /\ T[i] = L[k].body[j] /\ IsHeading(L[k].body[j])
    BY HeadingIs
  <2>2. CASE i = h[k] /\ Valid(L[k])
    <3>1. T[i][2] = L[k].from /\ T[i][3] = L[k].date
      BY <2>2, BlockHeading
    <3>2. L[k].mid = Missing
      BY <1>3, <1>5, <2>2, HeaderMid
    <3>3. CASE L[k] = m
      BY <3>1, <3>2, <3>3
    <3>4. CASE src[k] \in Headings(W) /\ L[k] = MessageAt(W, src[k])
      <4> DEFINE p == src[k]
      <4> HIDE DEF p
      <4>1. p \in Headings(W) /\ L[k] = MessageAt(W, p)
        BY <3>4 DEF p
      <4>2. MessageAt(W, p).from = W[p][2] /\ MessageAt(W, p).date = W[p][3]
        BY <4>1, <1>1, MessageIs
      <4>3. MessageAt(W, p).mid = Missing
        BY <3>2, <4>1
      <4> QED BY <3>1, <4>1, <4>2, <4>3 DEF Traced
    <3> QED BY <3>3, <3>4, <1>2
  <2>3. CASE \E j \in 1..Len(L[k].body) : T[i] = L[k].body[j] /\ IsHeading(L[k].body[j])
    <3>1. PICK j \in 1..Len(L[k].body) : T[i] = L[k].body[j] /\ IsHeading(L[k].body[j])
      BY <2>3
    <3>2. L[k].body[j] \in Quoted(m)
      BY <3>1, KeptLine
    <3> QED BY <3>1, <3>2 DEF IsHeading, NamesSender, Quotes
  <2> QED BY <2>1, <2>2, <2>3
<1> QED BY <1>3, <1>4, <1>5 DEF Traced

\* Keys are the same for mails with the same Message-ID or, if neither has one, the same
\* sender and instant.
LEMMA KeyIs ==
    ASSUME NEW x, NEW y
    PROVE  DedupKey(x) = DedupKey(y) <=>
              \/ x.mid # Missing /\ y.mid = x.mid
              \/ /\ x.mid = Missing /\ y.mid = Missing
                 /\ x.from = y.from /\ Time(x.date) = Time(y.date)
<1> DEFINE a == Time(x.date)
           b == Time(y.date)
<1>1. /\ x.mid # Missing => DedupKey(x) = <<"mid", x.mid>>
      /\ x.mid = Missing => DedupKey(x) = <<"fd", x.from, a>>
      /\ y.mid # Missing => DedupKey(y) = <<"mid", y.mid>>
      /\ y.mid = Missing => DedupKey(y) = <<"fd", y.from, b>>
  BY DEF DedupKey
<1> HIDE DEF a, b
<1>2. \A u, v, w : <<"mid", u>> # <<"fd", v, w>>
  <2>1. TAKE u, v, w
  <2>2. <<"mid", u>>[1] = "mid" /\ <<"fd", v, w>>[1] = "fd"
    OBVIOUS
  <2> QED BY <2>2
<1>3. /\ \A u, v : <<"mid", u>> = <<"mid", v>> => u = v
      /\ \A u, v, s, t : <<"fd", u, s>> = <<"fd", v, t>> => u = v /\ s = t
  OBVIOUS
<1> QED BY <1>1, <1>2, <1>3 DEF a, b

\* What is plain among more mails is plain among some of them.
LEMMA PlainAmongFewer ==
    ASSUME NEW X, NEW m, NEW p
    PROVE  /\ PlainIn(X \cup {m}, p) => PlainIn(X, p)
           /\ PlainIn(X \cup {m}, p) => p.from # Missing /\ Time(p.date) > 0 /\ UnmistakableIn(X \cup {m}, p)
BY DEF PlainIn, UnmistakableIn

\* No message has the key of a plain mail that was not merged.
LEMMA Unseen ==
    ASSUME NEW W, IsText(W), NEW X, NEW m, Traced(W, X), UnmistakableIn(X \cup {m}, m), m \notin X,
           NEW i \in Headings(W)
    PROVE  KeyAt(W, i) # DedupKey(m)
<1> DEFINE y == MessageAt(W, i)
<1>1. SUFFICES ASSUME DedupKey(y) = DedupKey(m) PROVE FALSE
  BY DEF KeyAt
<1>2. y.from = W[i][2] /\ y.date = W[i][3] /\ IsHeading(W[i]) /\ i \in DOMAIN W
  BY MessageIs DEF Headings
<1>3. \/ m.mid # Missing /\ y.mid = m.mid
      \/ /\ m.mid = Missing /\ y.mid = Missing
         /\ m.from = y.from /\ Time(m.date) = Time(y.date)
  BY <1>1, KeyIs
<1>4. \A x \in X : DedupKey(x) # DedupKey(m)
  BY DEF UnmistakableIn
<1>5. CASE m.mid # Missing /\ y.mid = m.mid
  <2>1. PICK j \in Header(W, i) : IsMeta(W[j], "Message-ID") /\ y.mid = W[j][3]
    BY <1>5, MidIsRead
  <2>2. j \in MetaLines(W, "Message-ID")
    <3>1. i \in 1..Len(W) /\ Len(W) \in Nat /\ DOMAIN W = 1..Len(W) /\ End(W, i) \in i..Len(W)
      BY TextDomain, EndIs
    <3> QED BY <2>1, <3>1 DEF Header, MetaLines
  <2>3. PICK x \in X : HasMid(x, m.mid)
    BY <1>5, <2>1, <2>2 DEF Traced
  <2>4. CASE x.mid = m.mid
    BY <2>4, <1>4, <1>5, KeyIs
  <2>5. CASE \E l \in Quoted(x) : IsMeta(l, "Message-ID") /\ l[3] = m.mid
    BY <2>5, <1>5 DEF UnmistakableIn
  <2> QED BY <2>3, <2>4, <2>5 DEF HasMid
<1>6. CASE m.mid = Missing /\ y.mid = Missing /\ m.from = y.from /\ Time(m.date) = Time(y.date)
  <2>1. PICK x \in X : \/ x.mid = Missing /\ x.from = W[i][2] /\ x.date = W[i][3]
                       \/ Quotes(x, W[i][2], W[i][3])
    BY <1>6 DEF Traced
  <2>2. CASE x.mid = Missing /\ x.from = W[i][2] /\ x.date = W[i][3]
    BY <2>2, <1>2, <1>4, <1>6, KeyIs
  <2>3. CASE Quotes(x, W[i][2], W[i][3])
    <3>1. PICK l \in Quoted(x) : l[1] = "##" /\ l[2] = W[i][2] /\ l[3] = W[i][3]
      BY <2>3 DEF Quotes
    <3>2. IsHeading(l)
      BY <3>1, <1>2 DEF IsHeading, NamesSender
    <3> QED BY <3>1, <3>2, <1>2, <1>6 DEF UnmistakableIn
  <2> QED BY <2>1, <2>2, <2>3
<1> QED BY <1>3, <1>5, <1>6

\* A mail that is there after the new one was merged, and plain then.
PlainWith(X, m, p) == p \in X \cup {m} /\ PlainIn(X \cup {m}, p)

\* No body has the Message-ID of a plain mail.
LEMMA NoQuotedMid ==
    ASSUME NEW W, NEW X, NEW L, NEW m, NEW src, Joined(W, L, m, src), Traced(W, X), Once(W, X),
           NEW p, PlainWith(X, m, p), p.mid # Missing,
           NEW k \in 1..Len(L), NEW j \in 1..Len(L[k].body)
    PROVE  ~ (IsMeta(L[k].body[j], "Message-ID") /\ L[k].body[j][3] = p.mid)
<1>1. SUFFICES ASSUME IsMeta(L[k].body[j], "Message-ID"), L[k].body[j][3] = p.mid PROVE FALSE
  OBVIOUS
<1>2. PlainIn(X, p) /\ UnmistakableIn(X \cup {m}, p)
  BY PlainAmongFewer DEF PlainWith
<1>3. ~ L[k].body[j] \in Quoted(m)
  BY <1>1, <1>2 DEF UnmistakableIn
<1>4. PICK i \in Content(W, src[k]) : src[k] \in Headings(W) /\ i \in DOMAIN W /\ L[k].body[j] = W[i]
  BY <1>3, KeptLine
<1>5. p \notin X
  BY <1>1, <1>2, <1>4 DEF Once
<1>6. p = m
  BY <1>5 DEF PlainWith
<1>7. PICK x \in X : HasMid(x, p.mid)
  BY <1>1, <1>4 DEF Traced, MetaLines
<1>8. CASE x.mid = p.mid
  <2>1. DedupKey(x) = DedupKey(p)
    BY <1>8, KeyIs
  <2> QED BY <2>1, <1>2, <1>5 DEF UnmistakableIn
<1>9. CASE \E l \in Quoted(x) : IsMeta(l, "Message-ID") /\ l[3] = p.mid
  BY <1>9, <1>2 DEF UnmistakableIn
<1> QED BY <1>7, <1>8, <1>9 DEF HasMid

\* A message with the key of a plain mail was written with it.
LEMMA KeyStays ==
    ASSUME NEW W, NEW X, NEW L, NEW m, NEW src, Joined(W, L, m, src), NEW T, NEW h,
           Written(T, L, h), Traced(W, X), Once(W, X), Traced(T, X \cup {m}),
           NEW p, PlainWith(X, m, p),
           NEW i \in Headings(T), KeyAt(T, i) = DedupKey(p)
    PROVE  \E k \in 1..Len(L) : i = h[k] /\ Valid(L[k]) /\ DedupKey(L[k]) = DedupKey(p)
<1> DEFINE y == MessageAt(T, i)
<1>0. IsText(T) /\ UnmistakableIn(X \cup {m}, p)
  BY PlainAmongFewer DEF Written, PlainWith
<1>1. \/ p.mid # Missing /\ y.mid = p.mid
      \/ /\ p.mid = Missing /\ y.mid = Missing
         /\ p.from = y.from /\ Time(p.date) = Time(y.date)
  BY KeyIs DEF KeyAt
<1>2. y.from = T[i][2] /\ y.date = T[i][3] /\ IsHeading(T[i])
  BY <1>0, MessageIs DEF Headings
<1>3. \A k \in 1..Len(L) : \A j \in 1..Len(L[k].body) :
           p.mid # Missing => ~ (IsMeta(L[k].body[j], "Message-ID") /\ L[k].body[j][3] = p.mid)
  BY NoQuotedMid
<1>4. PICK k \in 1..Len(L) :
              \/ i = h[k] /\ Valid(L[k])
              \/ \E j \in 1..Len(L[k].body) :
                    i = h[k] + Count(L[k]) + j /\ T[i] = L[k].body[j] /\ IsHeading(L[k].body[j])
  BY HeadingIs
<1>5. h[k] \in Nat /\ Count(L[k]) \in 0..2 /\ Len(L[k].body) \in Nat
      /\ h[k + 1] = h[k] + 2 + Count(L[k]) + Len(L[k].body)
  BY BlockIs
<1>6. h[k] <= i /\ i <= h[k + 1] - 2
  <2> DEFINE a == h[k]
             b == h[k + 1]
             c == Count(L[k])
             l == Len(L[k].body)
  <2>1. a \in Nat /\ c \in 0..2 /\ l \in Nat /\ b = a + 2 + c + l
    BY <1>5
  <2>2. i = a \/ \E j \in 1..l : i = a + c + j
    BY <1>4
  <2> HIDE DEF a, b, c, l
  <2>3. a <= i /\ i <= b - 2
    BY ONLY <2>1, <2>2
  <2> QED BY <2>3 DEF a, b
<1>7. y.mid # Missing /\ y.mid = p.mid => i = h[k] /\ L[k].mid = y.mid
  BY <1>3, <1>6, MidStays
<1>8. CASE i = h[k] /\ Valid(L[k])
  <2>1. T[i][2] = L[k].from /\ T[i][3] = L[k].date
    BY <1>8, BlockHeading
  <2>2. CASE p.mid # Missing /\ y.mid = p.mid
    <3>1. L[k].mid = p.mid
      BY <2>2, <1>7
    <3> QED BY <3>1, <2>2, <1>8, KeyIs
  <2>3. CASE p.mid = Missing /\ y.mid = Missing /\ p.from = y.from /\ Time(p.date) = Time(y.date)
    <3>1. L[k].mid = Missing
      <4>1. \A j \in MetaLines(T, "Message-ID") : T[j][3] # Missing
        BY DEF Traced
      <4> QED BY <4>1, <1>8, <2>3, HeaderMid
    <3> QED BY <3>1, <2>1, <2>3, <1>2, <1>8, KeyIs
  <2> QED BY <1>1, <2>2, <2>3
<1>9. CASE \E j \in 1..Len(L[k].body) :
              i = h[k] + Count(L[k]) + j /\ T[i] = L[k].body[j] /\ IsHeading(L[k].body[j])
  <2>1. PICK j \in 1..Len(L[k].body) :
              i = h[k] + Count(L[k]) + j /\ T[i] = L[k].body[j] /\ IsHeading(L[k].body[j])
    BY <1>9
  <2>2. L[k].body[j] \in Quoted(m)
    BY <2>1, KeptLine
  <2>3. i # h[k]
    BY <2>1, <1>5
  <2>4. p.mid = Missing /\ y.mid = Missing /\ p.from = y.from /\ Time(p.date) = Time(y.date)
    BY <1>1, <1>7, <2>3
  <2> QED BY <2>1, <2>2, <2>4, <1>0, <1>2 DEF UnmistakableIn
<1> QED BY <1>4, <1>8, <1>9

\* A message with the key of a plain mail was read with it, or is the new one.
LEMMA KeyFrom ==
    ASSUME NEW W, NEW X, NEW L, NEW m, NEW src, Joined(W, L, m, src), Traced(W, X),
           NEW p, PlainWith(X, m, p),
           NEW k \in 1..Len(L), DedupKey(L[k]) = DedupKey(p)
    PROVE  \/ /\ src[k] # 0 /\ src[k] \in Headings(W) /\ KeyAt(W, src[k]) = DedupKey(p) /\ p \in X
              /\ L[k].date = W[src[k]][3]
           \/ src[k] = 0 /\ L[k] = m /\ DedupKey(m) = DedupKey(p) /\ Added(W, L, m, src)
<1>1. IsText(W) /\ UnmistakableIn(X \cup {m}, p)
  BY PlainAmongFewer DEF Joined, PlainWith
<1>2. CASE src[k] = 0 /\ L[k] = m
  BY <1>2 DEF Joined, Known
<1>3. CASE src[k] # 0 /\ src[k] \in Headings(W) /\ L[k] = MessageAt(W, src[k])
  <2> DEFINE i == src[k]
  <2>1. i \in Headings(W) /\ L[k] = MessageAt(W, i)
    BY <1>3
  <2> HIDE DEF i
  <2>2. KeyAt(W, i) = DedupKey(p)
    BY <2>1 DEF KeyAt
  <2>3. p \in X
    <3>1. ASSUME p \notin X PROVE FALSE
      <4>1. p = m
        BY <3>1 DEF PlainWith
      <4> QED BY <2>1, <2>2, <3>1, <4>1, <1>1, Unseen
    <3> QED BY <3>1
  <2>4. L[k].date = W[i][3]
    <3>1. MessageAt(W, i).date = W[i][3]
      BY <2>1, <1>1, MessageIs
    <3> QED BY <2>1, <3>1
  <2> QED BY <2>1, <2>2, <2>3, <2>4, <1>3 DEF i
<1> QED BY <1>2, <1>3 DEF Joined

\* A plain mail stays there once.
LEMMA OnceStays ==
    ASSUME NEW W, NEW X, NEW L, NEW m, NEW src, Joined(W, L, m, src), NEW T, NEW h,
           Written(T, L, h), Traced(W, X), Once(W, X), Traced(T, X \cup {m}), TextAssumption
    PROVE  Once(T, X \cup {m})
<1>1. SUFFICES ASSUME NEW p, PlainWith(X, m, p)
               PROVE  /\ \A i, j \in Headings(T) :
                            KeyAt(T, i) = DedupKey(p) /\ KeyAt(T, j) = DedupKey(p) => i = j
                      /\ p.mid # Missing => \A i \in Headings(T) : \A j \in Content(T, i) :
                            ~ (IsMeta(T[j], "Message-ID") /\ T[j][3] = p.mid)
  BY DEF Once, PlainWith
<1>2. PlainIn(X, p) /\ UnmistakableIn(X \cup {m}, p) /\ p.from # Missing /\ Time(p.date) > 0
  BY <1>1, PlainAmongFewer DEF PlainWith
<1>3. ASSUME NEW i \in Headings(T), NEW j \in Headings(T),
             KeyAt(T, i) = DedupKey(p), KeyAt(T, j) = DedupKey(p)
      PROVE  i = j
  <2>1. PICK a \in 1..Len(L) : i = h[a] /\ DedupKey(L[a]) = DedupKey(p)
    BY <1>1, <1>3, KeyStays
  <2>2. PICK b \in 1..Len(L) : j = h[b] /\ DedupKey(L[b]) = DedupKey(p)
    BY <1>1, <1>3, KeyStays
  <2>3. \/ src[a] # 0 /\ src[a] \in Headings(W) /\ KeyAt(W, src[a]) = DedupKey(p) /\ p \in X
        \/ src[a] = 0 /\ DedupKey(m) = DedupKey(p) /\ Added(W, L, m, src)
    BY <1>1, <2>1, KeyFrom
  <2>4. \/ src[b] # 0 /\ src[b] \in Headings(W) /\ KeyAt(W, src[b]) = DedupKey(p) /\ p \in X
        \/ src[b] = 0 /\ DedupKey(m) = DedupKey(p) /\ Added(W, L, m, src)
    BY <1>1, <2>2, KeyFrom
  <2>5. src[a] = src[b]
    BY <2>3, <2>4, <1>2 DEF Once, Added
  <2>6. a = b
    BY <2>5 DEF Joined
  <2> QED BY <2>1, <2>2, <2>6
<1>4. ASSUME p.mid # Missing, NEW i \in Headings(T), NEW j \in Content(T, i),
             IsMeta(T[j], "Message-ID"), T[j][3] = p.mid
      PROVE  FALSE
  <2>1. /\ IsText(T) /\ i \in 1..Len(T) /\ Len(T) \in Nat /\ DOMAIN T = 1..Len(T)
        /\ End(T, i) \in i..Len(T)
    BY TextDomain, EndIs DEF Written
  <2>2. j \in 1..Len(T) /\ j \in i + 1..End(T, i) /\ j \notin Header(T, i)
    BY <2>1 DEF Content
  <2>3. PICK k \in 1..Len(L) :
              \/ j = h[k] + 1 /\ L[k].mid # Missing /\ T[j][3] = L[k].mid
              \/ \E u \in 1..Len(L[k].body) : j = h[k] + Count(L[k]) + u /\ T[j] = L[k].body[u]
    BY <1>4, <2>2, MidLine
  <2>4. ~ \E u \in 1..Len(L[k].body) : T[j] = L[k].body[u]
    BY <1>1, <1>4, NoQuotedMid
  <2>5. j = h[k] + 1 /\ L[k].mid = p.mid
    BY <1>4, <2>3, <2>4
  <2>6. Valid(L[k])
    <3>1. DedupKey(L[k]) = DedupKey(p)
      BY <1>4, <2>5, KeyIs
    <3>2. CASE src[k] = 0 /\ L[k] = m
      <4>1. L[k] = p
        BY <3>1, <3>2, <1>2 DEF UnmistakableIn
      <4>2. p.date \in DOMAIN Instants
        BY <1>2 DEF Time
      <4>3. p.date # Missing
        BY <1>2, <4>2 DEF Time, TextAssumption
      <4> QED BY <4>1, <4>3, <1>2 DEF Valid
    <3>3. CASE src[k] \in Headings(W) /\ L[k] = MessageAt(W, src[k])
      <4> DEFINE g == src[k]
      <4> HIDE DEF g
      <4>1. g \in Headings(W) /\ L[k] = MessageAt(W, g) /\ IsText(W)
        BY <3>3 DEF g, Joined
      <4>2. MessageAt(W, g).from # Missing /\ MessageAt(W, g).date # Missing
        BY <4>1, MessageIs
      <4> QED BY <4>1, <4>2 DEF Valid
    <3> QED BY <3>2, <3>3 DEF Joined
  <2>7. h[k] \in Headings(T) /\ h[k] + 1 \in Header(T, h[k])
    <3>1. \A v \in MetaLines(T, "Message-ID") : T[v][3] # Missing
      BY DEF Traced
    <3>2. L[k].mid # Missing
      BY <1>4, <2>5
    <3> QED BY <2>6, <3>1, <3>2, HeaderMid, BlockHeading
  <2>8. j <= End(T, h[k]) /\ h[k] \in Nat
    <3>1. End(T, h[k]) \in Nat /\ h[k] \in Nat
      BY <2>1, <2>7, EndIs, TextDomain
    <3> QED BY <2>5, <2>7, <3>1 DEF Header
  <2>9. i = h[k]
    <3>1. h[k] < j
      BY <2>5, <2>8
    <3> QED BY <2>1, <2>2, <2>7, <2>8, <3>1, OneSection
  <2> QED BY <2>2, <2>5, <2>7, <2>9
<1> QED BY <1>3, <1>4

\* The messages of plain mails stay in order.
LEMMA OrderedStays ==
    ASSUME NEW W, NEW X, NEW L, NEW m, NEW src, Joined(W, L, m, src), NEW T, NEW h,
           Written(T, L, h), Traced(W, X), Once(W, X), Traced(T, X \cup {m}), Ordered(W, X),
           \A k \in 1..Len(L) : Time(L[k].date) \in Nat
    PROVE  Ordered(T, X \cup {m})
<1>1. SUFFICES ASSUME NEW p, NEW r, PlainWith(X, m, p), PlainWith(X, m, r),
                      NEW i \in Headings(T), NEW j \in Headings(T), i < j,
                      KeyAt(T, i) = DedupKey(p), KeyAt(T, j) = DedupKey(r)
               PROVE  Time(T[i][3]) <= Time(T[j][3])
  BY DEF Ordered, PlainWith
<1>2. PlainIn(X, p) /\ PlainIn(X, r)
  BY <1>1, PlainAmongFewer DEF PlainWith
<1>3. PICK a \in 1..Len(L) : i = h[a] /\ DedupKey(L[a]) = DedupKey(p)
  BY <1>1, KeyStays
<1>4. PICK b \in 1..Len(L) : j = h[b] /\ DedupKey(L[b]) = DedupKey(r)
  BY <1>1, KeyStays
<1>5. T[i][3] = L[a].date /\ T[j][3] = L[b].date
  BY <1>3, <1>4, BlockHeading
<1>6. a < b
  <2>1. Len(L) \in Nat /\ h[a] \in Nat /\ h[b] \in Nat
    BY BlockIs DEF Written
  <2>2. b <= a => h[b] <= h[a]
    <3>1. a \in 1..Len(L) + 1 /\ b \in 1..Len(L) + 1
      BY <2>1
    <3> QED BY <3>1 DEF Written
  <2> QED BY <2>1, <2>2, <1>1, <1>3, <1>4
<1>7. CASE Added(W, L, m, src)
  <2>1. Time(L[a].date) < Time(L[b].date) \/ Time(L[a].date) = Time(L[b].date)
    BY <1>6, <1>7 DEF Added
  <2> QED BY <2>1, <1>5
<1>8. CASE Known(W, L, m, src)
  <2>1. src[a] # 0 /\ src[b] # 0 /\ src[a] < src[b]
    BY <1>6, <1>8 DEF Known
  <2>2. src[a] \in Headings(W) /\ KeyAt(W, src[a]) = DedupKey(p) /\ p \in X /\ L[a].date = W[src[a]][3]
    BY <1>1, <1>3, <2>1, KeyFrom
  <2>3. src[b] \in Headings(W) /\ KeyAt(W, src[b]) = DedupKey(r) /\ r \in X /\ L[b].date = W[src[b]][3]
    BY <1>1, <1>4, <2>1, KeyFrom
  <2> QED BY <2>1, <2>2, <2>3, <1>2, <1>5 DEF Ordered
<1> QED BY <1>7, <1>8 DEF Joined

\* A text that is a date is there.
LEMMA Times ==
    ASSUME TextAssumption, NEW d
    PROVE  /\ Time(d) \in 0..MaxTime /\ Time(d) \in Nat
           /\ Time(d) > 0 => d # Missing
<1>1. MaxTime \in Nat /\ Missing \notin DOMAIN Instants /\ \A e \in DOMAIN Instants : Instants[e] \in 1..MaxTime
  BY DEF TextAssumption
<1>2. CASE d \in DOMAIN Instants
  <2>1. Time(d) = Instants[d] /\ Instants[d] \in 1..MaxTime
    BY <1>1, <1>2 DEF Time
  <2> QED BY <2>1, <1>1, <1>2
<1>3. CASE d \notin DOMAIN Instants
  <2>1. Time(d) = 0
    BY <1>3 DEF Time
  <2> QED BY <2>1, <1>1
<1> QED BY <1>2, <1>3

IsMail(x) ==
    /\ x = [from |-> x.from, date |-> x.date, mid |-> x.mid, to |-> x.to, body |-> x.body]
    /\ IsText(x.body)

\* The message of a plain mail among those that are written.
LEMMA PlainIsWritten ==
    ASSUME TextAssumption, NEW W, NEW X, NEW L, NEW m, NEW src, Joined(W, L, m, src),
           Traced(W, X), ReadBack(W, X), NEW p, PlainWith(X, m, p), IsText(p.body)
    PROVE  \E k \in 1..Len(L) :
              /\ Valid(L[k]) /\ IsReadAs(L[k], p)
              /\ Named(X \cup {m}, p) => L[k] = p
<1>0. IsText(W) /\ PlainIn(X, p) /\ PlainIn(X \cup {m}, p)
  BY PlainAmongFewer DEF Joined, PlainWith
<1>1. CASE p \in X
  <2>1. PICK i \in Headings(W) : IsReadAs(MessageAt(W, i), p) /\ (Named(X, p) => MessageAt(W, i) = p)
    BY <1>0, <1>1 DEF ReadBack
  <2>2. PICK k \in 1..Len(L) : src[k] = i
    BY DEF Joined
  <2>3. i # 0
    BY <1>0, TextDomain
  <2>4. L[k] = MessageAt(W, i)
    BY <2>2, <2>3 DEF Joined
  <2>5. MessageAt(W, i).from # Missing /\ MessageAt(W, i).date # Missing
    BY <1>0, MessageIs
  <2>6. Named(X \cup {m}, p) => Named(X, p)
    BY DEF Named
  <2> QED BY <2>1, <2>4, <2>5, <2>6 DEF Valid
<1>2. CASE p \notin X
  <2>1. p = m
    BY <1>2 DEF PlainWith
  <2>2. \A i \in Headings(W) : KeyAt(W, i) # DedupKey(m)
    BY <1>0, <1>2, <2>1, Unseen DEF PlainIn
  <2>3. Added(W, L, m, src)
    BY <2>2 DEF Joined, Known
  <2>4. PICK k \in 1..Len(L) : src[k] = 0
    BY <2>3 DEF Added
  <2>5. L[k] = p
    BY <2>1, <2>4 DEF Joined
  <2>6. p.from # Missing /\ p.date # Missing
    BY <1>0, Times DEF PlainIn
  <2>7. 1 \in 1..Len(p.body) /\ p.body[1][1] = "text"
    <3> DEFINE s == p.body
    <3>1. s \in Seq(ToSet(s)) /\ s # <<>> /\ Head(s)[1] = "text"
      BY <1>0 DEF PlainIn, IsText
    <3> HIDE DEF s
    <3>2. Len(s) \in Nat /\ Len(s) # 0 /\ Head(s) = s[1]
      BY <3>1, EmptySeq, LenProperties, HeadTailProperties
    <3> QED BY <3>1, <3>2 DEF s
  <2> QED BY <2>5, <2>6, <2>7 DEF Valid, IsReadAs
<1> QED BY <1>1, <1>2

\* A plain mail is read back.
LEMMA ReadBackStays ==
    ASSUME TextAssumption, NEW W, NEW X, NEW L, NEW m, NEW src, Joined(W, L, m, src), NEW T, NEW h,
           Written(T, L, h), Traced(W, X), ReadBack(W, X), \A x \in X \cup {m} : IsMail(x)
    PROVE  ReadBack(T, X \cup {m})
<1>1. SUFFICES ASSUME NEW p, PlainWith(X, m, p)
               PROVE  \E i \in Headings(T) :
                         IsReadAs(MessageAt(T, i), p) /\ (Named(X \cup {m}, p) => MessageAt(T, i) = p)
  BY DEF ReadBack, PlainWith
<1>2. IsMail(p) /\ IsText(p.body) /\ IsText(T) /\ PlainIn(X \cup {m}, p)
  BY <1>1 DEF PlainWith, IsMail, Written
<1>3. PICK k \in 1..Len(L) : Valid(L[k]) /\ IsReadAs(L[k], p) /\ (Named(X \cup {m}, p) => L[k] = p)
  BY <1>1, <1>2, PlainIsWritten
<1> DEFINE i == h[k]
           y == MessageAt(T, i)
<1>4. i \in Headings(T)
  BY <1>3, BlockHeading
<1>5. 1 \in 1..Len(L[k].body) /\ L[k].body[1][1] = "text"
  BY <1>3 DEF IsReadAs
<1>6. /\ y.from = L[k].from /\ y.date = L[k].date /\ y.mid = L[k].mid /\ y.to = L[k].to
      /\ 1 \in 1..Len(y.body) /\ y.body[1][1] = "text"
  BY <1>3, <1>5, HeadersRead
<1> HIDE DEF i, y
<1>7. IsReadAs(y, p)
  BY <1>3, <1>6 DEF IsReadAs
<1>8. ASSUME Named(X \cup {m}, p) PROVE y = p
  <2>1. L[k] = p
    BY <1>3, <1>8
  <2>2. k = Len(L) \/ Valid(L[k + 1])
    <3>1. SUFFICES ASSUME k # Len(L) PROVE Valid(L[k + 1])
      OBVIOUS
    <3> DEFINE b == k + 1
    <3>2. b \in 1..Len(L) /\ k < b
      BY <3>1 DEF Joined
    <3> HIDE DEF b
    <3>3. CASE src[b] # 0 /\ src[b] \in Headings(W) /\ L[b] = MessageAt(W, src[b])
      <4> DEFINE g == src[b]
      <4> HIDE DEF g
      <4>1. g \in Headings(W) /\ L[b] = MessageAt(W, g) /\ IsText(W)
        BY <3>3 DEF g, Joined
      <4>2. MessageAt(W, g).from # Missing /\ MessageAt(W, g).date # Missing
        BY <4>1, MessageIs
      <4> QED BY <4>1, <4>2 DEF Valid, b
    <3>4. CASE src[b] = 0 /\ L[b] = m
      <4>1. Added(W, L, m, src)
        BY <3>2, <3>4 DEF Joined, Known
      <4>2. Time(p.date) < Time(m.date) \/ Time(p.date) = Time(m.date)
        BY <2>1, <3>2, <3>4, <4>1 DEF Added
      <4>3. Time(p.date) \in Nat /\ Time(m.date) \in Nat /\ Time(p.date) > 0
        BY <1>2, Times DEF PlainIn
      <4>4. Time(m.date) >= Time(p.date) /\ Time(m.date) > 0
        BY <4>2, <4>3
      <4>5. m.from # Missing /\ m.date # Missing
        BY <1>8, <4>4, Times DEF Named
      <4> QED BY <3>4, <4>5 DEF Valid, b
    <3> QED BY <3>2, <3>3, <3>4 DEF Joined
  <2>3. \A j \in 1..Len(L[k].body) : L[k].body[j][1] \in {"text", "meta"}
    BY <1>2, <2>1, QuotedLine DEF PlainIn
  <2>4. IsText(L[k].body)
    BY <1>2, <2>1
  <2>5. y.body = L[k].body
    BY <1>3, <1>5, <2>2, <2>3, <2>4, BodyRead DEF y, i
  <2>6. y = [from |-> y.from, date |-> y.date, mid |-> y.mid, to |-> y.to, body |-> y.body]
    BY <1>2, <1>4, MessageIs DEF y
  <2> QED BY <1>2, <1>6, <2>1, <2>5, <2>6 DEF IsMail
<1> QED BY <1>4, <1>7, <1>8 DEF y

\* Among mails there is a latest.
LEMMA LatestExists ==
    ASSUME TextAssumption, NEW X, X # {}
    PROVE  \E z \in X : z \in LatestIn(X) /\ \A x \in X : Time(x.date) <= Time(z.date)
<1> DEFINE N == {Time(x.date) : x \in X}
<1>1. MaxTime \in Int /\ N \in SUBSET Int /\ N # {} /\ \A t \in N : t <= MaxTime
  <2>1. MaxTime \in Nat
    BY DEF TextAssumption
  <2>2. \A x \in X : Time(x.date) \in 0..MaxTime /\ Time(x.date) \in Nat
    BY Times
  <2>3. \A x \in X : Time(x.date) \in Int /\ Time(x.date) <= MaxTime
    BY <2>1, <2>2
  <2> QED BY <2>1, <2>3
<1> HIDE DEF N
<1>2. PICK t \in N : \A u \in N : u <= t
  BY <1>1, Greatest
<1>3. PICK z \in X : t = Time(z.date)
  BY DEF N
<1>4. \A x \in X : Time(x.date) <= Time(z.date)
  BY <1>2, <1>3 DEF N
<1> QED BY <1>4 DEF LatestIn

\* If the body of the message that was written last names no sender, the message does.
LEMMA LastHeading ==
    ASSUME NEW T, NEW L, NEW h, Written(T, L, h), NEW n \in 1..Len(L), n = Len(L), Valid(L[n]),
           \A j \in 1..Len(L[n].body) : ~ NamesSender(L[n].body[j])
    PROVE  /\ h[n] \in Headings(T) /\ T[h[n]][3] = L[n].date
           /\ \A j \in DOMAIN T : NamesSender(T[j]) => j <= h[n]
<1>1. h[n] \in Headings(T) /\ T[h[n]][3] = L[n].date /\ IsText(T) /\ DOMAIN T = 1..Len(T)
  <2>1. IsText(T)
    BY DEF Written
  <2>2. h[n] \in Headings(T) /\ T[h[n]][3] = L[n].date
    BY BlockHeading
  <2> QED BY <2>1, <2>2, TextDomain
<1>2. ASSUME NEW j \in DOMAIN T, NamesSender(T[j]) PROVE j <= h[n]
  <2>1. PICK k \in 1..Len(L) :
              \/ j = h[k] /\ T[j] = Heading(L[k].from, L[k].date)
              \/ \E u \in 1..Len(L[k].body) : j = h[k] + Count(L[k]) + u /\ T[j] = L[k].body[u]
    BY <1>1, <1>2, SenderLine
  <2>2. /\ h[k] \in Nat /\ Count(L[k]) \in 0..2 /\ Len(L[k].body) \in Nat
        /\ h[k + 1] = h[k] + 2 + Count(L[k]) + Len(L[k].body) /\ h[n] \in Nat
    <3>1. \A g \in 1..Len(L) : h[g] \in Nat
      BY BlockIs
    <3>2. /\ Count(L[k]) \in 0..2 /\ Len(L[k].body) \in Nat
          /\ h[k + 1] = h[k] + 2 + Count(L[k]) + Len(L[k].body)
      BY BlockIs
    <3> QED BY <3>1, <3>2
  <2>3. CASE k = n
    BY <2>1, <2>2, <2>3, <1>2
  <2>4. CASE k < n
    <3>1. h[k + 1] <= h[n]
      BY <2>4, BlocksApart
    <3> DEFINE a == h[k]
               b == h[k + 1]
               c == Count(L[k])
               l == Len(L[k].body)
               d == h[n]
    <3>2. a \in Nat /\ c \in 0..2 /\ l \in Nat /\ b = a + 2 + c + l /\ d \in Nat /\ b <= d
      BY <2>2, <3>1
    <3>3. j = a \/ \E u \in 1..l : j = a + c + u
      BY <2>1
    <3> HIDE DEF a, b, c, l, d
    <3>4. j <= d
      BY ONLY <3>2, <3>3
    <3> QED BY <3>4 DEF d
  <2> QED BY <2>3, <2>4 DEF Written
<1> QED BY <1>1, <1>2

\* The time of a message that was read is not after that of all mails.
LEMMA TimeIsTraced ==
    ASSUME NEW W, NEW X, IsText(W), Traced(W, X), QuotesArePastIn(X), TextAssumption,
           NEW i \in Headings(W)
    PROVE  \E x \in X : Time(W[i][3]) <= Time(x.date)
<1>1. i \in DOMAIN W /\ NamesSender(W[i]) /\ W[i][3] # Missing
  BY DEF Headings, IsHeading
<1>2. PICK x \in X : (x.from = W[i][2] /\ x.date = W[i][3]) \/ Quotes(x, W[i][2], W[i][3])
  BY <1>1 DEF Traced
<1>3. CASE x.date = W[i][3]
  <2>1. Time(x.date) \in Nat
    BY Times
  <2> QED BY <2>1, <1>3
<1>4. CASE Quotes(x, W[i][2], W[i][3])
  <2>1. PICK l \in Quoted(x) : l[1] = "##" /\ l[2] = W[i][2] /\ l[3] = W[i][3]
    BY <1>4 DEF Quotes
  <2>2. IsHeading(l)
    BY <1>1, <2>1 DEF IsHeading, NamesSender
  <2>3. Time(l[3]) <= Time(x.date)
    BY <2>2 DEF QuotesArePastIn
  <2> QED BY <2>1, <2>3
<1> QED BY <1>2, <1>3, <1>4

\* The last sender stays that of a latest mail.
LEMMA LastOneStays ==
    ASSUME TextAssumption, NEW W, NEW X, NEW L, NEW m, NEW src, Joined(W, L, m, src), NEW T, NEW h,
           Written(T, L, h), Traced(W, X), LastOne(W, X), X = {} => Headings(W) = {}
    PROVE  LastOne(T, X \cup {m})
<1> DEFINE Y == X \cup {m}
           n == Len(L)
<1>1. SUFFICES ASSUME QuotesArePastIn(Y), \A p \in LatestIn(Y) : PlainIn(Y, p)
               PROVE  \E i \in Headings(T) : /\ \A j \in DOMAIN T : NamesSender(T[j]) => j <= i
                                             /\ \A p \in LatestIn(Y) : Time(T[i][3]) = Time(p.date)
  BY DEF LastOne
<1>2. QuotesArePastIn(X) /\ \A x \in Y : Time(x.date) \in Nat
  BY <1>1, Times DEF QuotesArePastIn
<1>3. IsText(W) /\ IsText(m.body) /\ n \in Nat
  BY DEF Joined
<1>4. \A k \in 1..n : \/ src[k] = 0 /\ L[k] = m
                      \/ src[k] # 0 /\ src[k] \in Headings(W) /\ L[k] = MessageAt(W, src[k])
  BY DEF Joined
<1>5. n \in 1..n
  <2>1. \E k \in 1..n : TRUE
    BY DEF Joined, Known, Added
  <2> QED BY <2>1, <1>3
<1>6. \A i \in Headings(W) : /\ \E x \in X : Time(W[i][3]) <= Time(x.date)
                             /\ Time(W[i][3]) \in Nat /\ i \in Nat /\ i \in DOMAIN W /\ NamesSender(W[i])
                             /\ MessageAt(W, i).from # Missing /\ MessageAt(W, i).date # Missing
                             /\ MessageAt(W, i).date = W[i][3]
  <2>1. TAKE i \in Headings(W)
  <2>2. i \in Nat /\ i \in DOMAIN W /\ NamesSender(W[i])
    BY <1>3, TextDomain DEF Headings, IsHeading
  <2>3. MessageAt(W, i).from # Missing /\ MessageAt(W, i).date # Missing /\ MessageAt(W, i).date = W[i][3]
    BY <1>3, MessageIs
  <2> QED BY <2>2, <2>3, <1>2, <1>3, TimeIsTraced, Times
<1>7. ASSUME \A x \in X : Time(x.date) < Time(m.date)
      PROVE  Added(W, L, m, src) /\ m \in LatestIn(Y)
  <2>1. m \in LatestIn(Y)
    BY <1>2, <1>7 DEF LatestIn
  <2>2. m \notin X
    BY <1>2, <1>7
  <2>3. UnmistakableIn(Y, m)
    BY <1>1, <2>1 DEF PlainIn
  <2>4. \A i \in Headings(W) : KeyAt(W, i) # DedupKey(m)
    BY <1>3, <2>2, <2>3, Unseen
  <2> QED BY <2>1, <2>4 DEF Joined, Known
\* Unless the new mail is later than all others, the last heading is that of the latest.
<1>8. ASSUME NEW x \in X, Time(m.date) <= Time(x.date)
      PROVE  \E i \in Headings(W), z \in X :
                /\ \A j \in DOMAIN W : NamesSender(W[j]) => j <= i
                /\ Time(W[i][3]) = Time(z.date) /\ \A y \in Y : Time(y.date) <= Time(z.date)
  <2>1. PICK z \in X : z \in LatestIn(X) /\ \A y \in X : Time(y.date) <= Time(z.date)
    BY LatestExists
  <2>2. Time(m.date) <= Time(z.date)
    <3>1. Time(x.date) <= Time(z.date) /\ Time(x.date) \in Nat /\ Time(z.date) \in Nat /\ Time(m.date) \in Nat
      BY <1>2, <2>1
    <3> QED BY <3>1, <1>8
  <2>3. \A y \in LatestIn(X) : y \in LatestIn(Y)
    <3>1. TAKE y \in LatestIn(X)
    <3>2. y \in X /\ Time(z.date) <= Time(y.date) /\ \A v \in X : Time(v.date) <= Time(y.date)
      BY DEF LatestIn
    <3>3. Time(m.date) <= Time(y.date)
      BY <3>2, <2>2, <1>2
    <3> QED BY <3>2, <3>3 DEF LatestIn
  <2>4. \A y \in LatestIn(X) : PlainIn(X, y)
    BY <1>1, <2>3, PlainAmongFewer
  <2>5. X # {}
    OBVIOUS
  <2>6. PICK i \in Headings(W) : /\ \A j \in DOMAIN W : NamesSender(W[j]) => j <= i
                                 /\ \A y \in LatestIn(X) : Time(W[i][3]) = Time(y.date)
    BY <1>2, <2>4, <2>5 DEF LastOne
  <2> QED BY <2>1, <2>2, <2>6
<1>9. CASE src[n] = 0 /\ L[n] = m
  <2>1. Added(W, L, m, src)
    BY <1>5, <1>9 DEF Joined, Known
  <2>2. m \in LatestIn(Y)
    <3>1. SUFFICES ASSUME NEW x \in X, ~ Time(x.date) <= Time(m.date) PROVE FALSE
      BY <1>2 DEF LatestIn
    <3>2. Time(m.date) <= Time(x.date)
      BY <3>1, <1>2
    <3>3. PICK i \in Headings(W), z \in X : Time(W[i][3]) = Time(z.date) /\ \A y \in Y : Time(y.date) <= Time(z.date)
      BY <3>2, <1>8
    <3>4. PICK k \in 1..n : src[k] = i
      BY DEF Joined
    <3>5. i # 0
      BY <1>3, TextDomain
    <3>6. L[k].date = W[i][3]
      BY <3>4, <3>5, <1>4, <1>6
    <3>7. k < n
      BY <3>4, <3>5, <1>3, <1>9
    <3>8. Time(L[k].date) < Time(m.date) \/ Time(L[k].date) = Time(m.date)
      BY <3>7, <1>5, <1>9, <2>1 DEF Added
    <3>9. /\ Time(z.date) < Time(m.date) \/ Time(z.date) = Time(m.date)
          /\ Time(x.date) <= Time(z.date) /\ Time(x.date) \in Nat /\ Time(z.date) \in Nat /\ Time(m.date) \in Nat
      BY <3>3, <3>6, <3>8, <1>2
    <3> QED BY <3>1, <3>9
  <2>3. PlainIn(Y, m)
    BY <1>1, <2>2
  <2>4. m.from # Missing /\ m.date # Missing
    BY <2>3, Times DEF PlainIn
  <2>5. \A j \in 1..Len(L[n].body) : ~ NamesSender(L[n].body[j])
    BY <1>3, <1>9, <2>3, QuotedLine DEF PlainIn, NamesSender
  <2>6. Valid(L[n])
    BY <1>9, <2>4 DEF Valid
  <2>7. /\ h[n] \in Headings(T) /\ T[h[n]][3] = L[n].date
        /\ \A j \in DOMAIN T : NamesSender(T[j]) => j <= h[n]
    BY <1>5, <2>5, <2>6, LastHeading
  <2>8. \A p \in LatestIn(Y) : Time(T[h[n]][3]) = Time(p.date)
    <3>1. TAKE p \in LatestIn(Y)
    <3>2. Time(p.date) <= Time(m.date) /\ Time(m.date) <= Time(p.date) /\ Time(p.date) \in Nat /\ Time(m.date) \in Nat
      BY <1>2, <2>2 DEF LatestIn
    <3>3. Time(p.date) = Time(m.date)
      BY <3>2
    <3> QED BY <3>3, <2>7, <1>9
  <2> QED BY <2>7, <2>8
<1>10. CASE src[n] # 0 /\ src[n] \in Headings(W) /\ L[n] = MessageAt(W, src[n])
  <2> DEFINE g == src[n]
  <2>1. g # 0 /\ g \in Headings(W) /\ L[n] = MessageAt(W, g) /\ g = src[n]
    BY <1>10
  <2> HIDE DEF g
  <2>2. L[n].date = W[g][3] /\ Valid(L[n]) /\ Time(W[g][3]) \in Nat /\ g \in Nat
    BY <2>1, <1>6 DEF Valid
  <2>3. PICK x \in X : Time(W[g][3]) <= Time(x.date)
    BY <2>1, <1>6
  <2>4. \E y \in X : Time(m.date) <= Time(y.date)
    <3>1. SUFFICES ASSUME \A y \in X : Time(y.date) < Time(m.date) PROVE FALSE
      BY <1>2
    <3>2. Added(W, L, m, src)
      BY <3>1, <1>7
    <3>3. PICK k \in 1..n : src[k] = 0
      BY <3>2 DEF Added
    <3>4. k < n /\ L[k] = m
      BY <3>3, <2>1, <1>3, <1>4, <1>6
    <3>5. Time(m.date) < Time(L[n].date) \/ Time(m.date) = Time(L[n].date)
      BY <3>2, <3>4, <1>5 DEF Added
    <3>6. Time(m.date) \in Nat /\ Time(x.date) \in Nat /\ Time(x.date) < Time(m.date)
      BY <3>1, <1>2
    <3> QED BY <3>5, <3>6, <2>2, <2>3
  <2>5. PICK i \in Headings(W), z \in X :
                /\ \A j \in DOMAIN W : NamesSender(W[j]) => j <= i
                /\ Time(W[i][3]) = Time(z.date) /\ \A y \in Y : Time(y.date) <= Time(z.date)
    BY <2>4, <1>8
  <2>6. g <= i /\ i \in Nat /\ i # 0
    <3>1. i # 0
      BY <1>3, TextDomain
    <3> QED BY <3>1, <2>1, <2>5, <1>6
  <2>7. g = i
    <3>1. PICK k \in 1..n : src[k] = i
      BY DEF Joined
    <3>2. L[k].date = W[i][3]
      BY <3>1, <2>6, <1>4, <1>6
    <3>3. SUFFICES ASSUME k < n PROVE FALSE
      BY <3>1, <2>1, <1>3
    <3>4. Time(z.date) \in Nat /\ Time(x.date) \in Nat /\ Time(x.date) <= Time(z.date)
      BY <1>2, <2>5
    <3>5. ~ Time(L[k].date) < Time(L[n].date)
      BY <3>2, <3>4, <2>2, <2>3, <2>5
    <3>6. src[k] < src[n]
      BY <3>3, <3>5, <1>5, <2>1 DEF Joined, Known, Added
    <3> QED BY <3>1, <3>6, <2>1, <2>2, <2>6
  <2>8. \A j \in 1..Len(L[n].body) : ~ NamesSender(L[n].body[j])
    <3>1. TAKE j \in 1..Len(L[n].body)
    <3>2. \E u \in DOMAIN W : u \in Nat /\ u > g /\ L[n].body[j] = W[u]
      <4>1. PICK u \in Content(W, src[n]) : u \in DOMAIN W /\ u > src[n] /\ L[n].body[j] = W[u]
        BY <1>5, <2>1, KeptLine
      <4>2. u \in Nat
        BY <4>1, <1>3, TextDomain
      <4> QED BY <4>1, <4>2, <2>1
    <3> QED BY <3>2, <2>2, <2>5, <2>7
  <2>9. /\ h[n] \in Headings(T) /\ T[h[n]][3] = L[n].date
        /\ \A j \in DOMAIN T : NamesSender(T[j]) => j <= h[n]
    BY <1>5, <2>2, <2>8, LastHeading
  <2>10. \A p \in LatestIn(Y) : Time(T[h[n]][3]) = Time(p.date)
    <3>1. TAKE p \in LatestIn(Y)
    <3>2. Time(p.date) <= Time(z.date) /\ Time(z.date) <= Time(p.date) /\ Time(p.date) \in Nat /\ Time(z.date) \in Nat
      BY <1>2, <2>5 DEF LatestIn
    <3>3. Time(p.date) = Time(z.date)
      BY <3>2
    <3> QED BY <3>3, <2>2, <2>5, <2>7, <2>9
  <2> QED BY <2>9, <2>10
<1> QED BY <1>4, <1>5, <1>9, <1>10

-----------------------------------------------------------------------------
(* Merging *)

\* A file that is identified is found, and read with an identity.
LEMMA IsFound ==
    ASSUME NEW W, IsText(W), Identified(W), subject # Missing
    PROVE  /\ Claims(W, ThreadKey) /\ ~ Unreadable(W) /\ Head(W)[2] = subject
           /\ LastValue(W, MetaLines(W, "Thread-ID"), Missing) # Missing
<1> DEFINE n == Len(W)
           I == MetaLines(W, "Thread-ID")
           A == MetaLines(W, "Thread-Aliases")
<1>1. n \in Nat /\ DOMAIN W = 1..n /\ n >= 2 /\ W[1] = Title(subject) /\ IsMeta(W[2], "Thread-ID")
  BY TextDomain DEF Identified
<1>2. /\ \A i \in I : i \in Nat /\ i >= 1 /\ i <= n
      /\ \A i \in A : i \in Nat /\ i >= 1
      /\ 1 \notin I /\ 1 \notin A /\ 2 \in I /\ 2 \notin A
  BY <1>1 DEF MetaLines, IsMeta, Title
<1>3. \A i \in I : W[i][3] # Missing
  BY DEF Identified
<1>4. Head(W) = W[1] /\ W # <<>>
  <2>1. W \in Seq(ToSet(W))
    BY DEF IsText
  <2>2. W # <<>>
    BY <1>1, EmptySeq
  <2> QED BY <2>1, <2>2, HeadTailProperties
<1>5. ~ Unreadable(W) /\ Head(W)[2] = subject
  <2>1. Title(subject)[2] = subject /\ Title(Missing)[2] = Missing
    BY DEF Title
  <2> QED BY <2>1, <1>1, <1>4 DEF Unreadable
<1>6. FirstValue(W, I, Missing) = W[2][3]
  <2>1. I \in SUBSET Nat /\ I # {}
    BY <1>2
  <2>2. Min(I) \in I /\ \A i \in I : Min(I) <= i
    BY <2>1, MinIs
  <2> HIDE DEF I
  <2>3. Min(I) = 2
    BY <2>2, <1>2
  <2> QED BY <2>1, <2>3 DEF FirstValue
<1>7. ASSUME n >= 3, IsMeta(W[3], "Thread-Aliases") PROVE FirstValue(W, A, {}) = W[3][3]
  <2>1. A \in SUBSET Nat /\ 3 \in A
    BY <1>1, <1>2, <1>7 DEF MetaLines
  <2>2. Min(A) \in A /\ \A i \in A : Min(A) <= i
    BY <2>1, MinIs
  <2> DEFINE v == Min(A)
  <2> HIDE DEF A, I, n, v
  <2>3. v \in Nat /\ v >= 1 /\ v # 1 /\ v # 2 /\ v <= 3
    BY <2>1, <2>2, <1>2 DEF v
  <2>4. v = 3
    BY ONLY <2>3
  <2> QED BY <2>1, <2>4 DEF FirstValue, v
<1>8. Claims(W, ThreadKey)
  BY <1>6, <1>7 DEF Identified, Claims
<1>9. LastValue(W, I, Missing) # Missing
  <2>1. I \in SUBSET Nat /\ I # {} /\ \A i \in I : i <= n
    BY <1>2
  <2>2. Max(I) \in I
    BY <2>1, <1>1, MaxIs
  <2> HIDE DEF I
  <2> QED BY <2>1, <2>2, <1>3 DEF LastValue
<1> QED BY <1>5, <1>8, <1>9

\* The messages that are read are those of the headings, in order.
LEMMA ParseIs ==
    ASSUME NEW W, IsText(W)
    PROVE  LET at == InOrder(Headings(W), Len(W))
               ms == ParseMessages(W)
           IN /\ Len(at) \in Nat /\ ms \in Seq(ToSet(ms)) /\ Len(ms) = Len(at) /\ DOMAIN ms = 1..Len(at)
              /\ \A k \in 1..Len(at) : /\ at[k] \in Headings(W) /\ at[k] \in Nat /\ at[k] # 0
                                       /\ ms[k] = MessageAt(W, at[k])
              /\ \A a, b \in 1..Len(at) : a < b => at[a] < at[b]
              /\ \A i \in Headings(W) : \E k \in 1..Len(at) : at[k] = i
<1> DEFINE at == InOrder(Headings(W), Len(W))
           ms == ParseMessages(W)
<1>1. Len(W) \in Nat /\ Headings(W) \subseteq 1..Len(W)
  BY TextDomain
<1>2. Lists(at, Headings(W), Len(W))
  BY <1>1, InOrderLists
<1>3. ms = [n \in DOMAIN at |-> MessageAt(W, at[n])]
  BY DEF ParseMessages
<1> HIDE DEF at, ms
<1>4. /\ at \in Seq(1..Len(W)) /\ Len(at) \in Nat /\ DOMAIN at = 1..Len(at)
      /\ \A a, b \in 1..Len(at) : a < b => at[a] < at[b]
      /\ \A a \in 1..Len(at) : at[a] \in Headings(W)
      /\ \A i \in 1..Len(W) : i \in Headings(W) => \E a \in 1..Len(at) : at[a] = i
  BY <1>2, LenProperties DEF Lists
<1>5. DOMAIN ms = 1..Len(at) /\ \A k \in 1..Len(at) : ms[k] = MessageAt(W, at[k])
  BY <1>3, <1>4
<1>6. ms \in Seq(ToSet(ms)) /\ Len(ms) = Len(at)
  <2>1. ms \in [1..Len(at) -> ToSet(ms)]
    BY <1>3, <1>5 DEF ToSet
  <2> QED BY <2>1, <1>4
<1> QED BY <1>1, <1>4, <1>5, <1>6 DEF at, ms

\* The messages that are written.
LEMMA JoinedMessages ==
    ASSUME TextAssumption, NEW W, IsText(W), NEW m, IsText(m.body)
    PROVE  LET ms == ParseMessages(W)
               seen == {DedupKey(ms[i]) : i \in DOMAIN ms}
               L == IF DedupKey(m) \in seen THEN ms ELSE Sorted(Append(ms, m))
           IN \E src : Joined(W, L, m, src) /\ DOMAIN L = 1..Len(L)
<1> DEFINE at == InOrder(Headings(W), Len(W))
           n == Len(at)
           ms == ParseMessages(W)
           seen == {DedupKey(ms[i]) : i \in DOMAIN ms}
           ns == Append(ms, m)
           L == IF DedupKey(m) \in seen THEN ms ELSE Sorted(ns)
<1>0. SUFFICES \E src : Joined(W, L, m, src) /\ DOMAIN L = 1..Len(L)
  OBVIOUS
<1>1. /\ n \in Nat /\ ms \in Seq(ToSet(ms)) /\ Len(ms) = n /\ DOMAIN ms = 1..n
      /\ \A k \in 1..n : /\ at[k] \in Headings(W) /\ at[k] \in Nat /\ at[k] # 0
                         /\ ms[k] = MessageAt(W, at[k])
      /\ \A a, b \in 1..n : a < b => at[a] < at[b]
      /\ \A i \in Headings(W) : \E k \in 1..n : at[k] = i
  BY ParseIs
<1> HIDE DEF at, n, ms
<1>2. \A a, b \in 1..n : at[a] = at[b] => a = b
  <2>1. TAKE a, b \in 1..n
  <2>2. a \in Nat /\ b \in Nat /\ at[a] \in Nat /\ at[b] \in Nat
    BY <1>1
  <2> QED BY <2>2, <1>1
<1>3. CASE DedupKey(m) \in seen
  <2> DEFINE src == [k \in 1..n |-> at[k]]
  <2>1. L = ms
    BY <1>3
  <2>2. src \in [1..n -> Nat] /\ \A k \in 1..n : src[k] = at[k]
    BY <1>1
  <2> HIDE DEF src
  <2>3. Known(W, ms, m, src)
    <3>1. PICK k \in 1..n : DedupKey(m) = DedupKey(ms[k])
      BY <1>1, <1>3
    <3>2. KeyAt(W, at[k]) = DedupKey(m) /\ at[k] \in Headings(W)
      BY <1>1, <3>1 DEF KeyAt
    <3> QED BY <1>1, <2>2, <3>2 DEF Known
  <2>4. Joined(W, ms, m, src)
    BY <1>1, <1>2, <2>2, <2>3 DEF Joined
  <2>5. Joined(W, L, m, src) /\ DOMAIN L = 1..Len(L)
    <3> HIDE DEF L
    <3> QED BY <1>1, <2>1, <2>4
  <2> QED BY <2>5
<1>4. CASE DedupKey(m) \notin seen
  <2>1. L = Sorted(ns)
    BY <1>4
  <2> DEFINE S == ToSet(ms) \cup {m}
  <2>2. /\ ns \in Seq(S) /\ Len(ns) = n + 1 /\ ns[n + 1] = m
        /\ \A i \in 1..n : ns[i] = ms[i]
    <3>1. ms \in Seq(S) /\ m \in S
      <4>1. ms \in [1..n -> S]
        BY <1>1, LenProperties
      <4> QED BY <4>1, <1>1
    <3> HIDE DEF S
    <3> QED BY <3>1, <1>1, AppendProperties
  <2>3. \A i \in 1..Len(ns) : Time(ns[i].date) \in 0..MaxTime
    BY Times
  <2> DEFINE r == Sorted(ns)
  <2>4. PICK q : InTime(r, ns, q)
    <3>1. MaxTime \in Nat
      BY DEF TextAssumption
    <3> HIDE DEF S, ns
    <3> QED BY <3>1, <2>2, <2>3, SortedIs
  <2> HIDE DEF S, ns, r
  <2> DEFINE z == Len(r)
  <2>5. /\ z \in Nat /\ DOMAIN r = 1..z /\ q \in [1..z -> 1..n + 1]
        /\ \A k \in 1..z : r[k] = ns[q[k]]
        /\ \A i \in 1..n + 1 : \E k \in 1..z : q[k] = i
        /\ \A a, b \in 1..z : a < b =>
              \/ Time(r[a].date) < Time(r[b].date)
              \/ Time(r[a].date) = Time(r[b].date) /\ q[a] < q[b]
    BY <2>2, <2>4 DEF InTime
  <2> HIDE DEF z
  <2> DEFINE src == [k \in 1..z |-> IF q[k] = n + 1 THEN 0 ELSE at[q[k]]]
  <2>6. \A k \in 1..z : \/ q[k] = n + 1 /\ src[k] = 0 /\ r[k] = m
                        \/ /\ q[k] \in 1..n /\ src[k] = at[q[k]] /\ src[k] # 0 /\ src[k] \in Headings(W)
                           /\ src[k] \in Nat /\ r[k] = MessageAt(W, src[k])
    <3>1. TAKE k \in 1..z
    <3>2. q[k] \in 1..n + 1
      BY <2>5
    <3>3. q[k] = n + 1 \/ (q[k] \in 1..n /\ q[k] # n + 1)
      BY <3>2, <1>1
    <3>4. src[k] = IF q[k] = n + 1 THEN 0 ELSE at[q[k]]
      OBVIOUS
    <3> HIDE DEF src
    <3>5. CASE q[k] = n + 1
      BY <3>4, <3>5, <2>2, <2>5
    <3>6. CASE q[k] \in 1..n /\ q[k] # n + 1
      BY <3>4, <3>6, <1>1, <2>2, <2>5
    <3> QED BY <3>3, <3>5, <3>6
  <2>7. src \in [1..z -> Nat]
    <3>1. \A k \in 1..z : src[k] \in Nat
      BY <2>6
    <3> QED BY <3>1
  <2> HIDE DEF src
  <2>8. \A a, b \in 1..z : src[a] = src[b] => a = b
    <3>1. TAKE a, b \in 1..z
    <3>2. SUFFICES ASSUME src[a] = src[b] PROVE a = b
      OBVIOUS
    <3>3. q[a] = q[b]
      BY <3>2, <1>2, <2>6
    <3>4. q[a] \in Nat /\ q[b] \in Nat /\ a \in Nat /\ b \in Nat
      BY <1>1, <2>5
    <3>5. r[a] = r[b]
      BY <3>3, <2>5
    <3>6. Time(r[a].date) \in Nat
      BY Times
    <3>7. ~ a < b
      BY <3>3, <3>4, <3>5, <3>6, <2>5
    <3>8. ~ b < a
      BY <3>3, <3>4, <3>5, <3>6, <2>5
    <3> QED BY <3>4, <3>7, <3>8
  <2>9. \A i \in Headings(W) : \E k \in 1..z : src[k] = i
    <3>1. TAKE i \in Headings(W)
    <3>2. PICK a \in 1..n : at[a] = i
      BY <1>1
    <3>3. a \in 1..n + 1 /\ a # n + 1
      BY <1>1
    <3>4. PICK k \in 1..z : q[k] = a
      BY <3>3, <2>5
    <3> QED BY <3>2, <3>3, <3>4, <2>6
  <2>10. Added(W, r, m, src)
    <3>1. \E k \in 1..z : src[k] = 0
      <4>1. n + 1 \in 1..n + 1 /\ n + 1 \notin 1..n
        BY <1>1
      <4>2. PICK k \in 1..z : q[k] = n + 1
        BY <4>1, <2>5
      <4> QED BY <4>1, <4>2, <2>6
    <3>2. \A i \in Headings(W) : KeyAt(W, i) # DedupKey(m)
      <4>1. TAKE i \in Headings(W)
      <4>2. PICK a \in 1..n : at[a] = i
        BY <1>1
      <4>3. DedupKey(ms[a]) \in seen /\ ms[a] = MessageAt(W, i)
        BY <1>1, <4>2
      <4> QED BY <4>3, <1>4 DEF KeyAt
    <3>3. ASSUME NEW a \in 1..z, NEW b \in 1..z, q[a] < q[b]
          PROVE  src[a] # 0 /\ (src[b] = 0 \/ src[a] < src[b])
      <4>1. q[a] \in 1..n + 1 /\ q[b] \in 1..n + 1
        BY <2>5
      <4>2. q[a] # n + 1
        BY <3>3, <4>1, <1>1
      <4>3. q[a] \in 1..n /\ src[a] = at[q[a]] /\ src[a] # 0
        BY <4>2, <2>6
      <4>4. src[b] = 0 \/ (q[b] \in 1..n /\ src[b] = at[q[b]])
        BY <2>6
      <4> QED BY <4>3, <4>4, <3>3, <1>1
    <3> QED BY <3>1, <3>2, <3>3, <2>5 DEF Added, z
  <2>11. Joined(W, r, m, src)
    BY <2>5, <2>6, <2>7, <2>8, <2>9, <2>10 DEF Joined, z
  <2>12. DOMAIN r = 1..Len(r)
    BY <2>5 DEF z
  <2>13. Joined(W, L, m, src) /\ DOMAIN L = 1..Len(L)
    <3>1. L = r
      BY <2>1 DEF r
    <3> HIDE DEF L
    <3> QED BY <3>1, <2>11, <2>12
  <2> QED BY <2>13
<1> QED BY <1>3, <1>4

\* The text that a merge writes.
LEMMA MergeIs ==
    ASSUME TextAssumption, subject # Missing, IsText(text), text # <<>> => Identified(text),
           NEW m, IsText(m.body), Merge(m)
    PROVE  \E L, src, h, t :
              /\ Joined(text, L, m, src) /\ Written(text', L, h) /\ Opening(text', t) /\ (h[1] = 5 => t.aliases # {})
              /\ t.subject = subject /\ t.id # Missing /\ (t.id = ThreadKey \/ ThreadKey \in t.aliases)
<1> DEFINE ms == ParseMessages(text)
           seen == {DedupKey(ms[i]) : i \in DOMAIN ms}
           L == IF DedupKey(m) \in seen THEN ms ELSE Sorted(Append(ms, m))
           found == text # <<>> /\ Claims(text, ThreadKey)
           t == IF found THEN ParseThreadMarkdown(text) ELSE NewThread
           known == [t EXCEPT !.aliases = IF t.id \in {Missing, ThreadKey} THEN @ ELSE @ \cup {ThreadKey}]
           tt == {DedupKey(t.messages[i]) : i \in DOMAIN t.messages}
           w == [known EXCEPT !.messages = IF DedupKey(m) \in tt THEN @ ELSE Sorted(Append(@, m))]
<1>1. text' = ThreadToMarkdown(w)
  BY DEF Merge
<1>2. /\ t = [id |-> t.id, subject |-> t.subject, aliases |-> t.aliases, messages |-> t.messages]
      /\ t.messages = ms /\ t.subject = subject /\ t.id # Missing
  <2>1. CASE text # <<>>
    <3>1. /\ Claims(text, ThreadKey) /\ ~ Unreadable(text) /\ Head(text)[2] = subject
          /\ LastValue(text, MetaLines(text, "Thread-ID"), Missing) # Missing
      BY <2>1, IsFound
    <3>2. t = ParseThreadMarkdown(text)
      BY <2>1, <3>1
    <3>3. t = [id |-> LastValue(text, MetaLines(text, "Thread-ID"), Missing), subject |-> subject,
               aliases |-> LastValue(text, MetaLines(text, "Thread-Aliases"), {}), messages |-> ms]
      BY <3>1, <3>2 DEF ParseThreadMarkdown
    <3> HIDE DEF t, ms
    <3> QED BY <3>1, <3>3
  <2>2. CASE text = <<>>
    <3>1. t = NewThread
      BY <2>2
    <3>2. ms = <<>>
      <4>1. Headings(text) = {}
        BY <2>2 DEF Headings
      <4>2. Len(InOrder(Headings(text), Len(text))) = 0 /\ Len(ms) = 0 /\ ms \in Seq(ToSet(ms))
        <5> DEFINE at == InOrder(Headings(text), Len(text))
        <5>1. /\ Len(at) \in Nat /\ ms \in Seq(ToSet(ms)) /\ Len(ms) = Len(at)
              /\ \A k \in 1..Len(at) : at[k] \in Headings(text)
          BY ParseIs
        <5> HIDE DEF at, ms
        <5>2. Len(at) = 0
          <6>1. ~ 1 \in 1..Len(at)
            BY <4>1, <5>1
          <6> QED BY <5>1, <6>1
        <5> QED BY <5>1, <5>2 DEF at
      <4> HIDE DEF ms
      <4> QED BY <4>2, EmptySeq
    <3> HIDE DEF t, ms
    <3>3. ThreadKey # Missing
      BY DEF ThreadKey, Missing
    <3> QED BY <3>1, <3>2, <3>3 DEF NewThread
  <2> QED BY <2>1, <2>2
<1> HIDE DEF t
<1> DEFINE i == t.id
           a == t.aliases
           b == IF i \in {Missing, ThreadKey} THEN a ELSE a \cup {ThreadKey}
<1>3. w = [id |-> i, subject |-> subject, aliases |-> b, messages |-> L]
  <2>1. t = [id |-> i, subject |-> subject, aliases |-> a, messages |-> ms] /\ tt = seen
    BY <1>2
  <2>2. known = [t EXCEPT !.aliases = b]
    OBVIOUS
  <2> HIDE DEF i, a, b, ms
  <2>3. known = [id |-> i, subject |-> subject, aliases |-> b, messages |-> ms]
    <3> HIDE DEF known
    <3> QED BY ONLY <2>1, <2>2
  <2>4. w = [known EXCEPT !.messages = L]
    <3>1. known.messages = ms
      <4> HIDE DEF known
      <4> QED BY ONLY <2>3
    <3> HIDE DEF known, tt, seen
    <3> QED BY <2>1, <3>1
  <2> HIDE DEF known, w, L
  <2> QED BY ONLY <2>3, <2>4
<1> HIDE DEF w, known
<1>4. /\ w.messages = L /\ w.subject = subject /\ w.id # Missing
      /\ w.id = ThreadKey \/ ThreadKey \in w.aliases
  <2> HIDE DEF L
  <2> QED BY <1>2, <1>3
<1>5. PICK src : Joined(text, L, m, src) /\ DOMAIN L = 1..Len(L)
  BY JoinedMessages
<1> HIDE DEF L
<1>6. Len(L) \in Nat /\ \A k \in 1..Len(L) : IsText(L[k].body)
  <2>1. Len(L) \in Nat
    BY <1>5 DEF Joined
  <2>2. ASSUME NEW k \in 1..Len(L) PROVE IsText(L[k].body)
    <3>1. CASE src[k] = 0 /\ L[k] = m
      BY <3>1
    <3>2. CASE src[k] # 0 /\ src[k] \in Headings(text) /\ L[k] = MessageAt(text, src[k])
      <4> DEFINE g == src[k]
      <4> HIDE DEF g
      <4>1. g \in Headings(text) /\ L[k] = MessageAt(text, g)
        BY <3>2 DEF g
      <4>2. IsText(MessageAt(text, g).body)
        BY <4>1, BodyIsRead
      <4> QED BY <4>1, <4>2
    <3> QED BY <1>5, <3>1, <3>2 DEF Joined
  <2> QED BY <2>1, <2>2
<1>7. /\ Opening(text', w)
      /\ \E h : Written(text', L, h) /\ (h[1] = 5 => w.aliases # {})
  <2>1. /\ Len(w.messages) \in Nat /\ DOMAIN w.messages = 1..Len(w.messages)
        /\ \A k \in 1..Len(w.messages) : IsText(w.messages[k].body)
    BY <1>4, <1>5, <1>6
  <2> DEFINE V == ThreadToMarkdown(w)
  <2>2. Opening(V, w) /\ \E h : Written(V, w.messages, h) /\ (h[1] = 5 => w.aliases # {})
    BY <2>1, TextIsWritten
  <2>3. V = text'
    BY <1>1
  <2> HIDE DEF V
  <2> QED BY <2>2, <2>3, <1>4
<1> QED BY <1>4, <1>5, <1>7

\* A file that is written again still names the key it was found by.
LEMMA IdentifiedStays ==
    ASSUME NEW W, NEW L, NEW m, NEW src, Joined(W, L, m, src), NEW T, NEW h, Written(T, L, h),
           NEW t, Opening(T, t), h[1] = 5 => t.aliases # {},
           t.subject = subject, t.id # Missing, t.id = ThreadKey \/ ThreadKey \in t.aliases,
           W # <<>> => Identified(W), NoBlanks(m)
    PROVE  Identified(T)
<1>1. IsText(T) /\ DOMAIN T = 1..Len(T) /\ IsText(W) /\ DOMAIN W = 1..Len(W) /\ Len(W) \in Nat
  <2>1. IsText(T) /\ IsText(W)
    BY DEF Written, Joined
  <2> QED BY <2>1, TextDomain
<1>2. Len(T) >= 2 /\ T[1] = Title(subject) /\ IsMeta(T[2], "Thread-ID") /\ T[2][3] = t.id
  BY DEF Opening, IsMeta, Meta
<1>3. t.id # ThreadKey => Len(T) >= 3 /\ IsMeta(T[3], "Thread-Aliases") /\ ThreadKey \in T[3][3]
  <2>1. SUFFICES ASSUME t.id # ThreadKey
                 PROVE  Len(T) >= 3 /\ IsMeta(T[3], "Thread-Aliases") /\ ThreadKey \in T[3][3]
    OBVIOUS
  <2>2. ThreadKey \in t.aliases
    BY <2>1
  <2>3. Len(T) >= 3 /\ T[3] = Meta("Thread-Aliases", t.aliases)
    BY <2>2 DEF Opening
  <2> QED BY <2>2, <2>3 DEF IsMeta, Meta
<1>4. ASSUME NEW i \in MetaLines(T, "Thread-ID") PROVE T[i][3] # Missing
  <2>1. i \in 1..Len(T) /\ IsMeta(T[i], "Thread-ID")
    BY <1>1 DEF MetaLines
  <2>2. CASE i = 2
    BY <2>2, <1>2
  <2>3. CASE \E k \in 1..Len(L) : \E j \in 1..Len(L[k].body) : T[i] = L[k].body[j]
    <3>0. PICK k \in 1..Len(L) : \E j \in 1..Len(L[k].body) : T[i] = L[k].body[j]
      BY <2>3
    <3>1. PICK j \in 1..Len(L[k].body) : T[i] = L[k].body[j]
      BY <3>0
    <3>2. CASE L[k].body[j] \in Quoted(m)
      BY <3>1, <3>2, <2>1 DEF NoBlanks
    <3>3. CASE \E u \in DOMAIN W : L[k].body[j] = W[u]
      <4>1. PICK u \in DOMAIN W : T[i] = W[u]
        BY <3>1, <3>3
      <4>2. W # <<>>
        BY <4>1
      <4> QED BY <4>1, <4>2, <2>1 DEF Identified, MetaLines
    <3> QED BY <3>2, <3>3, KeptLine
  <2> QED BY <2>1, <2>2, <2>3, IdLine
<1> QED BY <1>2, <1>3, <1>4 DEF Identified

\* No file yet: the invariant holds.
LEMMA ThreadInit == Init => ThreadInv
<1>1. SUFFICES ASSUME Init PROVE ThreadInv
  OBVIOUS
<1>2. text = <<>> /\ merged = {}
  BY <1>1 DEF Init
<1>3. IsText(text) /\ DOMAIN text = {} /\ Headings(text) = {}
  <2>1. DOMAIN text = {}
    BY <1>2
  <2>2. text \in Seq(ToSet(text))
    BY <1>2
  <2> QED BY <2>1, <2>2 DEF IsText, Headings
<1>4. Traced(text, merged)
  BY <1>3 DEF Traced, MetaLines
<1>5. ReadBack(text, merged) /\ Once(text, merged) /\ Ordered(text, merged) /\ LastOne(text, merged)
  BY <1>2 DEF ReadBack, Once, Ordered, LastOne
<1> QED BY <1>2, <1>3, <1>4, <1>5 DEF ThreadInv

\* A mail is a message with a text for its body.
LEMMA MailsAre ==
    ASSUME TextAssumption, NEW m \in Mails
    PROVE  IsMail(m) /\ IsText(m.body)
BY DEF TextAssumption, IsMail, IsText

\* Every merge keeps the invariant.
LEMMA ThreadStep ==
    ASSUME TextAssumption, ThreadInv, [Next]_vars
    PROVE  ThreadInv'
<1>1. CASE UNCHANGED vars
  <2>1. text' = text /\ subject' = subject /\ merged' = merged
    BY <1>1 DEF vars
  <2> QED BY <2>1 DEF ThreadInv, Identified
<1>2. CASE Next
  <2>1. PICK m \in Mails : Merge(m)
    BY <1>2 DEF Next
  <2>2. merged' = merged \cup {m} /\ subject' = subject /\ merged' \subseteq Mails
    BY <2>1 DEF Merge, ThreadInv
  <2>3. SUFFICES ASSUME subject # Missing, \A x \in merged' : NoBlanks(x)
                 PROVE  /\ IsText(text') /\ text' # <<>> /\ Identified(text')
                        /\ Traced(text', merged') /\ ReadBack(text', merged') /\ Once(text', merged')
                        /\ Ordered(text', merged') /\ LastOne(text', merged')
    <3>1. m \in merged' /\ merged' # {}
      BY <2>2
    <3>2. Identified(text') => Identified(text)'
      BY <2>2 DEF Identified
    <3>3. /\ Traced(text, merged)' <=> Traced(text', merged')
          /\ ReadBack(text, merged)' <=> ReadBack(text', merged')
          /\ Once(text, merged)' <=> Once(text', merged')
          /\ Ordered(text, merged)' <=> Ordered(text', merged')
          /\ LastOne(text, merged)' <=> LastOne(text', merged')
      OBVIOUS
    <3> QED BY <2>2, <2>3, <3>1, <3>2, <3>3 DEF ThreadInv
  <2>4. /\ IsText(text) /\ (text = <<>> <=> merged = {}) /\ (text # <<>> => Identified(text))
        /\ Traced(text, merged) /\ ReadBack(text, merged) /\ Once(text, merged)
        /\ Ordered(text, merged) /\ LastOne(text, merged) /\ NoBlanks(m)
    BY <2>2, <2>3 DEF ThreadInv
  <2>5. IsText(m.body) /\ \A x \in merged \cup {m} : IsMail(x)
    BY <2>2, MailsAre
  <2>6. PICK L, src, h, t :
              /\ Joined(text, L, m, src) /\ Written(text', L, h) /\ Opening(text', t) /\ (h[1] = 5 => t.aliases # {})
              /\ t.subject = subject /\ t.id # Missing /\ (t.id = ThreadKey \/ ThreadKey \in t.aliases)
    BY <2>1, <2>3, <2>4, <2>5, MergeIs
  <2> DEFINE T == text'
             X == merged
  <2> HIDE DEF T, X
  <2>7. Joined(text, L, m, src) /\ Written(T, L, h) /\ Traced(text, X) /\ ReadBack(text, X)
        /\ Once(text, X) /\ Ordered(text, X) /\ LastOne(text, X) /\ \A x \in X \cup {m} : IsMail(x)
    BY <2>4, <2>5, <2>6 DEF T, X
  <2>8. Traced(T, X \cup {m})
    BY <2>4, <2>7, TracedStays
  <2>9. ReadBack(T, X \cup {m})
    BY <2>7, ReadBackStays
  <2>10. Once(T, X \cup {m})
    BY <2>7, <2>8, OnceStays
  <2>11. Ordered(T, X \cup {m})
    <3>1. \A k \in 1..Len(L) : Time(L[k].date) \in Nat
      BY Times
    <3> QED BY <3>1, <2>7, <2>8, OrderedStays
  <2>12. LastOne(T, X \cup {m})
    <3>1. X = {} => Headings(text) = {}
      <4>1. DOMAIN <<>> = {}
        OBVIOUS
      <4> QED BY <4>1, <2>4 DEF X, Headings
    <3> QED BY <3>1, <2>7, LastOneStays
  <2>13. Identified(T)
    <3>1. Opening(T, t)
      BY <2>6 DEF T
    <3> QED BY <3>1, <2>4, <2>6, <2>7, IdentifiedStays
  <2>14. IsText(T) /\ T # <<>>
    <3>1. Len(T) >= 2
      BY <2>13 DEF Identified
    <3>2. Len(<<>>) = 0
      BY EmptySeq
    <3> QED BY <3>1, <3>2, <2>7 DEF Written
  <2> QED BY <2>2, <2>8, <2>9, <2>10, <2>11, <2>12, <2>13, <2>14 DEF T, X
<1> QED BY <1>1, <1>2

\* The invariant says that the conversation is read back.
LEMMA ThreadIsReadBack ==
    ASSUME TextAssumption, ThreadInv
    PROVE  ConversationIsReadBack
<1>1. SUFFICES ASSUME subject # Missing, \A x \in merged : NoBlanks(x)
               PROVE  MailsReadBack /\ FileIsFound /\ LastSenderTold /\ ContactsListed
  BY DEF ConversationIsReadBack
<1>2. /\ merged \subseteq Mails
      /\ IsText(text) /\ (text = <<>> <=> merged = {}) /\ (text # <<>> => Identified(text))
      /\ Traced(text, merged) /\ ReadBack(text, merged) /\ Once(text, merged)
      /\ Ordered(text, merged) /\ LastOne(text, merged)
  BY <1>1 DEF ThreadInv
<1>3. \A m : /\ Plain(m) <=> PlainIn(merged, m)
             /\ m \in Latest <=> m \in LatestIn(merged)
  BY DEF Plain, PlainIn, Unmistakable, UnmistakableIn, Latest, LatestIn
<1> DEFINE at == InOrder(Headings(text), Len(text))
           n == Len(at)
           ms == ParseMessages(text)
<1>4. /\ n \in Nat /\ Len(ms) = n /\ DOMAIN ms = 1..n
      /\ \A k \in 1..n : /\ at[k] \in Headings(text) /\ at[k] \in Nat
                         /\ ms[k] = MessageAt(text, at[k])
      /\ \A a, b \in 1..n : a < b => at[a] < at[b]
      /\ \A i \in Headings(text) : \E k \in 1..n : at[k] = i
  BY <1>2, ParseIs
<1> HIDE DEF at, n
<1>5. \A k \in 1..n : ms[k].date = text[at[k]][3] /\ KeyAt(text, at[k]) = DedupKey(ms[k])
  <2>1. TAKE k \in 1..n
  <2> DEFINE i == at[k]
  <2>2. i \in Headings(text) /\ ms[k] = MessageAt(text, i)
    BY <1>4
  <2> HIDE DEF i
  <2>3. MessageAt(text, i).date = text[i][3]
    BY <1>2, <2>2, MessageIs
  <2> QED BY <2>2, <2>3 DEF i, KeyAt
<1>6. ASSUME NEW m \in merged, Plain(m)
      PROVE  \E k \in 1..n : IsReadAs(ms[k], m) /\ (Named(merged, m) => ms[k] = m)
  <2>1. PICK i \in Headings(text) :
              IsReadAs(MessageAt(text, i), m) /\ (Named(merged, m) => MessageAt(text, i) = m)
    BY <1>2, <1>3, <1>6 DEF ReadBack
  <2>2. PICK k \in 1..n : at[k] = i
    BY <1>4
  <2>3. ms[k] = MessageAt(text, i)
    BY <1>4, <2>2
  <2> QED BY <2>1, <2>3
<1>7. MailsReadBack
  <2> DEFINE plain == {m \in merged : Plain(m)}
  <2>1. ASSUME \A m \in merged : m.from # Missing, NEW m \in plain PROVE m \in ToSet(ms)
    <3>1. Named(merged, m)
      BY <2>1 DEF Named
    <3>2. PICK k \in 1..n : ms[k] = m
      BY <3>1, <2>1, <1>6
    <3> HIDE DEF ms
    <3> QED BY <3>2, <1>4 DEF ToSet
  <2>2. ASSUME NEW i \in DOMAIN ms, NEW j \in DOMAIN ms, i < j, ms[i] \in plain PROVE ms[i] # ms[j]
    <3>1. SUFFICES ASSUME ms[i] = ms[j] PROVE FALSE
      OBVIOUS
    <3> DEFINE p == ms[i]
    <3>2. p \in merged /\ PlainIn(merged, p) /\ i \in 1..n /\ j \in 1..n
      BY <2>2, <1>3, <1>4
    <3>3. KeyAt(text, at[i]) = DedupKey(p) /\ KeyAt(text, at[j]) = DedupKey(p)
      BY <3>1, <3>2, <1>5
    <3>4. at[i] = at[j]
      BY <3>2, <3>3, <1>2, <1>4 DEF Once
    <3> QED BY <3>2, <3>4, <2>2, <1>4
  <2>3. ASSUME NEW i \in DOMAIN ms, NEW j \in DOMAIN ms, i < j, {ms[i], ms[j]} \subseteq plain
        PROVE  Time(ms[i].date) <= Time(ms[j].date)
    <3> DEFINE p == ms[i]
               q == ms[j]
    <3>1. /\ p \in merged /\ PlainIn(merged, p) /\ q \in merged /\ PlainIn(merged, q)
          /\ i \in 1..n /\ j \in 1..n
      BY <2>3, <1>3, <1>4
    <3>2. KeyAt(text, at[i]) = DedupKey(p) /\ KeyAt(text, at[j]) = DedupKey(q) /\ at[i] < at[j]
          /\ at[i] \in Headings(text) /\ at[j] \in Headings(text)
          /\ p.date = text[at[i]][3] /\ q.date = text[at[j]][3]
      BY <3>1, <2>3, <1>4, <1>5
    <3> HIDE DEF p, q
    <3>3. Time(text[at[i]][3]) <= Time(text[at[j]][3])
      BY <3>1, <3>2, <1>2 DEF Ordered
    <3> QED BY <3>2, <3>3 DEF p, q
  <2> QED BY <2>1, <2>2, <2>3 DEF MailsReadBack
<1>8. FileIsFound
  BY <1>1, <1>2, IsFound DEF FileIsFound
<1>9. LastSenderTold
  <2>1. SUFFICES ASSUME merged # {}, QuotesArePast, \A m \in Latest : Plain(m)
                 PROVE  \E m \in Latest : LastSender(text) = m.from
    BY DEF LastSenderTold
  <2>2. QuotesArePastIn(merged) /\ \A m \in LatestIn(merged) : PlainIn(merged, m)
    BY <2>1, <1>3 DEF QuotesArePast, QuotesArePastIn
  <2>3. PICK i \in Headings(text) : /\ \A j \in DOMAIN text : NamesSender(text[j]) => j <= i
                                    /\ \A m \in LatestIn(merged) : Time(text[i][3]) = Time(m.date)
    BY <1>2, <2>1, <2>2 DEF LastOne
  <2>4. PICK z \in merged : z \in LatestIn(merged) /\ \A x \in merged : Time(x.date) <= Time(z.date)
    BY <2>1, LatestExists
  <2>5. Time(text[i][3]) = Time(z.date) /\ \A x \in merged : Time(x.date) \in Nat
    BY <2>3, <2>4, Times
  <2>6. i \in DOMAIN text /\ NamesSender(text[i]) /\ IsHeading(text[i])
    BY DEF Headings, IsHeading
  <2>7. LastSender(text) = text[i][2]
    <3> DEFINE S == {j \in DOMAIN text : NamesSender(text[j])}
    <3>1. i \in S /\ \A j \in S : j <= i
      BY <2>3, <2>6
    <3>2. i \in Nat /\ S \in SUBSET Nat
      BY <1>2, TextDomain
    <3>3. Max(S) \in S /\ \A j \in S : j <= Max(S)
      BY <3>1, <3>2, MaxIs
    <3> HIDE DEF S
    <3>4. Max(S) = i
      <4> DEFINE v == Max(S)
      <4>1. v \in Nat /\ v <= i /\ i <= v
        BY <3>1, <3>2, <3>3
      <4> HIDE DEF v
      <4>2. v = i
        BY ONLY <4>1, <3>2
      <4> QED BY <4>2 DEF v
    <3> QED BY <3>1, <3>4 DEF LastSender, S
  <2>8. PICK x \in merged : (x.from = text[i][2] /\ x.date = text[i][3]) \/ Quotes(x, text[i][2], text[i][3])
    BY <1>2, <2>6 DEF Traced
  <2>9. CASE x.from = text[i][2] /\ x.date = text[i][3]
    <3>1. \A y \in merged : Time(y.date) <= Time(x.date)
      BY <2>4, <2>5, <2>9
    <3>2. x \in Latest
      BY <3>1 DEF Latest
    <3> QED BY <3>2, <2>7, <2>9
  <2>10. CASE Quotes(x, text[i][2], text[i][3])
    <3>1. PICK l \in Quoted(x) : l[1] = "##" /\ l[2] = text[i][2] /\ l[3] = text[i][3]
      BY <2>10 DEF Quotes
    <3>2. IsHeading(l)
      BY <3>1, <2>6 DEF IsHeading, NamesSender
    <3>3. Time(l[3]) <= Time(x.date)
      BY <3>2, <2>2 DEF QuotesArePastIn
    <3>4. \A y \in merged : Time(y.date) <= Time(x.date)
      <4>1. Time(z.date) <= Time(x.date)
        BY <3>1, <3>3, <2>5
      <4>2. TAKE y \in merged
      <4>3. Time(y.date) <= Time(z.date) /\ Time(y.date) \in Nat /\ Time(z.date) \in Nat /\ Time(x.date) \in Nat
        BY <2>4, <2>5
      <4> QED BY <4>1, <4>3
    <3>5. x \in LatestIn(merged)
      BY <3>4 DEF LatestIn
    <3> QED BY <3>1, <3>5, <2>2 DEF PlainIn
  <2> QED BY <2>8, <2>9, <2>10
<1>10. ContactsListed
  <2>1. SUFFICES ASSUME NEW m \in merged, Plain(m), NEW c \in Contacts \cap {m.from, m.to}
                 PROVE  c \in ManifestContacts(text)
    BY DEF ContactsListed
  <2>2. PICK k \in 1..n : IsReadAs(ms[k], m)
    BY <1>6, <2>1
  <2>3. ms[k] \in ToSet(ms)
    <3> HIDE DEF ms
    <3> QED BY <1>4 DEF ToSet
  <2>4. c \in {ms[k].from, ms[k].to}
    BY <2>1, <2>2 DEF IsReadAs
  <2>5. ~ Unreadable(text)
    <3>1. text # <<>>
      BY <1>2, <2>1
    <3> QED BY <3>1, <1>1, <1>2, IsFound
  <2> HIDE DEF ms
  <2>6. c \in UNION {{y.from, y.to} : y \in ToSet(ms)}
    BY <2>3, <2>4
  <2> QED BY <2>1, <2>5, <2>6 DEF ManifestContacts, ms
<1> QED BY <1>7, <1>8, <1>9, <1>10

\* A conversation is read back as it was merged, whatever its mails hold.
THEOREM ThreadTextIsReadBack == TextAssumption => (Spec => []ConversationIsReadBack)
<1>1. TextAssumption /\ Init => ThreadInv
  BY ThreadInit
<1>2. TextAssumption /\ ThreadInv /\ [Next]_vars => ThreadInv'
  BY ThreadStep
<1>3. TextAssumption /\ ThreadInv => ConversationIsReadBack
  BY ThreadIsReadBack
<1>4. TextAssumption => TextAssumption'
  BY DEF TextAssumption
<1> QED BY <1>1, <1>2, <1>3, <1>4, PTL DEF Spec
=============================================================================
