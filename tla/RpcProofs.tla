-------------------------------- MODULE RpcProofs ------------------------------
(***************************************************************************)
(* The messages and the stubs for every request and response, every set of *)
(* calls and protocols and any width of the numbers: what is parsed is     *)
(* what was serialised, takes the bytes that were computed for it, and     *)
(* reaches handler and caller as it was sent.                              *)
(***************************************************************************)
EXTENDS Rpc, NaturalsInduction, WellFoundedInduction, TLAPS

\* Induction, over a set of numbers.
LEMMA Induction ==
  ASSUME NEW S, 0 \in S, \A n \in Nat : n \in S => n + 1 \in S
  PROVE  Nat \subseteq S
<1> DEFINE R == OpToRel(<, Nat)
           U == Nat \ S
<1>1. \A x, y \in Nat : y < x => <<y, x>> \in R
  BY DEF OpToRel
<1>2. IsWellFoundedOn(R, Nat)
  BY NatLessThanWellFounded
<1> HIDE DEF R
<1>3. SUFFICES ASSUME U # {} PROVE FALSE
  OBVIOUS
<1>4. \E m \in U : \A n \in U : ~ (<<n, m>> \in R)
  BY <1>2, <1>3, WFMin
<1>5. PICK m \in U : \A n \in U : ~ (<<n, m>> \in R)
  BY <1>4
<1>6. m # 0 /\ m - 1 \in Nat /\ m - 1 < m
  OBVIOUS
<1>7. m - 1 \in S
  BY <1>1, <1>5, <1>6
<1> QED
  BY <1>6, <1>7
------------------------------------------------------------------------------
Types == {"UserSign", "UserRet", "DirInfo", "DirRet"}
Names(T) == {f.name : f \in Members[T]}

\* The three tables of a class agree: the parser's, the serialiser's and that of
\* the functions that merge; and its names are its own.
LEMMA TablesAgree ==
  ASSUME NEW T \in Types
  PROVE  /\ Tags[T] = Fields[T] /\ Len(Fields[T]) \in Nat
         /\ DOMAIN Fields[T] = 1 .. Len(Fields[T])
         /\ Members[T] = {Fields[T][i] : i \in 1 .. Len(Fields[T])}
         /\ \A i \in 1 .. Len(Fields[T]) :
              /\ Fields[T][i].name # "unknown"
              /\ Fields[T][i].type \in {"string", "int32", "int64"}
              /\ \A j \in 1 .. Len(Fields[T]) :
                   Fields[T][i].name = Fields[T][j].name => i = j
<1> USE DEF Tags, Fields, Members, Text, Int32, Int64
<1>1. CASE T = "UserSign"
  BY <1>1 DEF UserSignTags, UserSignFields, UserSignMembers
<1>2. CASE T = "UserRet"
  BY <1>2 DEF UserRetTags, UserRetFields, UserRetMembers
<1>3. CASE T = "DirInfo"
  BY <1>3 DEF DirInfoTags, DirInfoFields, DirInfoMembers
<1>4. CASE T = "DirRet"
  BY <1>4 DEF DirRetTags, DirRetFields, DirRetMembers
<1> QED
  BY <1>1, <1>2, <1>3, <1>4 DEF Types

\* A new message has the default in every field.
LEMMA NewMessage ==
  ASSUME NEW T \in Types
  PROVE  /\ New(T) = [f \in Names(T) \union {"unknown"} |-> New(T)[f]]
         /\ New(T)["unknown"] = <<>>
         /\ \A i \in 1 .. Len(Fields[T]) :
              New(T)[Fields[T][i].name] = Default(Fields[T][i].type)
<1>1. New(T)["unknown"] = <<>>
  BY DEF New
<1>2. New(T) = [f \in Names(T) \union {"unknown"} |-> New(T)[f]]
  BY DEF New, Names
<1>3. ASSUME NEW i \in 1 .. Len(Fields[T])
      PROVE  New(T)[Fields[T][i].name] = Default(Fields[T][i].type)
  <2> DEFINE f == Fields[T][i]
             g == CHOOSE m \in Members[T] : m.name = f.name
  <2>1. f \in Members[T] /\ f.name # "unknown"
    BY TablesAgree
  <2>2. g \in Members[T] /\ g.name = f.name
    BY <2>1
  <2>3. \A m \in Members[T] : m.name = f.name => m = f
    BY TablesAgree
  <2>4. g = f
    BY <2>2, <2>3
  <2>5. New(T)[f.name] = Default(g.type)
    BY <2>1 DEF New
  <2> QED
    BY <2>4, <2>5
<1> QED
  BY <1>1, <1>2, <1>3
------------------------------------------------------------------------------
LEMMA Division ==
  ASSUME NEW n \in Nat \ {0}, NEW x \in Int
  PROVE  x = n * (x \div n) + (x % n) /\ x % n \in 0 .. n - 1 /\ x \div n \in Int
OBVIOUS

LEMMA RestOf ==
  ASSUME NEW n \in Nat \ {0}, NEW r \in 0 .. n - 1, NEW j \in Nat
  PROVE  (r + n * j) % n = r
OBVIOUS

\* The low bits of a sign-extended number are the number's.
LEMMA LowOfHigh ==
  ASSUME NEW v \in Int, -Low <= v, v < Low
  PROVE  (v % High) % Low = v % Low
<1>1. CASE v >= 0
  BY <1>1, WireAssumption
<1>2. CASE v < 0
  <2>1. v % High = v + High /\ v % Low = v + Low
    BY <1>2, WireAssumption
  <2>2. High = Low * (High \div Low) /\ High \div Low \in Int
    BY WireAssumption, Division
  <2>3. High \div Low > 0
    BY <2>2, WireAssumption
  <2>4. PICK q \in Nat \ {0} : High = Low * q
    BY <2>2, <2>3
  <2>5. v + High = (v + Low) + Low * (q - 1) /\ q - 1 \in Nat /\ v + Low \in 0 .. Low - 1
    BY <1>2, <2>4, WireAssumption
  <2>6. PICK r \in 0 .. Low - 1, j \in Nat : v + High = r + Low * j /\ r = v + Low
    BY <2>5
  <2>7. (r + Low * j) % Low = r
    BY WireAssumption, RestOf
  <2> QED
    BY <2>1, <2>6, <2>7
<1> QED
  BY <1>1, <1>2

LEMMA SignedIsItself ==
  ASSUME NEW n \in Nat \ {0}, NEW v \in Int, -n <= 2 * v, 2 * v < n
  PROVE  Signed(v, n) = v
<1>1. CASE v >= 0
  BY <1>1 DEF Signed
<1>2. CASE v < 0
  <2>1. v % n = v + n
    BY <1>2
  <2> QED
    BY <1>2, <2>1 DEF Signed
<1> QED
  BY <1>1, <1>2

\* What is read from the wire is the value that was written, and a number takes
\* all its bytes exactly if it is negative.
LEMMA ValueOnWire ==
  ASSUME NEW type \in {"string", "int32", "int64"}, NEW v, Holds(type, v)
  PROVE  /\ FromWire(type, ToWire(type, v)) = v
         /\ type # "string" => (2 * ToWire(type, v) >= High <=> v < 0)
<1>1. CASE type = "string"
  BY <1>1 DEF FromWire, ToWire
<1>2. CASE type # "string"
  <2>1. v \in Int /\ -Numbers(type) <= 2 * v /\ 2 * v < Numbers(type)
    BY <1>2 DEF Holds
  <2>2. Numbers(type) \in Nat \ {0} /\ Numbers(type) <= High /\ High \in Nat \ {0}
    BY WireAssumption DEF Numbers
  <2>3. -High <= 2 * v /\ 2 * v < High
    BY <2>1, <2>2
  <2>4. v % High = (IF v < 0 THEN v + High ELSE v)
    BY <2>1, <2>2, <2>3
  <2>5. (v % High) % Numbers(type) = v % Numbers(type)
    <3>1. CASE type = "int32"
      <4>1. Numbers(type) = Low /\ -Low <= v /\ v < Low
        BY <3>1, <2>1, WireAssumption DEF Numbers
      <4> QED
        BY <2>1, <4>1, LowOfHigh
    <3>2. CASE type # "int32"
      <4>1. Numbers(type) = High
        BY <3>2 DEF Numbers
      <4> QED
        BY <2>1, <2>2, <2>3, <2>4, <4>1
    <3> QED
      BY <3>1, <3>2
  <2>6. Signed(v % High, Numbers(type)) = Signed(v, Numbers(type))
    BY <2>5 DEF Signed
  <2>7. FromWire(type, ToWire(type, v)) = v
    BY <1>2, <2>1, <2>2, <2>6, SignedIsItself DEF FromWire, ToWire
  <2>8. 2 * ToWire(type, v) >= High <=> v < 0
    BY <1>2, <2>1, <2>2, <2>3, <2>4 DEF ToWire
  <2> QED
    BY <2>7, <2>8
<1> QED
  BY <1>1, <1>2
------------------------------------------------------------------------------
\* The sums exist, begin with 0 and add one size after the other.
LEMMA SumsExist ==
  ASSUME NEW s
  PROVE  \A n \in Nat : \E f : f = [k \in 0 .. n |-> IF k = 0 THEN 0 ELSE f[k - 1] + s[k]]
<1> DEFINE Ok == {n \in Nat : \E f : f = [k \in 0 .. n |->
                                            IF k = 0 THEN 0 ELSE f[k - 1] + s[k]]}
<1>1. 0 \in Ok
  <2> DEFINE f == [k \in 0 .. 0 |-> 0]
  <2>1. f = [k \in 0 .. 0 |-> IF k = 0 THEN 0 ELSE f[k - 1] + s[k]]
    OBVIOUS
  <2> QED
    BY <2>1
<1>2. ASSUME NEW n \in Nat, n \in Ok
      PROVE  n + 1 \in Ok
  <2>1. PICK f : f = [k \in 0 .. n |-> IF k = 0 THEN 0 ELSE f[k - 1] + s[k]]
    BY <1>2
  <2> DEFINE g == [k \in 0 .. n + 1 |-> IF k <= n THEN f[k] ELSE f[n] + s[n + 1]]
  <2>2. \A k \in 0 .. n : g[k] = f[k]
    OBVIOUS
  <2>3. g = [k \in 0 .. n + 1 |-> IF k = 0 THEN 0 ELSE g[k - 1] + s[k]]
    <3> SUFFICES ASSUME NEW k \in 0 .. n + 1
                 PROVE  g[k] = IF k = 0 THEN 0 ELSE g[k - 1] + s[k]
      OBVIOUS
    <3>1. CASE k = 0
      BY <2>1, <3>1
    <3>2. CASE k \in 1 .. n
      <4>1. g[k] = f[k] /\ g[k - 1] = f[k - 1]
        BY <2>2, <3>2
      <4>2. f[k] = f[k - 1] + s[k]
        BY <2>1, <3>2
      <4> QED
        BY <3>2, <4>1, <4>2
    <3>3. CASE k = n + 1
      <4>1. g[k] = f[n] + s[n + 1] /\ g[n] = f[n] /\ k - 1 = n
        BY <2>2, <3>3
      <4> QED
        BY <3>3, <4>1
    <3> QED
      BY <3>1, <3>2, <3>3
  <2> HIDE DEF g
  <2>4. \E h : h = [k \in 0 .. n + 1 |-> IF k = 0 THEN 0 ELSE h[k - 1] + s[k]]
    BY <2>3, Zenon
  <2> QED
    BY <2>4
<1> HIDE DEF Ok
<1>3. Nat \subseteq Ok
  BY <1>1, <1>2, Induction
<1> QED
  BY <1>3 DEF Ok

LEMMA SumsSteps ==
  ASSUME NEW s, Len(s) \in Nat
  PROVE  Sums(s)[0] = 0 /\ \A n \in 1 .. Len(s) : Sums(s)[n] = Sums(s)[n - 1] + s[n]
<1> DEFINE Is(f) == f = [n \in 0 .. Len(s) |-> IF n = 0 THEN 0 ELSE f[n - 1] + s[n]]
<1>1. \E f : Is(f)
  BY SumsExist
<1>2. Sums(s) = CHOOSE f : Is(f)
  BY DEF Sums
<1> HIDE DEF Is
<1>3. Is(Sums(s))
  BY <1>1, <1>2
<1> QED
  BY <1>3 DEF Is

\* A sum of natural numbers is one, and it depends on what has been added only.
LEMMA SumsAgree ==
  ASSUME NEW s, NEW r, Len(s) \in Nat, Len(r) \in Nat, NEW m \in Nat, m <= Len(s), m <= Len(r),
         \A n \in 1 .. m : s[n] \in Nat /\ r[n] = s[n]
  PROVE  Sums(s)[m] \in Nat /\ Sums(r)[m] = Sums(s)[m]
<1> DEFINE Ok == {n \in Nat : n <= m => Sums(s)[n] \in Nat /\ Sums(r)[n] = Sums(s)[n]}
<1>1. 0 \in Ok
  BY SumsSteps
<1>2. ASSUME NEW n \in Nat, n \in Ok
      PROVE  n + 1 \in Ok
  <2> SUFFICES ASSUME n + 1 <= m
               PROVE  Sums(s)[n + 1] \in Nat /\ Sums(r)[n + 1] = Sums(s)[n + 1]
    OBVIOUS
  <2>1. n + 1 \in 1 .. Len(s) /\ n + 1 \in 1 .. Len(r) /\ n + 1 \in 1 .. m /\ (n + 1) - 1 = n
    OBVIOUS
  <2>2. /\ Sums(s)[n + 1] = Sums(s)[n] + s[n + 1]
        /\ Sums(r)[n + 1] = Sums(r)[n] + r[n + 1]
    BY <2>1, SumsSteps
  <2> QED
    BY <1>2, <2>1, <2>2
<1> HIDE DEF Ok
<1>3. Nat \subseteq Ok
  BY <1>1, <1>2, Induction
<1> QED
  BY <1>3 DEF Ok

Sizes(wire) == [i \in 1 .. Len(wire) |-> EntrySize(wire[i])]

LEMMA SizesOf ==
  ASSUME NEW X, NEW wire \in Seq(X)
  PROVE  /\ Len(Sizes(wire)) = Len(wire) /\ Len(wire) \in Nat
         /\ \A i \in 1 .. Len(wire) : /\ Sizes(wire)[i] = EntrySize(wire[i])
                                      /\ Sizes(wire)[i] \in Nat
         /\ WireSize(wire) = Sums(Sizes(wire))[Len(wire)]
<1>1. \A e : EntrySize(e) \in Nat
  BY DEF EntrySize
<1>2. Sizes(wire) \in Seq(Nat) /\ Len(Sizes(wire)) = Len(wire)
  BY <1>1 DEF Sizes
<1>3. WireSize(wire) = Sums(Sizes(wire))[Len(wire)]
  BY DEF WireSize, Sizes
<1> QED
  BY <1>1, <1>2, <1>3 DEF Sizes

LEMMA WireSizeOfNothing == WireSize(<<>>) = 0
<1>1. <<>> \in Seq({}) /\ Len(<<>>) = 0
  OBVIOUS
<1>2. WireSize(<<>>) = Sums(Sizes(<<>>))[0] /\ Len(Sizes(<<>>)) = 0
  BY <1>1, SizesOf
<1> QED
  BY <1>2, SumsSteps

LEMMA WireSizeIsNat ==
  ASSUME NEW X, NEW wire \in Seq(X)
  PROVE  WireSize(wire) \in Nat
BY SizesOf, SumsAgree

LEMMA WireSizeOfMore ==
  ASSUME NEW X, NEW wire \in Seq(X), NEW e \in X
  PROVE  /\ WireSize(wire) \in Nat
         /\ WireSize(Append(wire, e)) = WireSize(wire) + EntrySize(e)
<1> DEFINE w == Append(wire, e)
           n == Len(wire)
<1>1. w \in Seq(X) /\ Len(w) = n + 1 /\ n \in Nat /\ w[n + 1] = e
      /\ \A i \in 1 .. n : w[i] = wire[i]
  OBVIOUS
<1> HIDE DEF w, n
<1>2. /\ Len(Sizes(w)) = n + 1 /\ Len(Sizes(wire)) = n
      /\ \A i \in 1 .. n : Sizes(wire)[i] \in Nat /\ Sizes(w)[i] = Sizes(wire)[i]
      /\ Sizes(w)[n + 1] = EntrySize(e)
  BY <1>1, SizesOf DEF n
<1>3. Sums(Sizes(wire))[n] \in Nat /\ Sums(Sizes(w))[n] = Sums(Sizes(wire))[n]
  BY <1>1, <1>2, SumsAgree
<1>4. Sums(Sizes(w))[n + 1] = Sums(Sizes(w))[n] + EntrySize(e)
  <2>1. n + 1 \in 1 .. Len(Sizes(w)) /\ (n + 1) - 1 = n /\ Len(Sizes(w)) \in Nat
    BY <1>1, <1>2
  <2> QED
    BY <1>2, <2>1, SumsSteps
<1>5. /\ WireSize(wire) = Sums(Sizes(wire))[n]
      /\ WireSize(w) = Sums(Sizes(w))[n + 1]
  BY <1>1, SizesOf DEF n
<1> QED
  BY <1>3, <1>4, <1>5 DEF w
------------------------------------------------------------------------------
\* The first n elements of a sequence, and how they grow.
First(s, n) == [i \in 1 .. n |-> s[i]]

LEMMA FirstGrows ==
  ASSUME NEW X, NEW s \in Seq(X)
  PROVE  /\ First(s, 0) = <<>> /\ First(s, Len(s)) = s
         /\ \A n \in 0 .. Len(s) : First(s, n) \in Seq(X)
         /\ \A n \in 1 .. Len(s) : s[n] \in X /\ First(s, n) = Append(First(s, n - 1), s[n])
<1>1. \A n \in 0 .. Len(s) : First(s, n) \in Seq(X) /\ Len(First(s, n)) = n
  BY DEF First
<1>2. First(s, 0) = <<>>
  BY <1>1
<1>3. First(s, Len(s)) = s
  BY <1>1 DEF First
<1>4. ASSUME NEW n \in 1 .. Len(s)
      PROVE  s[n] \in X /\ First(s, n) = Append(First(s, n - 1), s[n])
  <2> DEFINE p == First(s, n - 1)
  <2>1. p \in Seq(X) /\ Len(p) = n - 1 /\ \A i \in 1 .. n - 1 : p[i] = s[i]
    BY <1>1 DEF First
  <2>2. s[n] \in X
    OBVIOUS
  <2> HIDE DEF p
  <2>3. Append(p, s[n]) \in Seq(X) /\ Len(Append(p, s[n])) = n
    BY <2>1, <2>2
  <2>4. \A i \in 1 .. n : Append(p, s[n])[i] = s[i]
    BY <2>1, <2>2
  <2>5. First(s, n) \in Seq(X) /\ Len(First(s, n)) = n /\ \A i \in 1 .. n : First(s, n)[i] = s[i]
    BY <1>1 DEF First
  <2> QED
    BY <2>2, <2>3, <2>4, <2>5 DEF p
<1> QED
  BY <1>1, <1>2, <1>3, <1>4

LEMMA AppendToConcat ==
  ASSUME NEW X, NEW s \in Seq(X), NEW r \in Seq(X), NEW e \in X
  PROVE  s \o r \in Seq(X) /\ s \o Append(r, e) = Append(s \o r, e)
OBVIOUS

LEMMA ConcatNothing ==
  ASSUME NEW X, NEW s \in Seq(X)
  PROVE  s \o <<>> = s /\ <<>> \o s = s
OBVIOUS

\* The sizes of two parts of a wire add up.
LEMMA WireSizeOfBoth ==
  ASSUME NEW X, NEW wire \in Seq(X), NEW more \in Seq(X)
  PROVE  WireSize(wire \o more) = WireSize(wire) + WireSize(more)
<1> DEFINE Ok == {n \in Nat : n <= Len(more) =>
                    /\ First(more, n) \in Seq(X) /\ wire \o First(more, n) \in Seq(X)
                    /\ WireSize(wire \o First(more, n)) = WireSize(wire) + WireSize(First(more, n))}
<1>0. WireSize(wire) \in Nat
  BY WireSizeIsNat
<1>1. 0 \in Ok
  <2>1. First(more, 0) = <<>> /\ wire \o <<>> = wire
    BY FirstGrows, ConcatNothing
  <2>2. <<>> \in Seq(X)
    OBVIOUS
  <2>3. WireSize(wire) = WireSize(wire) + WireSize(<<>>)
    BY <1>0, WireSizeOfNothing
  <2>4. /\ First(more, 0) \in Seq(X) /\ wire \o First(more, 0) \in Seq(X)
        /\ WireSize(wire \o First(more, 0)) = WireSize(wire) + WireSize(First(more, 0))
    BY <2>1, <2>2, <2>3, Zenon
  <2> QED
    BY <2>4
<1>2. ASSUME NEW n \in Nat, n \in Ok
      PROVE  n + 1 \in Ok
  <2> SUFFICES ASSUME n + 1 <= Len(more)
               PROVE  /\ First(more, n + 1) \in Seq(X) /\ wire \o First(more, n + 1) \in Seq(X)
                      /\ WireSize(wire \o First(more, n + 1))
                           = WireSize(wire) + WireSize(First(more, n + 1))
    OBVIOUS
  <2> DEFINE p == First(more, n)
             e == more[n + 1]
  <2>1. n + 1 \in 1 .. Len(more) /\ (n + 1) - 1 = n /\ n \in 0 .. Len(more) /\ n + 1 \in 0 .. Len(more)
    OBVIOUS
  <2>2. e \in X /\ First(more, n + 1) = Append(p, e) /\ p \in Seq(X)
    BY <2>1, FirstGrows
  <2>3. wire \o p \in Seq(X) /\ WireSize(wire \o p) = WireSize(wire) + WireSize(p)
    BY <1>2, <2>1
  <2> HIDE DEF p, e
  <2>4. wire \o Append(p, e) = Append(wire \o p, e) /\ Append(p, e) \in Seq(X)
    BY <2>2, AppendToConcat
  <2>5. /\ WireSize(p) \in Nat /\ WireSize(Append(p, e)) = WireSize(p) + EntrySize(e)
        /\ WireSize(Append(wire \o p, e)) = WireSize(wire \o p) + EntrySize(e)
    BY <2>2, <2>3, WireSizeOfMore
  <2>6. EntrySize(e) \in Nat
    BY DEF EntrySize
  <2>7. Append(wire \o p, e) \in Seq(X)
    BY <2>2, <2>3
  <2>8. WireSize(Append(wire \o p, e)) = WireSize(wire) + WireSize(Append(p, e))
    BY <1>0, <2>3, <2>5, <2>6
  <2> QED
    BY <2>2, <2>4, <2>7, <2>8, Zenon
<1> HIDE DEF Ok
<1>3. Len(more) \in Ok
  BY <1>1, <1>2, Induction
<1>4. First(more, Len(more)) = more
  BY FirstGrows
<1> QED
  BY <1>3, <1>4 DEF Ok
------------------------------------------------------------------------------
\* The parser's rounds exist, and do what they say.
LEMMA ParsingSteps ==
  ASSUME NEW T, NEW m, NEW wire, Len(wire) \in Nat
  PROVE  /\ Parsing(T, m, wire)[0] = [ok |-> TRUE, msg |-> m]
         /\ \A n \in 1 .. Len(wire) :
              Parsing(T, m, wire)[n] = ParseEntry(T, Parsing(T, m, wire)[n - 1], wire[n])
<1> DEFINE start == [ok |-> TRUE, msg |-> m]
           Runs(f, n) == f = [k \in 0 .. n |->
                                IF k = 0 THEN start ELSE ParseEntry(T, f[k - 1], wire[k])]
           Ok == {n \in Nat : \E f : Runs(f, n)}
<1>0. Parsing(T, m, wire) = CHOOSE f : Runs(f, Len(wire))
  BY DEF Parsing
<1> HIDE DEF start
<1>1. 0 \in Ok
  <2> DEFINE f == [k \in 0 .. 0 |-> start]
  <2>1. Runs(f, 0)
    OBVIOUS
  <2> HIDE DEF f, Runs
  <2> QED
    BY <2>1
<1>2. ASSUME NEW n \in Nat, n \in Ok
      PROVE  n + 1 \in Ok
  <2>1. PICK f : Runs(f, n)
    BY <1>2
  <2> DEFINE g == [k \in 0 .. n + 1 |-> IF k <= n THEN f[k]
                                        ELSE ParseEntry(T, f[n], wire[n + 1])]
  <2>2. \A k \in 0 .. n : g[k] = f[k]
    OBVIOUS
  <2>3. Runs(g, n + 1)
    <3> SUFFICES ASSUME NEW k \in 0 .. n + 1
                 PROVE  g[k] = IF k = 0 THEN start ELSE ParseEntry(T, g[k - 1], wire[k])
      OBVIOUS
    <3>1. CASE k = 0
      BY <2>1, <3>1
    <3>2. CASE k \in 1 .. n
      <4>1. g[k] = f[k] /\ g[k - 1] = f[k - 1]
        BY <2>2, <3>2
      <4>2. f[k] = ParseEntry(T, f[k - 1], wire[k])
        BY <2>1, <3>2
      <4> QED
        BY <3>2, <4>1, <4>2
    <3>3. CASE k = n + 1
      <4>1. g[k] = ParseEntry(T, f[n], wire[n + 1]) /\ g[n] = f[n] /\ k - 1 = n
        BY <2>2, <3>3
      <4> QED
        BY <3>3, <4>1
    <3> QED
      BY <3>1, <3>2, <3>3
  <2> HIDE DEF g, Runs
  <2> QED
    BY <2>3
<1>3. PICK f : Runs(f, Len(wire))
  <2> HIDE DEF Ok
  <2>1. Len(wire) \in Ok
    BY <1>1, <1>2, Induction
  <2> HIDE DEF Runs
  <2> QED
    BY <2>1 DEF Ok
<1>4. Runs(Parsing(T, m, wire), Len(wire))
  <2> HIDE DEF Runs
  <2> QED
    BY <1>0, <1>3
<1>5. /\ Parsing(T, m, wire)[0] = start
      /\ \A n \in 1 .. Len(wire) :
           Parsing(T, m, wire)[n] = ParseEntry(T, Parsing(T, m, wire)[n - 1], wire[n])
  BY <1>4
<1> QED
  BY <1>5 DEF start

LEMMA ParseNothing ==
  ASSUME NEW T, NEW m
  PROVE  ParseInto(T, m, <<>>) = [ok |-> TRUE, msg |-> m]
<1>1. Len(<<>>) = 0
  OBVIOUS
<1>2. Parsing(T, m, <<>>)[0] = [ok |-> TRUE, msg |-> m]
  BY <1>1, ParsingSteps
<1> QED
  BY <1>1, <1>2 DEF ParseInto

\* The parser goes through the entries one by one.
LEMMA ParseMore ==
  ASSUME NEW T, NEW m, NEW X, NEW wire \in Seq(X), NEW e \in X
  PROVE  ParseInto(T, m, Append(wire, e)) = ParseEntry(T, ParseInto(T, m, wire), e)
<1> DEFINE w == Append(wire, e)
           l == Len(wire)
           f == Parsing(T, m, wire)
           g == Parsing(T, m, w)
           Ok == {n \in Nat : n <= l => g[n] = f[n]}
<1>1. Len(w) = l + 1 /\ l \in Nat /\ w[l + 1] = e /\ \A i \in 1 .. l : w[i] = wire[i]
  OBVIOUS
<1>2. /\ f[0] = g[0]
      /\ \A n \in 1 .. l : f[n] = ParseEntry(T, f[n - 1], wire[n])
      /\ \A n \in 1 .. l + 1 : g[n] = ParseEntry(T, g[n - 1], w[n])
  <2> HIDE DEF w
  <2>1. \A v : Len(v) \in Nat =>
          /\ Parsing(T, m, v)[0] = [ok |-> TRUE, msg |-> m]
          /\ \A n \in 1 .. Len(v) : Parsing(T, m, v)[n] = ParseEntry(T, Parsing(T, m, v)[n - 1], v[n])
    BY ParsingSteps
  <2>2. Len(wire) \in Nat /\ Len(w) \in Nat /\ Len(w) = Len(wire) + 1
    BY <1>1
  <2>3. \A n \in 1 .. Len(wire) : f[n] = ParseEntry(T, f[n - 1], wire[n])
    BY <2>1, <2>2
  <2>4. \A n \in 1 .. Len(w) : g[n] = ParseEntry(T, g[n - 1], w[n])
    BY <2>1, <2>2
  <2>5. f[0] = g[0]
    BY <2>1, <2>2
  <2> QED
    BY <2>2, <2>3, <2>4, <2>5
<1>3. ParseInto(T, m, wire) = f[l] /\ ParseInto(T, m, w) = g[l + 1]
  BY <1>1 DEF ParseInto
<1> HIDE DEF w, l, f, g
<1>4. 0 \in Ok
  BY <1>2
<1>5. ASSUME NEW n \in Nat, n \in Ok
      PROVE  n + 1 \in Ok
  <2> SUFFICES ASSUME n + 1 <= l
               PROVE  g[n + 1] = f[n + 1]
    OBVIOUS
  <2>1. n + 1 \in 1 .. l /\ n + 1 \in 1 .. l + 1 /\ (n + 1) - 1 = n /\ g[n] = f[n]
    BY <1>1, <1>5
  <2>2. f[n + 1] = ParseEntry(T, f[n], wire[n + 1]) /\ g[n + 1] = ParseEntry(T, g[n], w[n + 1])
    BY <1>2, <2>1
  <2> QED
    BY <1>1, <2>1, <2>2
<1>6. g[l] = f[l]
  <2> HIDE DEF Ok
  <2>1. l \in Ok
    BY <1>1, <1>4, <1>5, Induction
  <2> QED
    BY <2>1 DEF Ok
<1>7. g[l + 1] = ParseEntry(T, g[l], e)
  <2>1. l + 1 \in 1 .. l + 1 /\ (l + 1) - 1 = l
    BY <1>1
  <2> QED
    BY <1>1, <1>2, <2>1
<1> QED
  BY <1>3, <1>6, <1>7 DEF w
------------------------------------------------------------------------------
\* The entry of field i, and whether it is written.
EntryOf(T, m, i) == [num |-> i, wt |-> WireType(Fields[T][i].type),
                     val |-> ToWire(Fields[T][i].type, m[Fields[T][i].name])]
IsSet(T, m, i) == m[Fields[T][i].name] # Default(Fields[T][i].type)

\* The serialiser goes through the fields one by one.
LEMMA WrittenSteps ==
  ASSUME NEW T \in Types, NEW m
  PROVE  /\ Written(T, m)[0] = <<>>
         /\ \A i \in 1 .. Len(Fields[T]) :
              Written(T, m)[i] = IF IsSet(T, m, i)
                                 THEN Append(Written(T, m)[i - 1], EntryOf(T, m, i))
                                 ELSE Written(T, m)[i - 1]
<1> DEFINE More(s, i) == IF IsSet(T, m, i) THEN Append(s, EntryOf(T, m, i)) ELSE s
           Writes(f, n) == f = [i \in 0 .. n |-> IF i = 0 THEN <<>> ELSE More(f[i - 1], i)]
           Ok == {n \in Nat : \E f : Writes(f, n)}
<1>0. Written(T, m) = CHOOSE f : Writes(f, Len(Fields[T]))
  <2>1. \A f : Writes(f, Len(Fields[T])) <=>
          f = [i \in 0 .. Len(Fields[T]) |->
                IF i = 0 THEN <<>>
                ELSE IF m[Fields[T][i].name] = Default(Fields[T][i].type) THEN f[i - 1]
                ELSE Append(f[i - 1], EntryOf(T, m, i))]
    BY DEF IsSet
  <2> QED
    BY <2>1 DEF Written, EntryOf
<1> HIDE DEF More
<1>1. 0 \in Ok
  <2> DEFINE f == [k \in 0 .. 0 |-> <<>>]
  <2>1. Writes(f, 0)
    OBVIOUS
  <2> HIDE DEF f, Writes
  <2> QED
    BY <2>1
<1>2. ASSUME NEW n \in Nat, n \in Ok
      PROVE  n + 1 \in Ok
  <2>1. PICK f : Writes(f, n)
    BY <1>2
  <2> DEFINE g == [k \in 0 .. n + 1 |-> IF k <= n THEN f[k] ELSE More(f[n], n + 1)]
  <2>2. \A k \in 0 .. n : g[k] = f[k]
    OBVIOUS
  <2>3. Writes(g, n + 1)
    <3> SUFFICES ASSUME NEW k \in 0 .. n + 1
                 PROVE  g[k] = IF k = 0 THEN <<>> ELSE More(g[k - 1], k)
      OBVIOUS
    <3>1. CASE k = 0
      BY <2>1, <3>1
    <3>2. CASE k \in 1 .. n
      <4>1. g[k] = f[k] /\ g[k - 1] = f[k - 1]
        BY <2>2, <3>2
      <4>2. f[k] = More(f[k - 1], k)
        BY <2>1, <3>2
      <4> QED
        BY <3>2, <4>1, <4>2
    <3>3. CASE k = n + 1
      <4>1. g[k] = More(f[n], n + 1) /\ g[n] = f[n] /\ k - 1 = n
        BY <2>2, <3>3
      <4> QED
        BY <3>3, <4>1
    <3> QED
      BY <3>1, <3>2, <3>3
  <2> HIDE DEF g, Writes
  <2> QED
    BY <2>3
<1>3. PICK f : Writes(f, Len(Fields[T]))
  <2> HIDE DEF Ok
  <2>1. Len(Fields[T]) \in Ok
    BY <1>1, <1>2, Induction, TablesAgree
  <2> HIDE DEF Writes
  <2> QED
    BY <2>1 DEF Ok
<1>4. Writes(Written(T, m), Len(Fields[T]))
  <2> HIDE DEF Writes
  <2> QED
    BY <1>0, <1>3
<1>5. ASSUME NEW h, NEW n \in Nat, Writes(h, n)
      PROVE  h[0] = <<>> /\ \A i \in 1 .. n : h[i] = More(h[i - 1], i)
  BY <1>5
<1> HIDE DEF Writes
<1>6. /\ Written(T, m)[0] = <<>>
      /\ \A i \in 1 .. Len(Fields[T]) : Written(T, m)[i] = More(Written(T, m)[i - 1], i)
  BY <1>4, <1>5, TablesAgree
<1> QED
  BY <1>6 DEF More
------------------------------------------------------------------------------
LEMMA DefaultIsClean == Default("string") \notin Garbled
BY GarbledAssumption, Zenon DEF Default

LEMMA LargerSeq ==
  ASSUME NEW X, NEW Y, NEW s \in Seq(X)
  PROVE  s \in Seq(X \union Y) /\ s \in Seq(Y \union X)
OBVIOUS

\* The parser takes what the serialiser has written for a field.
LEMMA OwnEntry ==
  ASSUME NEW T \in Types, NEW m, IsMessage(T, m), NEW i \in 1 .. Len(Fields[T]), NEW x
  PROVE  ParseEntry(T, [ok |-> TRUE, msg |-> x], EntryOf(T, m, i)) =
           [ok |-> Fields[T][i].type # "string" \/ m[Fields[T][i].name] \notin Garbled,
            msg |-> [x EXCEPT ![Fields[T][i].name] = m[Fields[T][i].name]]]
<1> DEFINE e == EntryOf(T, m, i)
           field == Fields[T][i]
           acc == [ok |-> TRUE, msg |-> x]
<1>1. e.num = i /\ e.wt = WireType(field.type) /\ e.val = ToWire(field.type, m[field.name])
  BY DEF EntryOf
<1>2. Tags[T][i] = field /\ i \in DOMAIN Tags[T] /\ field \in Members[T]
      /\ field.type \in {"string", "int32", "int64"}
  BY TablesAgree
<1>3. Holds(field.type, m[field.name])
  BY <1>2 DEF IsMessage
<1>4. FromWire(field.type, e.val) = m[field.name]
  <2> HIDE DEF field
  <2> QED
    BY <1>1, <1>2, <1>3, ValueOnWire
<1>5. field.type = "string" => e.val = m[field.name]
  BY <1>1 DEF ToWire
<1>6. Takes(T, e)
  BY <1>1, <1>2 DEF Takes
<1> HIDE DEF e, field
<1>7. ParseEntry(T, acc, e) =
        [ok |-> field.type # "string" \/ e.val \notin Garbled,
         msg |-> [x EXCEPT ![field.name] = FromWire(field.type, e.val)]]
  BY <1>1, <1>2, <1>6 DEF ParseEntry
<1>8. (field.type # "string" \/ e.val \notin Garbled)
        <=> (field.type # "string" \/ m[field.name] \notin Garbled)
  BY <1>5
<1> QED
  BY <1>4, <1>7, <1>8 DEF e, field

\* An object to parse into.
Object(T, o) == /\ o = [f \in Names(T) \union {"unknown"} |-> o[f]]
                /\ \E X : o["unknown"] \in Seq(X)

\* The object o when i fields of m have been parsed into it.
Merged(T, o, m, i) ==
  [f \in Names(T) \union {"unknown"} |->
     IF \E j \in 1 .. i : f = Fields[T][j].name /\ IsSet(T, m, j) THEN m[f] ELSE o[f]]

CleanUpTo(T, m, i) == \A j \in 1 .. i : Fields[T][j].type = "string" =>
                                          m[Fields[T][j].name] \notin Garbled

OwnEntries(T, m) == {EntryOf(T, m, j) : j \in 1 .. Len(Fields[T])}

LEMMA FieldSkipped ==
  ASSUME NEW T \in Types, NEW m, NEW o, NEW i \in Nat, i + 1 <= Len(Fields[T]),
         ~IsSet(T, m, i + 1)
  PROVE  Merged(T, o, m, i) = Merged(T, o, m, i + 1)
<1>0. \A j \in 1 .. i + 1 : j \in 1 .. i \/ j = i + 1
  OBVIOUS
<1>1. \A f \in Names(T) \union {"unknown"} :
        (\E j \in 1 .. i + 1 : f = Fields[T][j].name /\ IsSet(T, m, j))
          <=> \E j \in 1 .. i : f = Fields[T][j].name /\ IsSet(T, m, j)
  BY <1>0
<1> QED
  BY <1>1 DEF Merged

LEMMA FieldTaken ==
  ASSUME NEW T \in Types, NEW m, NEW o, NEW i \in Nat, i + 1 <= Len(Fields[T])
  PROVE  /\ IsSet(T, m, i + 1) =>
              [Merged(T, o, m, i) EXCEPT ![Fields[T][i + 1].name] = m[Fields[T][i + 1].name]]
                = Merged(T, o, m, i + 1)
         /\ CleanUpTo(T, m, i + 1) <=>
              /\ CleanUpTo(T, m, i)
              /\ Fields[T][i + 1].type # "string" \/ m[Fields[T][i + 1].name] \notin Garbled
<1> DEFINE n == Fields[T][i + 1].name
           a == Merged(T, o, m, i)
           b == Merged(T, o, m, i + 1)
<1>0. i + 1 \in 1 .. Len(Fields[T]) /\ \A j \in 1 .. i + 1 : j \in 1 .. i \/ j = i + 1
  BY TablesAgree
<1>1. \A f \in Names(T) \union {"unknown"} :
        (\E j \in 1 .. i + 1 : f = Fields[T][j].name /\ IsSet(T, m, j))
          <=> \/ \E j \in 1 .. i : f = Fields[T][j].name /\ IsSet(T, m, j)
              \/ f = n /\ IsSet(T, m, i + 1)
  BY <1>0
<1>2. ASSUME IsSet(T, m, i + 1)
      PROVE  [a EXCEPT ![n] = m[n]] = b
  <2> HIDE DEF n
  <2>1. \A f \in Names(T) \union {"unknown"} :
          b[f] = IF f = n THEN m[n] ELSE a[f]
    BY <1>1, <1>2 DEF Merged
  <2>2. b = [f \in Names(T) \union {"unknown"} |-> b[f]]
    BY DEF Merged
  <2>3. a = [f \in Names(T) \union {"unknown"} |-> a[f]]
    BY DEF Merged
  <2> HIDE DEF a, b
  <2> QED
    BY <2>1, <2>2, <2>3
<1>3. CleanUpTo(T, m, i + 1) <=>
        /\ CleanUpTo(T, m, i)
        /\ Fields[T][i + 1].type # "string" \/ m[n] \notin Garbled
  BY <1>0 DEF CleanUpTo
<1> QED
  BY <1>2, <1>3
------------------------------------------------------------------------------
\* Parsing what has been written of i fields of m, on top of an object: their
\* values are in it, if all the texts among them are UTF-8.
LEMMA ParseFields ==
  ASSUME NEW T \in Types, NEW m, IsMessage(T, m), NEW o, Object(T, o),
         NEW i \in 0 .. Len(Fields[T])
  PROVE  /\ Written(T, m)[i] \in Seq(OwnEntries(T, m))
         /\ CleanUpTo(T, m, i) =>
              ParseInto(T, o, Written(T, m)[i]) = [ok |-> TRUE, msg |-> Merged(T, o, m, i)]
         /\ ~CleanUpTo(T, m, i) => ~ParseInto(T, o, Written(T, m)[i]).ok
<1> DEFINE W(k) == Written(T, m)[k]
           P(k) == ParseInto(T, o, W(k))
           Good(k) == /\ W(k) \in Seq(OwnEntries(T, m))
                      /\ CleanUpTo(T, m, k) => P(k) = [ok |-> TRUE, msg |-> Merged(T, o, m, k)]
                      /\ ~CleanUpTo(T, m, k) => ~P(k).ok
           Ok == {k \in Nat : k <= Len(Fields[T]) => Good(k)}
<1>1. 0 \in Ok
  <2>1. W(0) = <<>>
    BY WrittenSteps
  <2>2. Merged(T, o, m, 0) = o
    <3>1. o = [f \in Names(T) \union {"unknown"} |-> o[f]]
      BY DEF Object
    <3>2. Merged(T, o, m, 0) = [f \in Names(T) \union {"unknown"} |-> o[f]]
      BY DEF Merged
    <3> QED
      BY <3>1, <3>2
  <2>3. CleanUpTo(T, m, 0)
    BY DEF CleanUpTo
  <2>4. P(0) = [ok |-> TRUE, msg |-> o]
    BY <2>1, ParseNothing, Zenon
  <2>5. W(0) \in Seq(OwnEntries(T, m))
    BY <2>1
  <2> HIDE DEF W, P
  <2> QED
    BY <2>2, <2>3, <2>4, <2>5
<1>2. ASSUME NEW n \in Nat, n \in Ok
      PROVE  n + 1 \in Ok
  <2> SUFFICES ASSUME n + 1 <= Len(Fields[T])
               PROVE  Good(n + 1)
    OBVIOUS
  <2> DEFINE e == EntryOf(T, m, n + 1)
             field == Fields[T][n + 1]
  <2>1. n + 1 \in 1 .. Len(Fields[T]) /\ (n + 1) - 1 = n /\ n <= Len(Fields[T])
    BY TablesAgree
  <2>2. Good(n)
    BY <1>2, <2>1
  <2>3. e \in OwnEntries(T, m)
    BY <2>1 DEF OwnEntries
  <2>4. W(n + 1) = IF IsSet(T, m, n + 1) THEN Append(W(n), e) ELSE W(n)
    BY <2>1, WrittenSteps
  <2> HIDE DEF e
  <2>5. CASE IsSet(T, m, n + 1)
    <3>1. W(n + 1) = Append(W(n), e)
      BY <2>4, <2>5
    <3>2. W(n) \in Seq(OwnEntries(T, m))
      BY <2>2
    <3> HIDE DEF W
    <3>3. W(n + 1) \in Seq(OwnEntries(T, m))
      BY <2>3, <3>1, <3>2
    <3>4. P(n + 1) = ParseEntry(T, P(n), e)
      <4> DEFINE X == OwnEntries(T, m)
                 w == W(n)
      <4>1. w \in Seq(X) /\ e \in X
        BY <2>3, <3>2
      <4> HIDE DEF X, w
      <4>2. ParseInto(T, o, Append(w, e)) = ParseEntry(T, ParseInto(T, o, w), e)
        BY <4>1, ParseMore
      <4> QED
        BY <3>1, <4>2 DEF w
    <3>5. CleanUpTo(T, m, n + 1) <=> /\ CleanUpTo(T, m, n)
                                     /\ field.type # "string" \/ m[field.name] \notin Garbled
      BY FieldTaken
    <3>6. [Merged(T, o, m, n) EXCEPT ![field.name] = m[field.name]] = Merged(T, o, m, n + 1)
      BY <2>5, FieldTaken
    <3>7. CASE CleanUpTo(T, m, n)
      <4>1. P(n) = [ok |-> TRUE, msg |-> Merged(T, o, m, n)]
        BY <2>2, <3>7
      <4>2. ParseEntry(T, [ok |-> TRUE, msg |-> Merged(T, o, m, n)], e)
              = [ok |-> field.type # "string" \/ m[field.name] \notin Garbled,
                 msg |-> [Merged(T, o, m, n) EXCEPT ![field.name] = m[field.name]]]
        BY <2>1, OwnEntry DEF e
      <4> HIDE DEF P, field
      <4>3. P(n + 1) = [ok |-> field.type # "string" \/ m[field.name] \notin Garbled,
                        msg |-> Merged(T, o, m, n + 1)]
        BY <3>4, <3>6, <4>1, <4>2
      <4> DEFINE fine == field.type # "string" \/ m[field.name] \notin Garbled
      <4>4. CleanUpTo(T, m, n + 1) <=> fine
        BY <3>5, <3>7 DEF field
      <4>5. fine => P(n + 1) = [ok |-> TRUE, msg |-> Merged(T, o, m, n + 1)]
        BY <4>3 DEF fine
      <4>6. ~fine => P(n + 1) = [ok |-> FALSE, msg |-> Merged(T, o, m, n + 1)]
        BY <4>3
      <4> HIDE DEF fine
      <4> QED
        BY <3>3, <4>4, <4>5, <4>6
    <3>8. CASE ~CleanUpTo(T, m, n)
      <4>1. ~P(n).ok
        BY <2>2, <3>8
      <4> HIDE DEF P
      <4>2. P(n + 1) = P(n)
        BY <3>4, <4>1 DEF ParseEntry
      <4> QED
        BY <3>3, <3>5, <3>8, <4>1, <4>2
    <3> QED
      BY <3>7, <3>8
  <2>6. CASE ~IsSet(T, m, n + 1)
    <3>1. W(n + 1) = W(n)
      BY <2>4, <2>6
    <3>2. Merged(T, o, m, n) = Merged(T, o, m, n + 1)
      BY <2>6, FieldSkipped
    <3>4. CleanUpTo(T, m, n + 1) <=> CleanUpTo(T, m, n)
      <4>1. CleanUpTo(T, m, n + 1) <=> /\ CleanUpTo(T, m, n)
                                       /\ field.type # "string" \/ m[field.name] \notin Garbled
        BY FieldTaken
      <4>2. field.type = "string" => m[field.name] \notin Garbled
        BY <2>6, DefaultIsClean DEF IsSet
      <4> QED
        BY <4>1, <4>2
    <3> HIDE DEF W
    <3>3. P(n + 1) = P(n)
      BY <3>1
    <3> HIDE DEF P
    <3> QED
      BY <2>2, <3>1, <3>2, <3>3, <3>4
  <2> QED
    BY <2>5, <2>6
<1> HIDE DEF Ok
<1>3. i \in Ok
  BY <1>1, <1>2, Induction
<1>4. i <= Len(Fields[T])
  BY TablesAgree
<1>5. Good(i)
  <2> HIDE DEF Good
  <2> QED
    BY <1>3, <1>4 DEF Ok
<1> QED
  BY <1>5
------------------------------------------------------------------------------
\* The object x with the entries u, that no field takes, put to its others.
Kept(x, u) == [x EXCEPT !["unknown"] = x["unknown"] \o u]

\* The parser keeps an entry that no field takes.
LEMMA EntryKept ==
  ASSUME NEW T, NEW x, Object(T, x), NEW X, x["unknown"] \in Seq(X), NEW p \in Seq(X),
         NEW e \in X, ~Takes(T, e)
  PROVE  ParseEntry(T, [ok |-> TRUE, msg |-> Kept(x, p)], e)
           = [ok |-> TRUE, msg |-> Kept(x, Append(p, e))]
<1> DEFINE y == Kept(x, p)
           z == Kept(x, Append(p, e))
           D == Names(T) \union {"unknown"}
           acc == [ok |-> TRUE, msg |-> y]
<1>1. /\ y = [f \in D |-> y[f]] /\ \A f \in D : y[f] = IF f = "unknown" THEN x["unknown"] \o p ELSE x[f]
      /\ z = [f \in D |-> z[f]]
      /\ \A f \in D : z[f] = IF f = "unknown" THEN x["unknown"] \o Append(p, e) ELSE x[f]
  BY DEF Object, Kept
<1>2. x["unknown"] \o Append(p, e) = Append(x["unknown"] \o p, e)
  <2> DEFINE xs == x["unknown"]
  <2> HIDE DEF xs
  <2>1. xs \in Seq(X)
    BY DEF xs
  <2>2. xs \o Append(p, e) = Append(xs \o p, e)
    BY <2>1, AppendToConcat
  <2> QED
    BY <2>2 DEF xs
<1> HIDE DEF y, z
<1>3. "unknown" \in D
  OBVIOUS
<1>4. [y EXCEPT !["unknown"] = Append(y["unknown"], e)] = z
  <2> HIDE DEF D
  <2> QED
    BY <1>1, <1>2, <1>3
<1>5. ParseEntry(T, acc, e) = [ok |-> TRUE, msg |-> [y EXCEPT !["unknown"] = Append(y["unknown"], e)]]
  BY DEF ParseEntry
<1> QED
  BY <1>4, <1>5 DEF y, z

\* Entries that no field takes, after what has been parsed into x.
LEMMA ParseUnknown ==
  ASSUME NEW T, NEW m, NEW X, NEW wire \in Seq(X), NEW u \in Seq(X),
         \A i \in 1 .. Len(u) : ~Takes(T, u[i]),
         NEW x, Object(T, x), ParseInto(T, m, wire) = [ok |-> TRUE, msg |-> x]
  PROVE  ParseInto(T, m, wire \o u) = [ok |-> TRUE, msg |-> Kept(x, u)]
<1> PICK Y : x["unknown"] \in Seq(Y)
  BY DEF Object
<1> DEFINE Z == X \union Y
           P(s) == ParseInto(T, m, wire \o s)
           Good(n) == /\ First(u, n) \in Seq(Z) /\ wire \o First(u, n) \in Seq(Z)
                      /\ P(First(u, n)) = [ok |-> TRUE, msg |-> Kept(x, First(u, n))]
           Ok == {n \in Nat : n <= Len(u) => Good(n)}
<1>0. wire \in Seq(Z) /\ u \in Seq(Z) /\ x["unknown"] \in Seq(Z)
  BY LargerSeq
<1> HIDE DEF Z
<1>1. 0 \in Ok
  <2>1. First(u, 0) = <<>> /\ wire \o <<>> = wire /\ x["unknown"] \o <<>> = x["unknown"]
    BY <1>0, FirstGrows, ConcatNothing
  <2>2. Kept(x, <<>>) = x
    BY <2>1 DEF Kept, Object
  <2>3. <<>> \in Seq(Z)
    OBVIOUS
  <2>4. P(<<>>) = [ok |-> TRUE, msg |-> Kept(x, <<>>)]
    BY <2>1, <2>2, Zenon
  <2>5. First(u, 0) \in Seq(Z) /\ wire \o First(u, 0) \in Seq(Z)
    BY <1>0, <2>1, <2>3
  <2> HIDE DEF P
  <2> QED
    BY <2>1, <2>4, <2>5
<1>2. ASSUME NEW n \in Nat, n \in Ok
      PROVE  n + 1 \in Ok
  <2> SUFFICES ASSUME n + 1 <= Len(u)
               PROVE  Good(n + 1)
    OBVIOUS
  <2> DEFINE p == First(u, n)
             e == u[n + 1]
  <2>1. n + 1 \in 1 .. Len(u) /\ (n + 1) - 1 = n /\ n <= Len(u)
    OBVIOUS
  <2>2. Good(n)
    BY <1>2, <2>1
  <2>3. e \in Z /\ First(u, n + 1) = Append(p, e) /\ ~Takes(T, e)
    BY <1>0, <2>1, FirstGrows
  <2>4. p \in Seq(Z) /\ wire \o p \in Seq(Z) /\ P(p) = [ok |-> TRUE, msg |-> Kept(x, p)]
    BY <2>2
  <2> HIDE DEF p, e
  <2>5. wire \o Append(p, e) = Append(wire \o p, e) /\ Append(p, e) \in Seq(Z)
        /\ Append(wire \o p, e) \in Seq(Z)
    BY <1>0, <2>3, <2>4, AppendToConcat
  <2>6. ParseInto(T, m, Append(wire \o p, e)) = ParseEntry(T, ParseInto(T, m, wire \o p), e)
    <3> DEFINE w == wire \o p
    <3>1. w \in Seq(Z)
      BY <2>4
    <3> HIDE DEF w
    <3>2. ParseInto(T, m, Append(w, e)) = ParseEntry(T, ParseInto(T, m, w), e)
      BY <2>3, <3>1, ParseMore
    <3> QED
      BY <3>2 DEF w
  <2>7. ParseEntry(T, [ok |-> TRUE, msg |-> Kept(x, p)], e)
          = [ok |-> TRUE, msg |-> Kept(x, Append(p, e))]
    BY <1>0, <2>3, <2>4, EntryKept
  <2>8. P(Append(p, e)) = [ok |-> TRUE, msg |-> Kept(x, Append(p, e))]
    BY <2>4, <2>5, <2>6, <2>7, Zenon
  <2> HIDE DEF P
  <2> QED
    BY <2>3, <2>5, <2>8
<1> HIDE DEF Ok, P, Good
<1>3. Len(u) \in Ok /\ Len(u) \in Nat
  BY <1>1, <1>2, Induction
<1>4. First(u, Len(u)) = u
  BY FirstGrows
<1>5. Good(Len(u))
  BY <1>3 DEF Ok
<1> QED
  BY <1>4, <1>5 DEF Good, P

\* A parser that has given up does not go on.
LEMMA ParseGivenUp ==
  ASSUME NEW T, NEW m, NEW X, NEW wire \in Seq(X), NEW u \in Seq(X),
         ~ParseInto(T, m, wire).ok
  PROVE  ~ParseInto(T, m, wire \o u).ok
<1> DEFINE P(s) == ParseInto(T, m, wire \o s)
           Good(n) == /\ First(u, n) \in Seq(X) /\ wire \o First(u, n) \in Seq(X)
                      /\ ~P(First(u, n)).ok
           Ok == {n \in Nat : n <= Len(u) => Good(n)}
<1>1. 0 \in Ok
  <2>1. First(u, 0) = <<>> /\ wire \o <<>> = wire
    BY FirstGrows, ConcatNothing
  <2>2. ~P(<<>>).ok
    BY <2>1, Zenon
  <2>3. First(u, 0) \in Seq(X) /\ wire \o First(u, 0) \in Seq(X)
    <3>1. <<>> \in Seq(X)
      OBVIOUS
    <3> QED
      BY <2>1, <3>1
  <2> HIDE DEF P
  <2> QED
    BY <2>1, <2>2, <2>3
<1>2. ASSUME NEW n \in Nat, n \in Ok
      PROVE  n + 1 \in Ok
  <2> SUFFICES ASSUME n + 1 <= Len(u)
               PROVE  Good(n + 1)
    OBVIOUS
  <2> DEFINE p == First(u, n)
             e == u[n + 1]
  <2>1. n + 1 \in 1 .. Len(u) /\ (n + 1) - 1 = n /\ n <= Len(u)
    OBVIOUS
  <2>2. Good(n)
    BY <1>2, <2>1
  <2>3. e \in X /\ First(u, n + 1) = Append(p, e)
    BY <2>1, FirstGrows
  <2>4. p \in Seq(X) /\ wire \o p \in Seq(X) /\ ~ParseInto(T, m, wire \o p).ok
    BY <2>2
  <2> HIDE DEF p, e
  <2>5. wire \o Append(p, e) = Append(wire \o p, e) /\ Append(p, e) \in Seq(X)
        /\ Append(wire \o p, e) \in Seq(X)
    BY <2>3, <2>4, AppendToConcat
  <2>6. ParseInto(T, m, Append(wire \o p, e)) = ParseEntry(T, ParseInto(T, m, wire \o p), e)
    <3> DEFINE w == wire \o p
    <3>1. w \in Seq(X)
      BY <2>4
    <3> HIDE DEF w
    <3>2. ParseInto(T, m, Append(w, e)) = ParseEntry(T, ParseInto(T, m, w), e)
      BY <2>3, <3>1, ParseMore
    <3> QED
      BY <3>2 DEF w
  <2>7. ParseEntry(T, ParseInto(T, m, wire \o p), e) = ParseInto(T, m, wire \o p)
    BY <2>4 DEF ParseEntry
  <2>8. ~P(Append(p, e)).ok
    BY <2>4, <2>5, <2>6, <2>7, Zenon
  <2> HIDE DEF P
  <2> QED
    BY <2>3, <2>5, <2>8
<1> HIDE DEF Ok, P, Good
<1>3. Len(u) \in Ok /\ Len(u) \in Nat
  BY <1>1, <1>2, Induction
<1>4. First(u, Len(u)) = u
  BY FirstGrows
<1>5. Good(Len(u))
  BY <1>3 DEF Ok
<1> QED
  BY <1>4, <1>5 DEF Good, P
------------------------------------------------------------------------------
LEMMA MessageIsObject ==
  ASSUME NEW T \in Types, NEW m, IsMessage(T, m)
  PROVE  Object(T, m)
BY DEF IsMessage, Object, Names

LEMMA NewIsObject ==
  ASSUME NEW T \in Types
  PROVE  Object(T, New(T))
<1>1. New(T) = [f \in Names(T) \union {"unknown"} |-> New(T)[f]] /\ New(T)["unknown"] = <<>>
  BY NewMessage
<1>2. <<>> \in Seq({})
  OBVIOUS
<1> QED
  BY <1>1, <1>2 DEF Object

\* The names of a class are those of its fields, each of one field.
LEMMA FieldOfName ==
  ASSUME NEW T \in Types, NEW f \in Names(T)
  PROVE  /\ f # "unknown"
         /\ \E i \in 1 .. Len(Fields[T]) :
              /\ f = Fields[T][i].name
              /\ \A j \in 1 .. Len(Fields[T]) : f = Fields[T][j].name => j = i
BY TablesAgree DEF Names

LEMMA AllClean ==
  ASSUME NEW T \in Types, NEW m
  PROVE  Clean(T, m) <=> CleanUpTo(T, m, Len(Fields[T]))
BY TablesAgree DEF Clean, CleanUpTo

\* All the fields of m, and then its unknown entries, are what merging adds.
LEMMA MergedIsMerge ==
  ASSUME NEW T \in Types, NEW m, IsMessage(T, m), NEW o, Object(T, o)
  PROVE  /\ Object(T, Merged(T, o, m, Len(Fields[T])))
         /\ Kept(Merged(T, o, m, Len(Fields[T])), m["unknown"]) = MergeFrom(T, o, m)
<1> DEFINE N == Len(Fields[T])
           D == Names(T) \union {"unknown"}
           x == Merged(T, o, m, N)
           k == Kept(x, m["unknown"])
           g == MergeFrom(T, o, m)
<1>1. m = [f \in D |-> m[f]] /\ o = [f \in D |-> o[f]]
  BY DEF IsMessage, Object, Names
<1>2. x = [f \in D |-> x[f]]
      /\ \A f \in D : x[f] = IF \E j \in 1 .. N : f = Fields[T][j].name /\ IsSet(T, m, j)
                             THEN m[f] ELSE o[f]
  BY DEF Merged
<1>3. x["unknown"] = o["unknown"]
  BY <1>2, TablesAgree
<1>4. Object(T, x)
  <2> HIDE DEF x
  <2> QED
    BY <1>2, <1>3 DEF Object
<1>5. k = [f \in D |-> k[f]]
      /\ \A f \in D : k[f] = IF f = "unknown" THEN o["unknown"] \o m["unknown"] ELSE x[f]
  <2> HIDE DEF x
  <2> QED
    BY <1>2, <1>3 DEF Kept
<1>6. g = [f \in D |-> g[f]]
      /\ \A f \in D : g[f] = IF f = "unknown" THEN o[f] \o m[f]
                             ELSE IF m[f] # New(T)[f] THEN m[f] ELSE o[f]
  <2>1. DOMAIN o = D /\ DOMAIN m = D
    BY <1>1
  <2> HIDE DEF D
  <2> QED
    BY <2>1 DEF MergeFrom
<1> HIDE DEF k, g, x
<1>7. ASSUME NEW f \in Names(T)
      PROVE  k[f] = g[f]
  <2>1. f # "unknown" /\ f \in D
    BY FieldOfName
  <2>2. PICK i \in 1 .. N : /\ f = Fields[T][i].name
                            /\ \A j \in 1 .. N : f = Fields[T][j].name => j = i
    BY FieldOfName
  <2>3. New(T)[f] = Default(Fields[T][i].type)
    BY <2>2, NewMessage
  <2>4. IsSet(T, m, i) <=> m[f] # New(T)[f]
    BY <2>2, <2>3 DEF IsSet
  <2>5. (\E j \in 1 .. N : f = Fields[T][j].name /\ IsSet(T, m, j)) <=> m[f] # New(T)[f]
    BY <2>2, <2>4
  <2> HIDE DEF N, D
  <2>6. k[f] = IF m[f] # New(T)[f] THEN m[f] ELSE o[f]
    BY <1>2, <1>5, <2>1, <2>5
  <2> QED
    BY <1>6, <2>1, <2>6
<1>8. k["unknown"] = g["unknown"]
  BY <1>5, <1>6
<1>9. \A f \in D : k[f] = g[f]
  BY <1>7, <1>8
<1>10. k = g
  <2> HIDE DEF D
  <2> QED
    BY <1>5, <1>6, <1>9
<1> QED
  BY <1>4, <1>10 DEF x, k, g

\* A copy is the message, unknown entries included.
LEMMA CopyIsTheMessage ==
  ASSUME NEW T \in Types, NEW m, IsMessage(T, m)
  PROVE  MergeFrom(T, New(T), m) = m /\ CopyFrom(T, m) = m
<1> DEFINE D == Names(T) \union {"unknown"}
           o == New(T)
<1>1. m = [f \in D |-> m[f]] /\ o = [f \in D |-> o[f]] /\ o["unknown"] = <<>>
  BY NewMessage DEF IsMessage, Names
<1>2. <<>> \o m["unknown"] = m["unknown"]
  <2> DEFINE u == m["unknown"]
             X == {u[i] : i \in DOMAIN u}
  <2>1. u \in Seq(X)
    BY DEF IsMessage
  <2> HIDE DEF u, X
  <2>2. <<>> \o u = u
    BY <2>1, ConcatNothing
  <2> QED
    BY <2>2 DEF u
<1>3. MergeFrom(T, o, m) = [f \in D |-> IF f = "unknown" THEN o[f] \o m[f]
                                        ELSE IF m[f] # New(T)[f] THEN m[f] ELSE o[f]]
  <2>1. DOMAIN o = D /\ DOMAIN m = D
    BY <1>1
  <2> HIDE DEF D, o
  <2> QED
    BY <2>1 DEF MergeFrom
<1>4. \A f \in D : (IF f = "unknown" THEN o[f] \o m[f]
                    ELSE IF m[f] # New(T)[f] THEN m[f] ELSE o[f]) = m[f]
  BY <1>1, <1>2
<1>5. MergeFrom(T, o, m) = m
  <2> HIDE DEF D, o
  <2> QED
    BY <1>1, <1>3, <1>4
<1> QED
  BY <1>5 DEF CopyFrom

\* Parsing what has been serialised merges it, unless a text is not UTF-8.
THEOREM RoundTrip ==
  ASSUME NEW T \in Types, NEW m, IsMessage(T, m), NEW o, Object(T, o)
  PROVE  /\ Clean(T, m) =>
              ParseInto(T, o, Serialize(T, m)) = [ok |-> TRUE, msg |-> MergeFrom(T, o, m)]
         /\ ~Clean(T, m) => ~ParseInto(T, o, Serialize(T, m)).ok
<1> DEFINE N == Len(Fields[T])
           w == Written(T, m)[N]
           u == m["unknown"]
           U == {u[i] : i \in DOMAIN u}
           X == OwnEntries(T, m) \union U
           x == Merged(T, o, m, N)
<1>1. N \in 0 .. Len(Fields[T])
  BY TablesAgree
<1>2. /\ w \in Seq(OwnEntries(T, m))
      /\ CleanUpTo(T, m, N) => ParseInto(T, o, w) = [ok |-> TRUE, msg |-> x]
      /\ ~CleanUpTo(T, m, N) => ~ParseInto(T, o, w).ok
  <2> HIDE DEF N
  <2> QED
    BY <1>1, ParseFields
<1>3. u \in Seq(U) /\ \A i \in 1 .. Len(u) : ~Takes(T, u[i])
  BY DEF IsMessage
<1>4. Serialize(T, m) = w \o u
  BY DEF Serialize
<1>5. Object(T, x) /\ Kept(x, u) = MergeFrom(T, o, m)
  BY MergedIsMerge
<1> HIDE DEF w, u, U, x
<1>6. w \in Seq(X) /\ u \in Seq(X)
  <2> DEFINE E == OwnEntries(T, m)
  <2> HIDE DEF E
  <2>1. w \in Seq(E)
    BY <1>2 DEF E
  <2>2. w \in Seq(E \union U) /\ u \in Seq(E \union U)
    BY <1>3, <2>1, LargerSeq
  <2> QED
    BY <2>2 DEF E
<1> HIDE DEF X
<1>7. ASSUME Clean(T, m)
      PROVE  ParseInto(T, o, w \o u) = [ok |-> TRUE, msg |-> MergeFrom(T, o, m)]
  <2>1. ParseInto(T, o, w) = [ok |-> TRUE, msg |-> x]
    BY <1>2, <1>7, AllClean
  <2>2. ParseInto(T, o, w \o u) = [ok |-> TRUE, msg |-> Kept(x, u)]
    BY <1>3, <1>5, <1>6, <2>1, ParseUnknown
  <2> QED
    BY <1>5, <2>2
<1>8. ASSUME ~Clean(T, m)
      PROVE  ~ParseInto(T, o, w \o u).ok
  <2>1. ~ParseInto(T, o, w).ok
    BY <1>2, <1>8, AllClean
  <2> QED
    BY <1>6, <2>1, ParseGivenUp
<1> QED
  BY <1>4, <1>7, <1>8
------------------------------------------------------------------------------
\* What ByteSizeLong adds for a value.
LEMMA SizeOfText ==
  ASSUME NEW v
  PROVE  FieldSize("string", v) = IF v = Default("string") THEN 0 ELSE 3
BY Zenon DEF FieldSize, Default

LEMMA SizeOfNumber ==
  ASSUME NEW type, type # "string", NEW v
  PROVE  FieldSize(type, v) = IF v = Default(type) THEN 0 ELSE IF v < 0 THEN 11 ELSE 2
BY Zenon DEF FieldSize, Default

\* It is what the entry takes, if the field is written.
LEMMA SizeOfField ==
  ASSUME NEW T \in Types, NEW m, IsMessage(T, m), NEW i \in 1 .. Len(Fields[T])
  PROVE  FieldSize(Fields[T][i].type, m[Fields[T][i].name]) =
           IF IsSet(T, m, i) THEN EntrySize(EntryOf(T, m, i)) ELSE 0
<1> DEFINE type == Fields[T][i].type
           v == m[Fields[T][i].name]
           e == EntryOf(T, m, i)
<1>1. Fields[T][i] \in Members[T] /\ type \in {"string", "int32", "int64"}
  BY TablesAgree
<1>2. Holds(type, v)
  BY <1>1 DEF IsMessage
<1>3. e.wt = WireType(type) /\ e.val = ToWire(type, v)
  BY DEF EntryOf
<1>4. IsSet(T, m, i) <=> v # Default(type)
  BY DEF IsSet
<1> HIDE DEF type, v, e
<1>5. CASE type = "string"
  <2>1. EntrySize(e) = 3
    BY <1>3, <1>5 DEF EntrySize, WireType
  <2>2. FieldSize(type, v) = IF v = Default(type) THEN 0 ELSE 3
    BY <1>5, SizeOfText
  <2> QED
    BY <1>4, <2>1, <2>2 DEF type, v, e
<1>6. CASE type # "string"
  <2>1. 2 * e.val >= High <=> v < 0
    BY <1>1, <1>2, <1>3, <1>6, ValueOnWire
  <2>2. EntrySize(e) = IF v < 0 THEN 11 ELSE 2
    BY <1>3, <1>6, <2>1 DEF EntrySize, WireType
  <2>3. FieldSize(type, v) = IF v = Default(type) THEN 0 ELSE IF v < 0 THEN 11 ELSE 2
    BY <1>6, SizeOfNumber
  <2> QED
    BY <1>4, <2>2, <2>3 DEF type, v, e
<1> QED
  BY <1>5, <1>6

\* A buffer that is sized by ByteSizeLong holds exactly what is serialised.
THEOREM SizesMatch ==
  ASSUME NEW T \in Types, NEW m, IsMessage(T, m)
  PROVE  ByteSizeLong(T, m) = WireSize(Serialize(T, m))
<1> DEFINE N == Len(Fields[T])
           sizes == [i \in 1 .. N |-> FieldSize(Fields[T][i].type, m[Fields[T][i].name])]
           W(k) == Written(T, m)[k]
           E == OwnEntries(T, m)
           u == m["unknown"]
           U == {u[i] : i \in DOMAIN u}
           Good(k) == W(k) \in Seq(E) /\ Sums(sizes)[k] = WireSize(W(k))
           Ok == {k \in Nat : k <= N => Good(k)}
<1>1. N \in Nat /\ \A i \in 1 .. N : sizes[i] = IF IsSet(T, m, i) THEN EntrySize(EntryOf(T, m, i)) ELSE 0
  BY SizeOfField, TablesAgree
<1>2. Len(sizes) = N
  <2>1. \A type, v : FieldSize(type, v) \in Nat
    <3>1. \A type, v : FieldSize(type, v) \in {0, 2, 3, 11}
      BY Zenon DEF FieldSize
    <3> QED
      BY <3>1
  <2>2. sizes \in Seq(Nat)
    BY <1>1, <2>1
  <2> QED
    BY <1>1, <2>2
<1>3. Sums(sizes)[0] = 0 /\ \A i \in 1 .. N : Sums(sizes)[i] = Sums(sizes)[i - 1] + sizes[i]
  <2> HIDE DEF sizes
  <2> QED
    BY <1>1, <1>2, SumsSteps
<1>4. W(0) = <<>> /\ \A i \in 1 .. N : W(i) = IF IsSet(T, m, i) THEN Append(W(i - 1), EntryOf(T, m, i))
                                              ELSE W(i - 1)
  BY WrittenSteps
<1>5. \A i \in 1 .. N : EntryOf(T, m, i) \in E
  BY DEF OwnEntries
<1>6. ByteSizeLong(T, m) = Sums(sizes)[N] + WireSize(u) /\ Serialize(T, m) = W(N) \o u
  BY DEF ByteSizeLong, Serialize
<1> HIDE DEF sizes, W, E, N
<1>7. 0 \in Ok
  <2>1. <<>> \in Seq(E)
    OBVIOUS
  <2> QED
    BY <1>3, <1>4, <2>1, WireSizeOfNothing
<1>8. ASSUME NEW n \in Nat, n \in Ok
      PROVE  n + 1 \in Ok
  <2> SUFFICES ASSUME n + 1 <= N
               PROVE  Good(n + 1)
    OBVIOUS
  <2> DEFINE e == EntryOf(T, m, n + 1)
             w == W(n)
  <2>1. n + 1 \in 1 .. N /\ (n + 1) - 1 = n /\ n <= N
    BY <1>1
  <2>2. w \in Seq(E) /\ Sums(sizes)[n] = WireSize(w)
    BY <1>8, <2>1
  <2>3. W(n + 1) = (IF IsSet(T, m, n + 1) THEN Append(w, e) ELSE w) /\ e \in E
    BY <1>4, <1>5, <2>1
  <2>4. Sums(sizes)[n + 1] = Sums(sizes)[n] + IF IsSet(T, m, n + 1) THEN EntrySize(e) ELSE 0
    BY <1>1, <1>3, <2>1
  <2> HIDE DEF e, w
  <2>5. /\ WireSize(w) \in Nat
        /\ WireSize(Append(w, e)) = WireSize(w) + EntrySize(e)
    BY <2>2, <2>3, WireSizeOfMore
  <2>6. CASE IsSet(T, m, n + 1)
    <3>1. W(n + 1) = Append(w, e) /\ Append(w, e) \in Seq(E)
      BY <2>2, <2>3, <2>6
    <3>2. Sums(sizes)[n + 1] = WireSize(Append(w, e))
      BY <2>2, <2>4, <2>5, <2>6
    <3> QED
      BY <3>1, <3>2
  <2>7. CASE ~IsSet(T, m, n + 1)
    BY <2>2, <2>3, <2>4, <2>5, <2>7
  <2> QED
    BY <2>6, <2>7
<1> HIDE DEF Ok, Good
<1>9. N \in Ok
  BY <1>1, <1>7, <1>8, Induction
<1>10. Good(N)
  BY <1>1, <1>9 DEF Ok
<1>11. u \in Seq(U)
  BY DEF IsMessage
<1>12. WireSize(W(N) \o u) = WireSize(W(N)) + WireSize(u)
  <2> DEFINE w == W(N)
  <2> HIDE DEF u, U
  <2>1. w \in Seq(E)
    BY <1>10 DEF Good
  <2> HIDE DEF w
  <2>2. w \in Seq(E \union U) /\ u \in Seq(E \union U)
    BY <1>11, <2>1, LargerSeq
  <2>3. WireSize(w \o u) = WireSize(w) + WireSize(u)
    BY <2>2, WireSizeOfBoth
  <2> QED
    BY <2>3 DEF w
<1> QED
  BY <1>6, <1>10, <1>12 DEF Good
------------------------------------------------------------------------------
Services == {"UserSignUpService", "UserSignInService",
             "DirAddService", "DirRmService", "DirQueryService"}

\* One call: q is the caller's request and p its response variable, t the task,
\* w what the server does for it, a the request as it was serialised.
Shaped(t, w) ==
  /\ t = [stage |-> t.stage, kind |-> t.kind, form |-> t.form, service |-> t.service,
          method |-> t.method, wire |-> t.wire, out |-> t.out, ok |-> t.ok, dones |-> t.dones]
  /\ w = [stage |-> w.stage, req |-> w.req, resp |-> w.resp, runs |-> w.runs]
  /\ t.stage \in {"none", "made", "sent", "over"}
  /\ w.stage \in {"none", "not_parsed", "runs", "answered"}
  /\ t.dones = IF t.stage = "over" THEN 1 ELSE 0

\* A call that has been made names a method that is registered, and until the
\* request has been serialised the caller still has it.
Asking(q, t, w, a) ==
  IF t.stage = "none" THEN q = <<>> /\ w = NoWork /\ a = <<>>
  ELSE /\ t.kind \in Kinds /\ t.form \in Forms /\ t.service \in Services
       /\ t.method \in Registered /\ t.method[1] = t.service
       /\ \/ t.stage = "made" /\ a = <<>> /\ q \in Requests[RequestType(t.service)]
          \/ /\ a \in Requests[RequestType(t.service)]
             /\ t.wire = Serialize(RequestType(t.service), a)

\* The server has what was serialised, and works on nothing else.
Working(t, w, a) ==
  /\ w.stage # "none" => t.stage \in {"sent", "over"}
  /\ w.stage \in {"runs", "answered"} =>
       w.req = a /\ Clean(RequestType(t.service), a)
  /\ w.stage = "answered" => w.resp \in Responses[ResponseType(t.service)]

\* The caller's response is new until the call has succeeded.
Ending(p, t, w) ==
  /\ t.stage \in {"made", "sent"} => p = New(ResponseType(t.service))
  /\ t.stage = "over" =>
       IF t.ok
       THEN /\ w.stage = "answered" /\ t.out = w.resp
            /\ Clean(ResponseType(t.service), w.resp)
            /\ t.form = "wait" => p = w.resp
       ELSE t.out = <<>> /\ p = New(ResponseType(t.service))

Sound(q, p, t, w, a) == Shaped(t, w) /\ Asking(q, t, w, a) /\ Working(t, w, a) /\ Ending(p, t, w)

RpcInv ==
  /\ DOMAIN req = Calls /\ DOMAIN resp = Calls /\ DOMAIN call = Calls
  /\ DOMAIN work = Calls /\ DOMAIN asked = Calls
  /\ \A c \in Calls : Sound(req[c], resp[c], call[c], work[c], asked[c])

\* What callers and handlers put in are objects of their classes.
LEMMA Objects ==
  ASSUME NEW service
  PROVE  /\ RequestType(service) \in Types /\ ResponseType(service) \in Types
         /\ \A m \in Requests[RequestType(service)] :
              IsMessage(RequestType(service), m) /\ m # <<>>
         /\ \A m \in Responses[ResponseType(service)] : IsMessage(ResponseType(service), m)
<1>1. RequestType(service) \in {"UserSign", "DirInfo"}
  BY DEF RequestType
<1>2. ResponseType(service) \in {"UserRet", "DirRet"}
  BY DEF ResponseType
<1>3. \A T, m : IsMessage(T, m) => m # <<>>
  <2> SUFFICES ASSUME NEW T, NEW m, IsMessage(T, m), m = <<>>
               PROVE  FALSE
    OBVIOUS
  <2>1. "unknown" \in DOMAIN m
    BY DEF IsMessage
  <2>2. DOMAIN m = 1 .. 0
    OBVIOUS
  <2>3. "unknown" \in 1 .. 0
    BY <2>1, <2>2
  <2> QED
    BY <2>3
<1>4. /\ \A T \in {"UserSign", "DirInfo"} : \A m \in Requests[T] : IsMessage(T, m)
      /\ \A T \in {"UserRet", "DirRet"} : \A m \in Responses[T] : IsMessage(T, m)
  BY RpcAssumption
<1> QED
  BY <1>1, <1>2, <1>3, <1>4 DEF Types

\* What the peer makes of an object that was serialised: the object, or nothing.
LEMMA PeerHasTheObject ==
  ASSUME NEW T \in Types, NEW m, IsMessage(T, m)
  PROVE  IF Clean(T, m) THEN ParseInto(T, New(T), Serialize(T, m)) = [ok |-> TRUE, msg |-> m]
         ELSE ~ParseInto(T, New(T), Serialize(T, m)).ok
BY RoundTrip, NewIsObject, CopyIsTheMessage

\* A step of one call leaves the others alone.
Frame(c) ==
  /\ DOMAIN req' = Calls /\ DOMAIN resp' = Calls /\ DOMAIN call' = Calls
  /\ DOMAIN work' = Calls /\ DOMAIN asked' = Calls
  /\ \A d \in Calls \ {c} : /\ req'[d] = req[d] /\ resp'[d] = resp[d] /\ call'[d] = call[d]
                            /\ work'[d] = work[d] /\ asked'[d] = asked[d]

LEMMA OneCall ==
  ASSUME RpcInv, NEW c \in Calls, Frame(c),
         Sound(req'[c], resp'[c], call'[c], work'[c], asked'[c])
  PROVE  RpcInv'
<1>1. ASSUME NEW d \in Calls
      PROVE  Sound(req'[d], resp'[d], call'[d], work'[d], asked'[d])
  <2>1. CASE d = c
    BY <2>1
  <2>2. CASE d # c
    <3>1. Sound(req[d], resp[d], call[d], work[d], asked[d])
      BY DEF RpcInv
    <3>2. /\ req'[d] = req[d] /\ resp'[d] = resp[d] /\ call'[d] = call[d]
          /\ work'[d] = work[d] /\ asked'[d] = asked[d]
      BY <2>2 DEF Frame
    <3> QED
      BY <3>1, <3>2
  <2> QED
    BY <2>1, <2>2
<1> QED
  BY <1>1 DEF RpcInv, Frame

LEMMA InitSound == Init => RpcInv
<1> SUFFICES ASSUME Init
             PROVE  RpcInv
  OBVIOUS
<1>1. /\ DOMAIN req = Calls /\ DOMAIN resp = Calls /\ DOMAIN call = Calls
      /\ DOMAIN work = Calls /\ DOMAIN asked = Calls
  BY DEF Init
<1>2. ASSUME NEW c \in Calls
      PROVE  Sound(req[c], resp[c], call[c], work[c], asked[c])
  <2>1. req[c] = <<>> /\ call[c] = NoTask /\ work[c] = NoWork /\ asked[c] = <<>>
    BY DEF Init
  <2>2. Sound(<<>>, resp[c], NoTask, NoWork, <<>>)
    BY DEF Sound, Shaped, Asking, Working, Ending, NoTask, NoWork
  <2> QED
    BY <2>1, <2>2
<1> QED
  BY <1>1, <1>2 DEF RpcInv

LEMMA StubSound ==
  ASSUME RpcInv, NEW c \in Calls, NEW kinds, NEW service \in Services,
         NEW method \in Registered, method[1] = service, Stub(c, kinds, service, method)
  PROVE  RpcInv'
<1> PICK kind \in kinds \intersect Kinds, form \in Forms, r \in Requests[RequestType(service)] :
      LET task == [NoTask EXCEPT !.kind = kind, !.form = form,
                                 !.service = service, !.method = method]
      IN /\ req' = [req EXCEPT ![c] = r]
         /\ resp' = [resp EXCEPT ![c] = New(ResponseType(service))]
         /\ IF form = "task"
            THEN /\ call' = [call EXCEPT ![c] = [task EXCEPT !.stage = "made"]]
                 /\ UNCHANGED asked
            ELSE /\ call' = [call EXCEPT ![c] =
                      [task EXCEPT !.stage = "sent",
                                   !.wire = Serialize(RequestType(service), r)]]
                 /\ asked' = [asked EXCEPT ![c] = r]
  BY DEF Stub
<1> DEFINE made == [stage |-> "made", kind |-> kind, form |-> form, service |-> service,
                    method |-> method, wire |-> <<>>, out |-> <<>>, ok |-> FALSE, dones |-> 0]
           sent == [stage |-> "sent", kind |-> kind, form |-> form, service |-> service,
                    method |-> method, wire |-> Serialize(RequestType(service), r),
                    out |-> <<>>, ok |-> FALSE, dones |-> 0]
           p == New(ResponseType(service))
<1>1. call[c].stage = "none" /\ work' = work
  BY DEF Stub
<1>2. work[c] = NoWork /\ asked[c] = <<>>
  BY <1>1 DEF RpcInv, Sound, Asking
<1>3. CASE form = "task"
  <2>1. req' = [req EXCEPT ![c] = r] /\ resp' = [resp EXCEPT ![c] = p]
        /\ call' = [call EXCEPT ![c] = made] /\ asked' = asked
    BY <1>3 DEF NoTask
  <2>2. Sound(r, p, made, NoWork, <<>>)
    BY DEF Sound, Shaped, Asking, Working, Ending, NoWork
  <2> HIDE DEF made, p
  <2>3. Frame(c)
    BY <1>1, <2>1 DEF Frame, RpcInv
  <2>4. req'[c] = r /\ resp'[c] = p /\ call'[c] = made /\ work'[c] = NoWork /\ asked'[c] = <<>>
    BY <1>1, <1>2, <2>1 DEF RpcInv
  <2> QED
    BY <2>2, <2>3, <2>4, OneCall
<1>4. CASE form # "task"
  <2>1. req' = [req EXCEPT ![c] = r] /\ resp' = [resp EXCEPT ![c] = p]
        /\ call' = [call EXCEPT ![c] = sent] /\ asked' = [asked EXCEPT ![c] = r]
    BY <1>4 DEF NoTask
  <2>2. Sound(r, p, sent, NoWork, r)
    BY DEF Sound, Shaped, Asking, Working, Ending, NoWork
  <2> HIDE DEF sent, p
  <2>3. Frame(c)
    BY <1>1, <2>1 DEF Frame, RpcInv
  <2>4. req'[c] = r /\ resp'[c] = p /\ call'[c] = sent /\ work'[c] = NoWork /\ asked'[c] = r
    BY <1>1, <1>2, <2>1 DEF RpcInv
  <2> QED
    BY <2>2, <2>3, <2>4, OneCall
<1> QED
  BY <1>3, <1>4

LEMMA CallSound ==
  ASSUME RpcInv, NEW c \in Calls, Call(c)
  PROVE  RpcInv'
<1> DEFINE Ok(service, method) == /\ service \in Services /\ method \in Registered
                                  /\ method[1] = service
<1>1. \E kinds, service, method : Stub(c, kinds, service, method) /\ Ok(service, method)
  BY DEF Call, SignUp, SignIn, DirAdd, DirRm, DirQuery, SignUpTRPC, SignInTRPC, DirAddTRPC,
         DirRmTRPC, DirQueryTRPC, Services, Registered
<1> QED
  BY <1>1, StubSound

LEMMA SerializeInputSound ==
  ASSUME RpcInv, NEW c \in Calls, SerializeInput(c)
  PROVE  RpcInv'
<1> DEFINE t == call[c]
           w == Serialize(RequestType(t.service), req[c])
           n == [t EXCEPT !.wire = w]
<1>1. Sound(req[c], resp[c], t, work[c], asked[c])
  BY DEF RpcInv
<1>2. /\ t.stage = "made" /\ asked[c] = <<>>
      /\ call' = [call EXCEPT ![c] = n] /\ asked' = [asked EXCEPT ![c] = req[c]]
      /\ req' = req /\ resp' = resp /\ work' = work
  BY DEF SerializeInput
<1>3. Frame(c) /\ req'[c] = req[c] /\ resp'[c] = resp[c] /\ call'[c] = n /\ work'[c] = work[c]
      /\ asked'[c] = req[c]
  <2> HIDE DEF n
  <2> QED
    BY <1>2 DEF Frame, RpcInv
<1> HIDE DEF t
<1>4. req[c] \in Requests[RequestType(t.service)]
  BY <1>1, <1>2, Objects DEF Sound, Asking
<1>5. Sound(req[c], resp[c], n, work[c], req[c])
  <2>1. t = [stage |-> t.stage, kind |-> t.kind, form |-> t.form, service |-> t.service,
             method |-> t.method, wire |-> t.wire, out |-> t.out, ok |-> t.ok, dones |-> t.dones]
    BY <1>1 DEF Sound, Shaped
  <2>2. /\ n = [stage |-> t.stage, kind |-> t.kind, form |-> t.form, service |-> t.service,
                method |-> t.method, wire |-> w, out |-> t.out, ok |-> t.ok, dones |-> t.dones]
    BY <2>1
  <2> HIDE DEF n, w
  <2>3. work[c].stage = "none"
    BY <1>1, <1>2 DEF Sound, Shaped, Working
  <2>4. Shaped(n, work[c])
    BY <1>1, <2>2 DEF Sound, Shaped
  <2>5. Asking(req[c], n, work[c], req[c])
    BY <1>1, <1>2, <1>4, <2>2 DEF Sound, Asking, w
  <2>6. Working(n, work[c], req[c])
    BY <2>3 DEF Working
  <2>7. Ending(resp[c], n, work[c])
    BY <1>1, <1>2, <2>2 DEF Sound, Ending
  <2> QED
    BY <2>4, <2>5, <2>6, <2>7 DEF Sound
<1> QED
  BY <1>3, <1>5, OneCall

LEMMA StartTaskSound ==
  ASSUME RpcInv, NEW c \in Calls, StartTask(c)
  PROVE  RpcInv'
<1> DEFINE t == call[c]
           n == [t EXCEPT !.stage = "sent"]
<1>1. Sound(req[c], resp[c], t, work[c], asked[c])
  BY DEF RpcInv
<1>2. /\ t.stage = "made" /\ asked[c] # <<>>
      /\ call' = [call EXCEPT ![c] = n]
      /\ req' = req /\ resp' = resp /\ work' = work /\ asked' = asked
  BY DEF StartTask
<1>3. Frame(c) /\ req'[c] = req[c] /\ resp'[c] = resp[c] /\ call'[c] = n /\ work'[c] = work[c]
      /\ asked'[c] = asked[c]
  <2> HIDE DEF n
  <2> QED
    BY <1>2 DEF Frame, RpcInv
<1> HIDE DEF t
<1>4. Sound(req[c], resp[c], n, work[c], asked[c])
  <2>1. t = [stage |-> t.stage, kind |-> t.kind, form |-> t.form, service |-> t.service,
             method |-> t.method, wire |-> t.wire, out |-> t.out, ok |-> t.ok, dones |-> t.dones]
    BY <1>1 DEF Sound, Shaped
  <2>2. n = [stage |-> "sent", kind |-> t.kind, form |-> t.form, service |-> t.service,
             method |-> t.method, wire |-> t.wire, out |-> t.out, ok |-> t.ok, dones |-> t.dones]
    BY <2>1
  <2> HIDE DEF n
  <2>3. work[c].stage = "none"
    BY <1>1, <1>2 DEF Sound, Shaped, Working
  <2>4. Shaped(n, work[c])
    BY <1>1, <1>2, <2>2 DEF Sound, Shaped
  <2>5. Asking(req[c], n, work[c], asked[c])
    BY <1>1, <1>2, <2>2 DEF Sound, Asking
  <2>6. Working(n, work[c], asked[c])
    BY <2>3 DEF Working
  <2>7. Ending(resp[c], n, work[c])
    BY <1>1, <1>2, <2>2 DEF Sound, Ending
  <2> QED
    BY <2>4, <2>5, <2>6, <2>7 DEF Sound
<1> QED
  BY <1>3, <1>4, OneCall

LEMMA ChangeRequestSound ==
  ASSUME RpcInv, NEW c \in Calls, ChangeRequest(c)
  PROVE  RpcInv'
<1> PICK r \in Requests[RequestType(call[c].service)] \union {<<>>} :
      (r = <<>> => asked[c] # <<>>) /\ req' = [req EXCEPT ![c] = r]
  BY DEF ChangeRequest
<1>1. Sound(req[c], resp[c], call[c], work[c], asked[c])
  BY DEF RpcInv
<1>2. call[c].stage # "none" /\ resp' = resp /\ call' = call /\ work' = work /\ asked' = asked
  BY DEF ChangeRequest
<1>3. Frame(c) /\ req'[c] = r /\ resp'[c] = resp[c] /\ call'[c] = call[c] /\ work'[c] = work[c]
      /\ asked'[c] = asked[c]
  BY <1>2 DEF Frame, RpcInv
<1>4. Asking(r, call[c], work[c], asked[c])
  BY <1>1, <1>2 DEF Sound, Asking
<1>5. Sound(r, resp[c], call[c], work[c], asked[c])
  BY <1>1, <1>4 DEF Sound
<1> QED
  BY <1>3, <1>5, OneCall

LEMMA DeliverSound ==
  ASSUME RpcInv, NEW c \in Calls, Deliver(c)
  PROVE  RpcInv'
<1> DEFINE t == call[c]
           w == work[c]
           a == asked[c]
           T == RequestType(t.service)
           parsed == ParseInto(T, New(T), t.wire)
           w1 == [w EXCEPT !.stage = "runs"]
           w2 == [w1 EXCEPT !.req = a]
           runs == [w2 EXCEPT !.runs = w2.runs + 1]
           garbled == [w EXCEPT !.stage = "not_parsed"]
<1>1. Sound(req[c], resp[c], t, w, a)
  BY DEF RpcInv
<1>2. /\ t.stage \in {"sent", "over"} /\ w.stage = "none"
      /\ req' = req /\ resp' = resp /\ call' = call /\ asked' = asked
  BY DEF Deliver
<1>3. /\ t.method \in Registered /\ t.method[1] = t.service
      /\ a \in Requests[T] /\ t.wire = Serialize(T, a)
  BY <1>1, <1>2 DEF Sound, Asking
<1>4. IsMessage(T, a) /\ T \in Types
  BY <1>3, Objects
<1>5. IF Clean(T, a) THEN parsed = [ok |-> TRUE, msg |-> a] ELSE ~parsed.ok
  <2> HIDE DEF T
  <2> QED
    BY <1>3, <1>4, PeerHasTheObject
<1>6. \/ Clean(T, a) /\ work' = [work EXCEPT ![c] = runs]
      \/ work' = [work EXCEPT ![c] = garbled]
  <2> DEFINE work1 == [work EXCEPT ![c] = w1]
             work2 == [work1 EXCEPT ![c] = w2]
  <2>1. DOMAIN work = Calls
    BY DEF RpcInv
  <2>2. CASE ~parsed.ok
    BY <1>3, <2>2 DEF Deliver
  <2>3. CASE parsed.ok
    <3>1. Clean(T, a) /\ parsed.msg = a
      BY <1>5, <2>3
    <3>2. work' = [work EXCEPT ![c].stage = "runs", ![c].req = parsed.msg, ![c].runs = @ + 1]
      BY <1>3, <2>3, Zenon DEF Deliver
    <3> HIDE DEF parsed
    <3>3. work' = [work EXCEPT ![c] = runs]
      BY <2>1, <3>1, <3>2
    <3> QED
      BY <3>1, <3>3
  <2> QED
    BY <2>2, <2>3
<1>7. PICK n : /\ work' = [work EXCEPT ![c] = n]
               /\ \/ n = runs /\ Clean(T, a)
                  \/ n = garbled
  BY <1>6
<1>8. Frame(c) /\ req'[c] = req[c] /\ resp'[c] = resp[c] /\ call'[c] = t /\ work'[c] = n
      /\ asked'[c] = a
  BY <1>2, <1>7 DEF Frame, RpcInv
<1> HIDE DEF t, w, a, T
<1>9. w = [stage |-> w.stage, req |-> w.req, resp |-> w.resp, runs |-> w.runs]
  BY <1>1 DEF Sound, Shaped
<1>10. /\ n = [stage |-> n.stage, req |-> n.req, resp |-> n.resp, runs |-> n.runs]
       /\ \/ n.stage = "runs" /\ n.req = a /\ Clean(T, a)
          \/ n.stage = "not_parsed"
  <2> HIDE DEF w1, w2, runs, garbled
  <2>1. w1 = [stage |-> "runs", req |-> w.req, resp |-> w.resp, runs |-> w.runs]
    BY <1>9 DEF w1
  <2>2. garbled = [stage |-> "not_parsed", req |-> w.req, resp |-> w.resp, runs |-> w.runs]
    BY <1>9 DEF garbled
  <2>3. w2 = [stage |-> "runs", req |-> a, resp |-> w.resp, runs |-> w.runs]
    BY <2>1 DEF w2
  <2>4. runs = [stage |-> "runs", req |-> a, resp |-> w.resp, runs |-> w.runs + 1]
    BY <2>3 DEF runs
  <2>5. CASE n = runs /\ Clean(T, a)
    BY <2>4, <2>5
  <2>6. CASE n = garbled
    BY <2>2, <2>6
  <2> QED
    BY <1>7, <2>5, <2>6
<1>11. Sound(req[c], resp[c], t, n, a)
  <2>1. Shaped(t, n)
    <3>1. Shaped(t, w)
      BY <1>1 DEF Sound
    <3> QED
      BY <1>10, <3>1 DEF Shaped
  <2>2. Asking(req[c], t, n, a)
    BY <1>1, <1>2 DEF Sound, Asking
  <2>3. Working(t, n, a)
    BY <1>2, <1>10 DEF Working, T
  <2>4. Ending(resp[c], t, n)
    BY <1>1, <1>2 DEF Sound, Ending
  <2> QED
    BY <2>1, <2>2, <2>3, <2>4 DEF Sound
<1> QED
  BY <1>8, <1>11, OneCall

LEMMA HandleSound ==
  ASSUME RpcInv, NEW c \in Calls, Handle(c)
  PROVE  RpcInv'
<1> PICK r \in Responses[ResponseType(call[c].service)] :
      work' = [work EXCEPT ![c].stage = "answered", ![c].resp = r]
  BY DEF Handle
<1> DEFINE t == call[c]
           w == work[c]
           w1 == [w EXCEPT !.stage = "answered"]
           n == [w1 EXCEPT !.resp = r]
<1>1. Sound(req[c], resp[c], t, w, asked[c])
  BY DEF RpcInv
<1>2. w.stage = "runs" /\ req' = req /\ resp' = resp /\ call' = call /\ asked' = asked
  BY DEF Handle
<1>3. work' = [work EXCEPT ![c] = n]
  BY DEF RpcInv
<1>4. w = [stage |-> w.stage, req |-> w.req, resp |-> w.resp, runs |-> w.runs]
  BY <1>1 DEF Sound, Shaped
<1> HIDE DEF n, w1
<1>5. Frame(c) /\ req'[c] = req[c] /\ resp'[c] = resp[c] /\ call'[c] = t /\ work'[c] = n
      /\ asked'[c] = asked[c]
  BY <1>2, <1>3 DEF Frame, RpcInv
<1> HIDE DEF w
<1>6. n = [stage |-> "answered", req |-> w.req, resp |-> r, runs |-> w.runs]
  <2>1. w1 = [stage |-> "answered", req |-> w.req, resp |-> w.resp, runs |-> w.runs]
    BY <1>4 DEF w1
  <2> QED
    BY <2>1 DEF n
<1>7. Sound(req[c], resp[c], t, n, asked[c])
  <2>1. Shaped(t, n)
    BY <1>1, <1>6 DEF Sound, Shaped
  <2>2. t.stage \in {"sent", "over"}
    BY <1>1, <1>2 DEF Sound, Working
  <2>3. Asking(req[c], t, n, asked[c])
    BY <1>1, <2>2 DEF Sound, Asking
  <2>4. Working(t, n, asked[c])
    BY <1>1, <1>2, <1>6, <2>2 DEF Sound, Working
  <2>5. Ending(resp[c], t, n)
    BY <1>1, <1>2 DEF Sound, Ending
  <2> QED
    BY <2>1, <2>3, <2>4, <2>5 DEF Sound
<1> QED
  BY <1>5, <1>7, OneCall

\* The end of a call that was sent.
LEMMA FinishShape ==
  ASSUME RpcInv, NEW c \in Calls, NEW ok, NEW out, Finish(c, ok, out), call[c].stage = "sent"
  PROVE  /\ DOMAIN call' = Calls /\ \A d \in Calls \ {c} : call'[d] = call[d]
         /\ call'[c] = [stage |-> "over", kind |-> call[c].kind, form |-> call[c].form,
                        service |-> call[c].service, method |-> call[c].method,
                        wire |-> call[c].wire, out |-> out, ok |-> ok, dones |-> 1]
<1> DEFINE t == call[c]
           t1 == [t EXCEPT !.stage = "over"]
           t2 == [t1 EXCEPT !.ok = ok]
           t3 == [t2 EXCEPT !.out = out]
           n == [t3 EXCEPT !.dones = t3.dones + 1]
<1>1. Shaped(t, work[c])
  BY DEF RpcInv, Sound
<1>2. call' = [call EXCEPT ![c] = n]
  BY DEF Finish, RpcInv
<1> HIDE DEF n, t3, t2, t1
<1>3. DOMAIN call' = Calls /\ call'[c] = n /\ \A d \in Calls \ {c} : call'[d] = call[d]
  BY <1>2 DEF RpcInv
<1> HIDE DEF t
<1>4. t = [stage |-> t.stage, kind |-> t.kind, form |-> t.form, service |-> t.service,
           method |-> t.method, wire |-> t.wire, out |-> t.out, ok |-> t.ok, dones |-> 0]
  BY <1>1 DEF Shaped, t
<1>5. t1 = [stage |-> "over", kind |-> t.kind, form |-> t.form, service |-> t.service,
            method |-> t.method, wire |-> t.wire, out |-> t.out, ok |-> t.ok, dones |-> 0]
  BY <1>4 DEF t1
<1>6. t2 = [stage |-> "over", kind |-> t.kind, form |-> t.form, service |-> t.service,
            method |-> t.method, wire |-> t.wire, out |-> t.out, ok |-> ok, dones |-> 0]
  BY <1>5 DEF t2
<1>7. t3 = [stage |-> "over", kind |-> t.kind, form |-> t.form, service |-> t.service,
            method |-> t.method, wire |-> t.wire, out |-> out, ok |-> ok, dones |-> 0]
  BY <1>6 DEF t3
<1>8. n = [stage |-> "over", kind |-> t.kind, form |-> t.form, service |-> t.service,
           method |-> t.method, wire |-> t.wire, out |-> out, ok |-> ok, dones |-> 1]
  BY <1>7 DEF n
<1> QED
  BY <1>3, <1>8 DEF t

\* The task of a call that has ended.
Over(t, ok, out) ==
  [stage |-> "over", kind |-> t.kind, form |-> t.form, service |-> t.service,
   method |-> t.method, wire |-> t.wire, out |-> out, ok |-> ok, dones |-> 1]

LEMMA EndingSound ==
  ASSUME NEW q, NEW p, NEW t, NEW w, NEW a, Sound(q, p, t, w, a), t.stage = "sent",
         NEW r, NEW ok, NEW out, Ending(r, Over(t, ok, out), w)
  PROVE  Sound(q, r, Over(t, ok, out), w, a)
<1> DEFINE n == Over(t, ok, out)
<1>1. /\ n = [stage |-> "over", kind |-> t.kind, form |-> t.form, service |-> t.service,
              method |-> t.method, wire |-> t.wire, out |-> out, ok |-> ok, dones |-> 1]
  BY DEF Over
<1> HIDE DEF n
<1>2. Shaped(n, w)
  BY <1>1 DEF Sound, Shaped
<1>3. Asking(q, n, w, a)
  BY <1>1 DEF Sound, Asking
<1>4. Working(n, w, a)
  BY <1>1 DEF Sound, Working
<1> QED
  BY <1>2, <1>3, <1>4 DEF Sound, n

LEMMA FailSound ==
  ASSUME RpcInv, NEW c \in Calls, Fail(c)
  PROVE  RpcInv'
<1> DEFINE n == Over(call[c], FALSE, <<>>)
<1>1. Sound(req[c], resp[c], call[c], work[c], asked[c])
  BY DEF RpcInv
<1>2. call[c].stage = "sent" /\ Finish(c, FALSE, <<>>)
      /\ req' = req /\ resp' = resp /\ work' = work /\ asked' = asked
  BY DEF Fail
<1>3. Frame(c) /\ call'[c] = n
  <2> DEFINE ok == FALSE
             out == <<>>
  <2>1. Finish(c, ok, out)
    BY <1>2
  <2> HIDE DEF ok, out
  <2>2. Frame(c) /\ call'[c] = Over(call[c], ok, out)
    BY <1>2, <2>1, FinishShape DEF Frame, RpcInv, Over
  <2> QED
    BY <2>2 DEF ok, out
<1>4. Ending(resp[c], n, work[c])
  BY <1>1, <1>2 DEF Sound, Ending, Over
<1>5. Sound(req[c], resp[c], n, work[c], asked[c])
  BY <1>1, <1>2, <1>4, EndingSound
<1> QED
  BY <1>2, <1>3, <1>5, OneCall

LEMMA AnswerSound ==
  ASSUME RpcInv, NEW c \in Calls, Answer(c)
  PROVE  RpcInv'
<1> DEFINE t == call[c]
           w == work[c]
           T == ResponseType(t.service)
           parsed == ParseInto(T, New(T), Serialize(T, w.resp))
           out == IF parsed.ok THEN parsed.msg ELSE <<>>
           n == Over(t, parsed.ok, out)
           r == IF t.form = "wait" /\ parsed.ok THEN Swap(resp[c], parsed.msg)[1] ELSE resp[c]
<1>1. Sound(req[c], resp[c], t, w, asked[c])
  BY DEF RpcInv
<1>2. /\ t.stage = "sent" /\ w.stage = "answered" /\ Finish(c, parsed.ok, out)
      /\ req' = req /\ work' = work /\ asked' = asked
      /\ resp' = IF t.form = "wait" /\ parsed.ok
                 THEN [resp EXCEPT ![c] = Swap(resp[c], parsed.msg)[1]] ELSE resp
  BY DEF Answer
<1>3. DOMAIN resp' = Calls /\ resp'[c] = r /\ \A d \in Calls \ {c} : resp'[d] = resp[d]
  <2> HIDE DEF parsed
  <2> QED
    BY <1>2 DEF RpcInv
<1>4. Frame(c) /\ call'[c] = n
  <2> HIDE DEF out, parsed
  <2> QED
    BY <1>2, <1>3, FinishShape DEF Frame, RpcInv, Over
<1>5. w.resp \in Responses[T] /\ IsMessage(T, w.resp) /\ T \in Types
  BY <1>1, <1>2, Objects DEF Sound, Working
<1>6. IF Clean(T, w.resp) THEN parsed = [ok |-> TRUE, msg |-> w.resp] ELSE ~parsed.ok
  <2> HIDE DEF T
  <2> QED
    BY <1>5, PeerHasTheObject
<1>7. /\ parsed.ok => Clean(T, w.resp) /\ out = w.resp /\ parsed.msg = w.resp
      /\ ~parsed.ok => out = <<>>
  <2> HIDE DEF parsed, T
  <2> QED
    BY <1>6
<1>8. Ending(r, n, w)
  <2>1. resp[c] = New(T)
    BY <1>1, <1>2 DEF Sound, Ending
  <2> HIDE DEF parsed, out
  <2>2. /\ n.stage = "over" /\ n.ok = parsed.ok /\ n.out = out /\ n.form = t.form
        /\ n.service = t.service
    BY DEF Over
  <2> HIDE DEF n
  <2>3. CASE parsed.ok
    BY <1>2, <1>7, <2>1, <2>2, <2>3 DEF Ending, Swap
  <2>4. CASE ~parsed.ok
    BY <1>2, <1>7, <2>1, <2>2, <2>4 DEF Ending
  <2> QED
    BY <2>3, <2>4
<1>9. Sound(req[c], r, n, w, asked[c])
  <2> HIDE DEF parsed, out, r
  <2> QED
    BY <1>1, <1>2, <1>8, EndingSound
<1> HIDE DEF n, r
<1> QED
  BY <1>2, <1>3, <1>4, <1>9, OneCall
------------------------------------------------------------------------------
LEMMA NextSound ==
  ASSUME RpcInv, [Next]_vars
  PROVE  RpcInv'
<1>1. CASE UNCHANGED vars
  BY <1>1 DEF vars, RpcInv, Sound, Shaped, Asking, Working, Ending
<1>2. CASE Next
  <2> PICK c \in Calls : \/ Call(c) \/ SerializeInput(c) \/ StartTask(c) \/ ChangeRequest(c)
                         \/ Deliver(c) \/ Handle(c) \/ Answer(c) \/ Fail(c)
    BY <1>2 DEF Next
  <2> QED
    BY CallSound, SerializeInputSound, StartTaskSound, ChangeRequestSound, DeliverSound,
       HandleSound, AnswerSound, FailSound
<1> QED
  BY <1>1, <1>2

\* The four parts of the invariant hold in every state, of every call.
THEOREM RpcInvariant == Spec => []RpcInv
<1>1. Init => RpcInv
  BY InitSound
<1>2. RpcInv /\ [Next]_vars => RpcInv'
  BY NextSound
<1> QED
  BY <1>1, <1>2, PTL DEF Spec

\* The stages of a call and of the server's work for it; nothing is kept of a
\* call that has not been made.
THEOREM RpcTypeCorrect == Spec => []TypeOK
<1>1. RpcInv => TypeOK
  BY DEF RpcInv, Sound, Shaped, Asking, TypeOK
<1> QED
  BY <1>1, RpcInvariant, PTL

\* A handler works on the request as it was when it was serialised, whatever the
\* caller has done with its object since, and every stub reaches its method.
THEOREM HandlersGetWhatWasAsked == Spec => []HandledAsAsked
<1>1. RpcInv => HandledAsAsked
  BY DEF RpcInv, Sound, Shaped, Working, HandledAsAsked
<1> QED
  BY <1>1, RpcInvariant, PTL

\* A success is the handler's answer, a failure leaves the caller's response new.
\* A call that has timed out and is executed nevertheless is a failure.
THEOREM CallersGetTheAnswer == Spec => []ResultIsTheAnswer
<1>1. RpcInv => ResultIsTheAnswer
  BY DEF RpcInv, Sound, Ending, ResultIsTheAnswer
<1> QED
  BY <1>1, RpcInvariant, PTL

\* What is not UTF-8 stops at the parser, on the way there and on the way back.
THEOREM GarbledTextStops == Spec => []OnlyText
<1>1. RpcInv => OnlyText
  BY DEF RpcInv, Sound, Working, Ending, OnlyText
<1> QED
  BY <1>1, RpcInvariant, PTL

\* Parser, serialiser, size and merge of each class say the same of every object
\* that callers and handlers make.
THEOREM ClassesAgree == Spec => []SpellingsAgree
<1>1. RpcInv => SpellingsAgree
  <2> SUFFICES ASSUME RpcInv, NEW c \in Calls, call[c].stage \in {"sent", "over"}
               PROVE  LET T == RequestType(call[c].service)
                      IN /\ \A o \in Requests[T] : Clean(T, asked[c]) =>
                              ParseInto(T, o, call[c].wire)
                                = [ok |-> TRUE, msg |-> MergeFrom(T, o, asked[c])]
                         /\ ByteSizeLong(T, asked[c]) = WireSize(call[c].wire)
                         /\ CopyFrom(T, asked[c]) = asked[c]
                         /\ work[c].stage = "answered" =>
                              LET R == ResponseType(call[c].service)
                              IN ByteSizeLong(R, work[c].resp) = WireSize(Serialize(R, work[c].resp))
    BY DEF SpellingsAgree
  <2> DEFINE s == call[c].service
             T == RequestType(s)
             R == ResponseType(s)
             a == asked[c]
  <2>1. a \in Requests[T] /\ call[c].wire = Serialize(T, a)
    BY DEF RpcInv, Sound, Asking
  <2>2. T \in Types /\ IsMessage(T, a) /\ \A o \in Requests[T] : IsMessage(T, o)
    BY <2>1, Objects
  <2>3. work[c].stage = "answered" => R \in Types /\ IsMessage(R, work[c].resp)
    BY Objects DEF RpcInv, Sound, Working
  <2> HIDE DEF T, R, a, s
  <2>4. \A o \in Requests[T] : Object(T, o)
    BY <2>2, MessageIsObject
  <2>5. \A o \in Requests[T] : Clean(T, a) =>
          ParseInto(T, o, Serialize(T, a)) = [ok |-> TRUE, msg |-> MergeFrom(T, o, a)]
    BY <2>2, <2>4, RoundTrip
  <2>6. ByteSizeLong(T, a) = WireSize(Serialize(T, a)) /\ CopyFrom(T, a) = a
    BY <2>2, SizesMatch, CopyIsTheMessage
  <2>7. work[c].stage = "answered" =>
          ByteSizeLong(R, work[c].resp) = WireSize(Serialize(R, work[c].resp))
    <3> DEFINE r == work[c].resp
    <3> HIDE DEF r
    <3> QED
      BY <2>3, SizesMatch DEF r
  <2> QED
    BY <2>1, <2>5, <2>6, <2>7 DEF T, R, a, s
<1> QED
  BY <1>1, RpcInvariant, PTL
==============================================================================
