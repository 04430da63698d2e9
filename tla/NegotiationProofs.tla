------------------------- MODULE NegotiationProofs -------------------------
(***************************************************************************)
(* What holds of the negotiation for every stream of bytes, every          *)
(* configuration of methods, every list of users, and every datagram: that *)
(* credentials are compared exactly, that frames can be read back, and     *)
(* that the session's readers agree with the parsers of whole slices.      *)
(***************************************************************************)
EXTENDS Negotiation, SequenceTheorems, FiniteSetTheorems, TLAPS

-----------------------------------------------------------------------------
(* Credentials                                                             *)

\* m is the greatest element of S.
Greatest(m, S) == m \in S /\ \A x \in S : m >= x

\* A finite set of numbers has a greatest element.
LEMMA HasGreatest ==
  ASSUME NEW S \in SUBSET Nat, IsFiniteSet(S), S # {}
  PROVE  \E m : Greatest(m, S)
<1> DEFINE Without == {T \in FiniteSubsetsOf(S) : T # {} /\ ~ \E m : Greatest(m, T)}
<1>1. S \in FiniteSubsetsOf(S)
  BY DEF FiniteSubsetsOf
<1>2. SUFFICES ASSUME Without # {} PROVE FALSE
  BY <1>1
<1>3. PICK T \in Without :
        \A U \in Without : ~ (<<U, T>> \in StrictSubsetOrdering(S))
  BY <1>2, FS_StrictSubsetOrderingWellFounded, WFMin
<1>4. T \in SUBSET S /\ IsFiniteSet(T) /\ T # {} /\ ~ \E m : Greatest(m, T)
  BY DEF FiniteSubsetsOf
<1>5. PICK x : x \in T
  BY <1>4
<1>6. T \ {x} \in FiniteSubsetsOf(S)
  BY <1>4, FS_RemoveElement DEF FiniteSubsetsOf
<1>7. <<T \ {x}, T>> \in StrictSubsetOrdering(S)
  BY <1>4, <1>5 DEF StrictSubsetOrdering
<1>8. T \ {x} \notin Without
  BY <1>3, <1>7
<1>9. CASE T \ {x} = {}
  <2>1. Greatest(x, T)
    BY <1>4, <1>5, <1>9 DEF Greatest
  <2>2. QED BY <1>4, <2>1
<1>10. CASE T \ {x} # {}
  <2>1. PICK m : Greatest(m, T \ {x})
    BY <1>6, <1>8, <1>10
  <2>2. m \in Nat /\ x \in Nat /\ m \in T
    BY <1>4, <1>5, <2>1 DEF Greatest
  <2>3. Greatest(x, T) \/ Greatest(m, T)
    BY <1>4, <1>5, <2>1, <2>2 DEF Greatest
  <2>4. QED BY <1>4, <2>3
<1>11. QED BY <1>9, <1>10

\* A user may have bytes of any number as name and password.
UserType == [username : Seq(Byte), password : Seq(Byte)]

\* The width is no less than the length of any name or password.
LEMMA WidthCovers ==
  ASSUME NEW users \in Seq(UserType)
  PROVE  /\ credential_width(users) \in Nat
         /\ \A i \in DOMAIN users :
              /\ Len(users[i].username) <= credential_width(users)
              /\ Len(users[i].password) <= credential_width(users)
<1> DEFINE n == Len(users)
           names == {Len(users[i].username) : i \in DOMAIN users}
           words == {Len(users[i].password) : i \in DOMAIN users}
           all == {0} \cup UNION {{Len(users[i].username), Len(users[i].password)} :
                                    i \in DOMAIN users}
<1>1. n \in Nat /\ DOMAIN users = 1..n /\ IsFiniteSet(1..n)
  BY LenProperties, FS_Interval
<1>2. \A i \in DOMAIN users : /\ Len(users[i].username) \in Nat
                              /\ Len(users[i].password) \in Nat
  <2> SUFFICES ASSUME NEW i \in DOMAIN users
               PROVE  /\ Len(users[i].username) \in Nat
                      /\ Len(users[i].password) \in Nat
    OBVIOUS
  <2>1. users[i] \in UserType
    BY <1>1
  <2>2. users[i].username \in Seq(Byte) /\ users[i].password \in Seq(Byte)
    BY <2>1 DEF UserType
  <2>3. QED BY <2>2, LenProperties
<1>3. IsFiniteSet(names)
  <2>1. [i \in 1..n |-> Len(users[i].username)] \in Surjection(1..n, names)
    BY <1>1 DEF Surjection
  <2>2. QED BY <1>1, <2>1, FS_Surjection
<1>4. IsFiniteSet(words)
  <2>1. [i \in 1..n |-> Len(users[i].password)] \in Surjection(1..n, words)
    BY <1>1 DEF Surjection
  <2>2. QED BY <1>1, <2>1, FS_Surjection
<1>5. all = {0} \cup (names \cup words)
  OBVIOUS
<1>6. IsFiniteSet({0} \cup (names \cup words))
  BY <1>3, <1>4, FS_Union, FS_Singleton
<1>7. all \in SUBSET Nat /\ all # {} /\ IsFiniteSet(all)
  BY <1>2, <1>5, <1>6
<1>8. credential_width(users) = Max(all)
  BY DEF credential_width
<1>9. \A i \in DOMAIN users :
        Len(users[i].username) \in all /\ Len(users[i].password) \in all
  OBVIOUS
<1> HIDE DEF all, names, words, n
<1>10. PICK m : Greatest(m, all)
  BY <1>7, HasGreatest
<1>11. Greatest(Max(all), all)
  BY <1>10 DEF Greatest, Max
<1>12. Max(all) \in Nat /\ \A x \in all : x <= Max(all)
  BY <1>7, <1>11 DEF Greatest
<1>13. QED BY <1>8, <1>9, <1>12

\* Over a width that covers b, the padded comparison is equality.
LEMMA PaddedEquality ==
  ASSUME NEW a \in Seq(Byte), NEW b \in Seq(Byte), NEW w \in Nat, Len(b) <= w
  PROVE  ct_eq(a, b, w) <=> a = b
<1>1. Len(a) \in Nat /\ Len(b) \in Nat
  OBVIOUS
<1>2. ASSUME ct_eq(a, b, w) PROVE a = b
  <2>1. Len(a) = Len(b)
    BY <1>2 DEF ct_eq
  <2>2. \A i \in 1..Len(b) : i \in 1..w /\ i <= Len(a) /\ i <= Len(b)
    BY <1>1, <2>1
  <2>3. \A i \in 1..Len(b) : a[i] = b[i]
    BY <1>2, <2>2 DEF ct_eq, ByteAt
  <2>4. QED BY <2>1, <2>3, SeqEqual
<1>3. ASSUME a = b PROVE ct_eq(a, b, w)
  BY <1>3 DEF ct_eq
<1>4. QED BY <1>2, <1>3

\* authed admits the configured users and nobody else.
LEMMA AuthedIsMembership ==
  ASSUME NEW u \in Seq(Byte), NEW v \in Seq(Byte)
  PROVE  authed(Users, u, v) <=>
           \E i \in DOMAIN Users : u = Users[i].username /\ v = Users[i].password
<1> DEFINE w == credential_width(Users)
<1>1. Users \in Seq(UserType)
  BY NegotiationAssumption DEF UserType
<1>2. w \in Nat
  BY <1>1, WidthCovers
<1>3. ASSUME NEW i \in DOMAIN Users
      PROVE  /\ ct_eq(u, Users[i].username, w) <=> u = Users[i].username
             /\ ct_eq(v, Users[i].password, w) <=> v = Users[i].password
  <2>1. Users[i] \in UserType
    BY <1>1
  <2>2. Users[i].username \in Seq(Byte) /\ Users[i].password \in Seq(Byte)
    BY <2>1 DEF UserType
  <2>3. Len(Users[i].username) <= w /\ Len(Users[i].password) <= w
    BY <1>1, WidthCovers
  <2>4. QED BY <1>2, <2>2, <2>3, PaddedEquality
<1>4. authed(Users, u, v) <=>
        \E i \in DOMAIN Users : /\ ct_eq(u, Users[i].username, w)
                                /\ ct_eq(v, Users[i].password, w)
  BY DEF authed
<1> HIDE DEF w
<1>5. QED BY <1>3, <1>4

-----------------------------------------------------------------------------
(* Bytes                                                                   *)

\* Two sequences of the same length and elements are the same.
LEMMA SameBytes ==
  ASSUME NEW a \in Seq(Byte), NEW b \in Seq(Byte), Len(a) = Len(b),
         \A i \in 1..Len(a) : a[i] = b[i]
  PROVE  a = b
BY SeqEqual

\* A piece of a sequence.
LEMMA Piece ==
  ASSUME NEW b \in Seq(Byte), NEW m \in Nat, NEW n \in Nat, m + n <= Len(b)
  PROVE  /\ SubSeq(b, m + 1, m + n) \in Seq(Byte)
         /\ Len(SubSeq(b, m + 1, m + n)) = n
         /\ \A i \in 1..n : SubSeq(b, m + 1, m + n)[i] = b[m + i]
<1>1. Len(b) \in Nat
  OBVIOUS
<1>2. QED BY <1>1, SMTT(30)

\* All but the first n bytes.
LEMMA Skipped ==
  ASSUME NEW b \in Seq(Byte), NEW n \in Nat, n <= Len(b)
  PROVE  /\ Skip(b, n) \in Seq(Byte)
         /\ Len(Skip(b, n)) = Len(b) - n
         /\ \A i \in 1..(Len(b) - n) : Skip(b, n)[i] = b[n + i]
<1> DEFINE k == Len(b) - n
<1>1. k \in Nat /\ n + k = Len(b) /\ n + k <= Len(b)
  OBVIOUS
<1>2. Skip(b, n) = SubSeq(b, n + 1, n + k)
  BY <1>1 DEF Skip
<1> HIDE DEF k
<1>3. /\ SubSeq(b, n + 1, n + k) \in Seq(Byte)
      /\ Len(SubSeq(b, n + 1, n + k)) = k
      /\ \A i \in 1..k : SubSeq(b, n + 1, n + k)[i] = b[n + i]
  BY <1>1, Piece
<1>4. QED BY <1>2, <1>3 DEF k

\* Skipping twice, and a piece of what was skipped to.
LEMMA SkipTwice ==
  ASSUME NEW b \in Seq(Byte), NEW m \in Nat, NEW n \in Nat, m + n <= Len(b)
  PROVE  Skip(Skip(b, m), n) = Skip(b, m + n)
<1> DEFINE c == Skip(b, m)
           k == Len(b) - (m + n)
<1>1. Len(b) \in Nat /\ m <= Len(b) /\ m + n \in Nat
  OBVIOUS
<1>2. k \in Nat /\ Len(b) - m = n + k
  BY <1>1
<1>3. /\ c \in Seq(Byte) /\ Len(c) = n + k
      /\ \A i \in 1..(n + k) : c[i] = b[m + i]
  BY <1>1, <1>2, Skipped, ZenonT(60)
<1> HIDE DEF c
<1>4. n <= Len(c) /\ Len(c) - n = k
  BY <1>2, <1>3
<1>5. /\ Skip(c, n) \in Seq(Byte) /\ Len(Skip(c, n)) = k
      /\ \A i \in 1..k : Skip(c, n)[i] = c[n + i]
  BY <1>3, <1>4, Skipped, SMTT(60)
<1>6. /\ Skip(b, m + n) \in Seq(Byte) /\ Len(Skip(b, m + n)) = k
      /\ \A i \in 1..k : Skip(b, m + n)[i] = b[(m + n) + i]
  BY <1>1, Skipped
<1> HIDE DEF k
<1>7. \A i \in 1..k : n + i \in 1..(n + k) /\ m + (n + i) = (m + n) + i
  BY <1>2
<1>8. \A i \in 1..k : Skip(c, n)[i] = Skip(b, m + n)[i]
  BY <1>3, <1>5, <1>6, <1>7
<1>9. QED BY <1>5, <1>6, <1>8, SameBytes DEF c

\* A piece of what was skipped to is a piece of the whole,
LEMMA PieceOfSkip ==
  ASSUME NEW b \in Seq(Byte), NEW k \in Nat, NEW m \in Nat, NEW n \in Nat,
         k + m + n <= Len(b)
  PROVE  SubSeq(Skip(b, k), m + 1, m + n) = SubSeq(b, (k + m) + 1, (k + m) + n)
<1> DEFINE c == Skip(b, k)
           j == k + m
<1>1. /\ Len(b) \in Nat /\ k <= Len(b) /\ j \in Nat /\ j + n <= Len(b)
      /\ m + n <= Len(b) - k
  OBVIOUS
<1>2. /\ c \in Seq(Byte) /\ Len(c) = Len(b) - k
      /\ \A i \in 1..(Len(b) - k) : c[i] = b[k + i]
  BY <1>1, Skipped
<1> HIDE DEF c
<1>3. m + n <= Len(c)
  BY <1>1, <1>2
<1>4. /\ SubSeq(c, m + 1, m + n) \in Seq(Byte) /\ Len(SubSeq(c, m + 1, m + n)) = n
      /\ \A i \in 1..n : SubSeq(c, m + 1, m + n)[i] = c[m + i]
  BY <1>2, <1>3, Piece
<1>5. \A i \in 1..n : m + i \in 1..(Len(b) - k) /\ k + (m + i) = j + i
  BY <1>1
<1> HIDE DEF j
<1>6. /\ SubSeq(b, j + 1, j + n) \in Seq(Byte) /\ Len(SubSeq(b, j + 1, j + n)) = n
      /\ \A i \in 1..n : SubSeq(b, j + 1, j + n)[i] = b[j + i]
  BY <1>1, Piece
<1>7. \A i \in 1..n : SubSeq(c, m + 1, m + n)[i] = SubSeq(b, j + 1, j + n)[i]
  BY <1>2, <1>4, <1>5, <1>6
<1>8. SubSeq(c, m + 1, m + n) = SubSeq(b, j + 1, j + n)
  BY <1>4, <1>6, <1>7, SameBytes
<1>9. QED BY <1>8 DEF c, j

\* in particular its first bytes,
LEMMA HeadOfSkip ==
  ASSUME NEW b \in Seq(Byte), NEW k \in Nat, NEW n \in Nat, k + n <= Len(b)
  PROVE  SubSeq(Skip(b, k), 1, n) = SubSeq(b, k + 1, k + n)
<1> DEFINE z == 0
<1>1. z \in Nat /\ k + z + n <= Len(b) /\ z + 1 = 1 /\ z + n = n /\ k + z = k
  OBVIOUS
<1> HIDE DEF z
<1>2. SubSeq(Skip(b, k), z + 1, z + n) = SubSeq(b, (k + z) + 1, (k + z) + n)
  BY <1>1, PieceOfSkip
<1>3. QED BY <1>1, <1>2

\* and the tail is what one byte is skipped for.
LEMMA TailSkips ==
  ASSUME NEW b \in Seq(Byte), b # << >>
  PROVE  Tail(b) = Skip(b, 1) /\ Head(b) = b[1] /\ Len(b) >= 1
BY DEF Skip

\* b begins with f.
Begins(f, b) ==
  /\ f \in Seq(Byte) /\ b \in Seq(Byte) /\ Len(f) <= Len(b)
  /\ \A i \in 1..Len(f) : b[i] = f[i]

\* A sequence begins with its first bytes, and with itself.
LEMMA BeginsItself ==
  ASSUME NEW f \in Seq(Byte)
  PROVE  Begins(f, f) /\ Skip(f, Len(f)) = << >>
<1>1. Len(f) \in Nat
  OBVIOUS
<1>2. Skip(f, Len(f)) = << >>
  BY <1>1 DEF Skip
<1>3. QED BY <1>1, <1>2 DEF Begins

\* The fields of a result
LEMMA OkFields ==
  ASSUME NEW v, NEW r
  PROVE  Ok(v, r).ok /\ Ok(v, r).val = v /\ Ok(v, r).rest = r
BY DEF Ok

\* The fields of an error
LEMMA ErrFields ==
  ASSUME NEW c
  PROVE  ~Err(c).ok /\ Err(c).err = c
BY DEF Err

\* take returns what is there, and the rest.
LEMMA Taken ==
  ASSUME NEW b \in Seq(Byte), NEW n \in Nat
  PROVE  /\ n <= Len(b) => take(b, n) = Ok(SubSeq(b, 1, n), Skip(b, n))
         /\ n > Len(b) => take(b, n) = truncated
<1>1. Len(b) \in Nat
  OBVIOUS
<1>2. QED BY <1>1 DEF take

-----------------------------------------------------------------------------
(* Login frames                                                            *)

\* f has the fields that auth reads: version, name with its length, password
\* with its length, and nothing else.
LoginLayout(f) ==
  /\ f \in Seq(Byte) /\ Len(f) >= 3 /\ Len(f) >= 3 + f[2]
  /\ Len(f) = 3 + f[2] + f[3 + f[2]]

\* The fields of a login frame, where their lengths say
NameIn(f) == SubSeq(f, 2 + 1, 2 + f[2])
WordIn(f) == SubSeq(f, (3 + f[2]) + 1, (3 + f[2]) + f[3 + f[2]])

\* Its name and password are sequences of bytes of these lengths.
LEMMA LoginFields ==
  ASSUME NEW f, LoginLayout(f)
  PROVE  /\ f[1] \in Nat /\ f[2] \in Nat /\ f[3 + f[2]] \in Nat /\ Len(f) \in Nat
         /\ NameIn(f) \in Seq(Byte) /\ Len(NameIn(f)) = f[2]
         /\ \A i \in 1..f[2] : NameIn(f)[i] = f[2 + i]
         /\ WordIn(f) \in Seq(Byte) /\ Len(WordIn(f)) = f[3 + f[2]]
         /\ \A i \in 1..f[3 + f[2]] : WordIn(f)[i] = f[3 + f[2] + i]
<1>1. f \in Seq(Byte) /\ Len(f) \in Nat /\ Len(f) >= 3
  BY DEF LoginLayout
<1>2. f[1] \in Byte /\ f[2] \in Byte
  BY <1>1
<1> DEFINE n == f[2]
           m == f[3 + n]
<1>3. n \in Nat /\ f[1] \in Nat
  BY <1>2 DEF Byte
<1>4. Len(f) >= 3 + n /\ Len(f) = 3 + n + m
  BY DEF LoginLayout
<1>5. NameIn(f) = SubSeq(f, 2 + 1, 2 + n) /\ WordIn(f) = SubSeq(f, (3 + n) + 1, (3 + n) + m)
  BY DEF NameIn, WordIn
<1> HIDE DEF n
<1>6. m \in Byte
  BY <1>1, <1>3, <1>4
<1>7. m \in Nat
  BY <1>6 DEF Byte
<1> HIDE DEF m
<1>8. /\ NameIn(f) \in Seq(Byte) /\ Len(NameIn(f)) = n
      /\ \A i \in 1..n : NameIn(f)[i] = f[2 + i]
  <2>1. 2 \in Nat /\ 2 + n <= Len(f)
    BY <1>1, <1>3, <1>4
  <2>2. QED BY <1>1, <1>3, <1>5, <2>1, Piece
<1>9. /\ WordIn(f) \in Seq(Byte) /\ Len(WordIn(f)) = m
      /\ \A i \in 1..m : WordIn(f)[i] = f[(3 + n) + i]
  <2> DEFINE k == 3 + n
  <2>1. k \in Nat /\ k + m <= Len(f) /\ WordIn(f) = SubSeq(f, k + 1, k + m)
    BY <1>1, <1>3, <1>4, <1>5, <1>7
  <2> HIDE DEF k
  <2>2. /\ WordIn(f) \in Seq(Byte) /\ Len(WordIn(f)) = m
        /\ \A i \in 1..m : WordIn(f)[i] = f[k + i]
    BY <1>1, <1>7, <2>1, Piece
  <2>3. QED BY <2>2 DEF k
<1>10. QED BY <1>1, <1>3, <1>7, <1>8, <1>9 DEF n, m

\* parse_userpass returns those fields, and what follows them.
LEMMA UserpassRead ==
  ASSUME NEW f, NEW b, LoginLayout(f), Begins(f, b)
  PROVE  parse_userpass(b) =
           Ok([version |-> f[1], username |-> NameIn(f), password |-> WordIn(f)],
              Skip(b, Len(f)))
<1> DEFINE n == f[2]
           m == f[3 + n]
           x == Len(b) - Len(f)
           r2 == Skip(b, 2)
           r3 == Skip(r2, n)
           r4 == Tail(r3)
<1>1. /\ f \in Seq(Byte) /\ Len(f) \in Nat /\ n \in Nat /\ m \in Nat
      /\ Len(f) = 3 + n + m
  BY LoginFields DEF LoginLayout
<1>2. /\ Len(NameIn(f)) = n /\ \A i \in 1..n : NameIn(f)[i] = f[2 + i]
      /\ Len(WordIn(f)) = m /\ \A i \in 1..m : WordIn(f)[i] = f[3 + n + i]
      /\ NameIn(f) \in Seq(Byte) /\ WordIn(f) \in Seq(Byte)
  BY LoginFields
<1>3. /\ b \in Seq(Byte) /\ Len(b) \in Nat /\ Len(f) <= Len(b)
      /\ \A i \in 1..Len(f) : b[i] = f[i]
  BY DEF Begins
<1>4. b[1] = f[1] /\ b[2] = n
  <2>1. 1 \in 1..Len(f) /\ 2 \in 1..Len(f)
    <3> HIDE DEF m, n
    <3>1. QED BY <1>1
  <2>2. QED BY <1>3, <2>1
<1> HIDE DEF m, n
<1>5. x \in Nat /\ Len(b) = 3 + n + m + x
  BY <1>1, <1>3
<1> HIDE DEF x
<1>6. /\ r2 \in Seq(Byte) /\ Len(r2) = 1 + n + m + x
      /\ \A i \in 1..(1 + n + m + x) : r2[i] = b[2 + i]
  <2> DEFINE k == 2
  <2>1. k \in Nat /\ k <= Len(b) /\ Len(b) - k = 1 + n + m + x
    BY <1>1, <1>5
  <2> HIDE DEF k
  <2>2. /\ Skip(b, k) \in Seq(Byte) /\ Len(Skip(b, k)) = Len(b) - k
        /\ \A i \in 1..(Len(b) - k) : Skip(b, k)[i] = b[k + i]
    BY <1>3, <2>1, Skipped
  <2>3. QED BY <2>1, <2>2 DEF k
<1> HIDE DEF r2
<1>7. take(r2, n) = Ok(SubSeq(r2, 1, n), r3)
  <2>1. n <= Len(r2)
    BY <1>1, <1>5, <1>6
  <2>2. QED BY <1>1, <1>6, <2>1, Taken
<1>8. SubSeq(r2, 1, n) = NameIn(f)
  <2> DEFINE q == SubSeq(r2, 0 + 1, 0 + n)
  <2>1. q \in Seq(Byte) /\ Len(q) = n /\ \A i \in 1..n : q[i] = r2[0 + i]
    <3>1. 0 \in Nat /\ 0 + n <= Len(r2)
      BY <1>1, <1>5, <1>6
    <3>2. QED BY <1>1, <1>6, <3>1, Piece
  <2>2. q = SubSeq(r2, 1, n)
    BY <1>1
  <2> HIDE DEF q
  <2>3. \A i \in 1..n : 0 + i = i /\ i \in 1..(1 + n + m + x) /\ 2 + i \in 1..Len(f)
    BY <1>1, <1>5
  <2>4. \A i \in 1..n : q[i] = NameIn(f)[i]
    <3> SUFFICES ASSUME NEW i \in 1..n PROVE q[i] = NameIn(f)[i]
      OBVIOUS
    <3>1. q[i] = r2[i]
      BY <2>1, <2>3
    <3>2. r2[i] = b[2 + i]
      BY <1>6, <2>3
    <3>3. b[2 + i] = f[2 + i]
      BY <1>3, <2>3
    <3>4. QED BY <1>2, <3>1, <3>2, <3>3
  <2>5. QED BY <1>2, <2>1, <2>2, <2>4, SameBytes
<1>9. /\ r3 \in Seq(Byte) /\ Len(r3) = 1 + m + x
      /\ \A i \in 1..(1 + m + x) : r3[i] = b[2 + n + i]
  <2>1. n <= Len(r2) /\ Len(r2) - n = 1 + m + x
    BY <1>1, <1>5, <1>6
  <2>2. /\ r3 \in Seq(Byte) /\ Len(r3) = Len(r2) - n
        /\ \A i \in 1..(Len(r2) - n) : r3[i] = r2[n + i]
    BY <1>1, <1>6, <2>1, Skipped
  <2>3. \A i \in 1..(1 + m + x) : n + i \in 1..(1 + n + m + x) /\ 2 + (n + i) = 2 + n + i
    BY <1>1, <1>5
  <2> HIDE DEF r3
  <2>4. QED BY <1>6, <2>1, <2>2, <2>3
<1>10. r3 = Skip(b, 2 + n)
  <2> DEFINE k == 2
  <2>1. k \in Nat /\ k + n <= Len(b)
    BY <1>1, <1>5
  <2> HIDE DEF k
  <2>2. Skip(Skip(b, k), n) = Skip(b, k + n)
    BY <1>1, <1>3, <2>1, SkipTwice
  <2>3. QED BY <2>2 DEF k, r2
<1> HIDE DEF r3
<1>11. r3 # << >> /\ Head(r3) = m
  <2>1. r3 # << >>
    BY <1>1, <1>5, <1>9
  <2>2. Head(r3) = r3[1] /\ 1 \in 1..(1 + m + x)
    BY <1>1, <1>5, <1>9, <2>1
  <2>3. r3[1] = b[2 + n + 1] /\ 2 + n + 1 = 3 + n /\ 3 + n \in 1..Len(f)
    BY <1>1, <1>9, <2>2
  <2>4. QED BY <1>3, <2>1, <2>2, <2>3 DEF m
<1>12. r4 = Skip(b, 3 + n)
  <2> DEFINE k == 2 + n
             j == 1
  <2>1. k \in Nat /\ j \in Nat /\ k + j <= Len(b) /\ k + j = 3 + n
    BY <1>1, <1>5
  <2> HIDE DEF k, j
  <2>2. Skip(Skip(b, k), j) = Skip(b, k + j)
    BY <1>3, <2>1, SkipTwice
  <2>3. r4 = Skip(r3, 1)
    BY <1>9, <1>11, TailSkips
  <2>4. QED BY <1>10, <2>1, <2>2, <2>3 DEF k, j
<1> HIDE DEF r4
<1>13. take(r4, m) = Ok(WordIn(f), Skip(b, Len(f)))
  <2> DEFINE k == 3 + n
             q == SubSeq(b, k + 1, k + m)
  <2>1. k \in Nat /\ k <= Len(b) /\ k + m <= Len(b) /\ k + m = Len(f) /\ m <= Len(b) - k
    BY <1>1, <1>5
  <2>2. \A i \in 1..m : k + i \in 1..Len(f) /\ WordIn(f)[i] = f[k + i]
    BY <1>1, <1>2
  <2> HIDE DEF k
  <2>3. Skip(b, k) \in Seq(Byte) /\ Len(Skip(b, k)) = Len(b) - k
    BY <1>3, <2>1, Skipped
  <2>4. take(Skip(b, k), m) = Ok(SubSeq(Skip(b, k), 1, m), Skip(Skip(b, k), m))
    <3>1. m <= Len(Skip(b, k))
      BY <2>1, <2>3
    <3>2. QED BY <1>1, <2>3, <3>1, Taken
  <2>5. SubSeq(Skip(b, k), 1, m) = q
    BY <1>1, <1>3, <2>1, HeadOfSkip
  <2>6. Skip(Skip(b, k), m) = Skip(b, k + m)
    BY <1>1, <1>3, <2>1, SkipTwice
  <2>7. q \in Seq(Byte) /\ Len(q) = m /\ \A i \in 1..m : q[i] = b[k + i]
    BY <1>1, <1>3, <2>1, Piece
  <2> HIDE DEF q
  <2>8. \A i \in 1..m : q[i] = WordIn(f)[i]
    BY <1>3, <2>2, <2>7
  <2>9. q = WordIn(f)
    BY <1>2, <2>7, <2>8, SameBytes
  <2>10. take(Skip(b, k), m) = Ok(WordIn(f), Skip(b, Len(f)))
    BY <2>1, <2>4, <2>5, <2>6, <2>9
  <2>11. QED BY <1>12, <2>10 DEF k
<1>14. ~(Len(b) < 2)
  BY <1>1, <1>5
<1>15. parse_userpass(b) =
         Try(take(r2, n), LAMBDA username, rest :
           IF rest = << >> THEN truncated
           ELSE Try(take(Tail(rest), Head(rest)), LAMBDA password, left :
                  Ok([version |-> f[1], username |-> username,
                      password |-> password], left)))
  BY <1>4, <1>14 DEF parse_userpass, r2
<1>16. take(r2, n).ok /\ take(r2, n).val = NameIn(f) /\ take(r2, n).rest = r3
  <2>1. take(r2, n) = Ok(NameIn(f), r3)
    BY <1>7, <1>8
  <2> DEFINE t == take(r2, n)
  <2> HIDE DEF t
  <2>2. t = Ok(NameIn(f), r3)
    BY <2>1 DEF t
  <2>3. t.ok /\ t.val = NameIn(f) /\ t.rest = r3
    BY <2>2, OkFields
  <2>4. QED BY <2>3 DEF t
<1>17. parse_userpass(b) =
         Try(take(Tail(r3), Head(r3)), LAMBDA password, left :
           Ok([version |-> f[1], username |-> NameIn(f), password |-> password], left))
  BY <1>11, <1>15, <1>16 DEF Try
<1>18. take(Tail(r3), Head(r3)) = Ok(WordIn(f), Skip(b, Len(f)))
  BY <1>11, <1>13 DEF r4
<1>19. QED BY <1>17, <1>18, OkFields DEF Try

\* Nothing follows them in the frame itself.
LEMMA UserpassParsed ==
  ASSUME NEW f, LoginLayout(f)
  PROVE  parse_userpass(f) =
           Ok([version |-> f[1], username |-> NameIn(f), password |-> WordIn(f)], << >>)
<1>1. Begins(f, f) /\ Skip(f, Len(f)) = << >>
  BY BeginsItself DEF LoginLayout
<1>2. QED BY <1>1, UserpassRead

\* Length and bytes of a concatenation.
LEMMA Joined ==
  ASSUME NEW S, NEW a \in Seq(S), NEW b \in Seq(S),
         NEW la, NEW lb, la = Len(a), lb = Len(b)
  PROVE  /\ a \o b \in Seq(S) /\ Len(a \o b) = la + lb
         /\ la \in Nat /\ lb \in Nat
         /\ \A i \in 1..la : (a \o b)[i] = a[i]
         /\ \A i \in 1..lb : (a \o b)[la + i] = b[i]
<1>1. Len(a) \in Nat /\ Len(b) \in Nat
  OBVIOUS
<1>2. QED BY <1>1

\* Bytes are numbers.
LEMMA NumbersOfBytes ==
  ASSUME NEW s \in Seq(Byte)
  PROVE  s \in Seq(Nat)
<1>1. s \in [1..Len(s) -> Byte] /\ Len(s) \in Nat
  BY LenProperties
<1>2. \A i \in 1..Len(s) : s[i] \in Nat
  <2>1. \A x \in Byte : x \in Nat
    BY DEF Byte
  <2>2. \A i \in 1..Len(s) : s[i] \in Byte
    BY <1>1
  <2>3. QED BY <2>1, <2>2
<1>3. s \in [1..Len(s) -> Nat]
  BY <1>1, <1>2
<1>4. QED BY <1>1, <1>3, SeqDef

\* The same for four pieces.
LEMMA FourPieces ==
  ASSUME NEW S, NEW a \in Seq(S), NEW b \in Seq(S), NEW c \in Seq(S), NEW d \in Seq(S),
         NEW la, NEW lb, NEW lc, NEW ld,
         la = Len(a), lb = Len(b), lc = Len(c), ld = Len(d)
  PROVE  LET g == ((a \o b) \o c) \o d
         IN  /\ g \in Seq(S) /\ Len(g) = la + lb + lc + ld
             /\ \A i \in 1..la : g[i] = a[i]
             /\ \A i \in 1..lb : g[la + i] = b[i]
             /\ \A i \in 1..lc : g[la + lb + i] = c[i]
             /\ \A i \in 1..ld : g[la + lb + lc + i] = d[i]
<1> DEFINE ab == a \o b
           abc == ab \o c
           g == abc \o d
           k == la + lb
           l == la + lb + lc
<1>1. la \in Nat /\ lb \in Nat /\ lc \in Nat /\ ld \in Nat
  BY LenProperties
<1>2. /\ ab \in Seq(S) /\ Len(ab) = k
      /\ \A i \in 1..la : ab[i] = a[i]
      /\ \A i \in 1..lb : ab[la + i] = b[i]
  BY Joined
<1> HIDE DEF ab, k
<1>3. /\ abc \in Seq(S) /\ Len(abc) = k + lc
      /\ \A i \in 1..k : abc[i] = ab[i]
      /\ \A i \in 1..lc : abc[k + i] = c[i]
  BY <1>2, Joined, SMTT(30)
<1>4. k + lc = l
  BY <1>1 DEF k
<1> HIDE DEF abc, l
<1>5. /\ g \in Seq(S) /\ Len(g) = l + ld
      /\ \A i \in 1..l : g[i] = abc[i]
      /\ \A i \in 1..ld : g[l + i] = d[i]
  BY <1>3, <1>4, Joined, SMTT(30)
<1> HIDE DEF g
<1>6. /\ \A i \in 1..la : i \in 1..k /\ i \in 1..l
      /\ \A i \in 1..lb : la + i \in 1..k /\ la + i \in 1..l
      /\ \A i \in 1..lc : k + i \in 1..l
  BY <1>1 DEF k, l
<1>7. /\ \A i \in 1..la : g[i] = a[i]
      /\ \A i \in 1..lb : g[la + i] = b[i]
      /\ \A i \in 1..lc : g[k + i] = c[i]
  BY <1>2, <1>3, <1>5, <1>6, SMTT(30)
<1>8. QED BY <1>5, <1>7 DEF g, abc, ab, k, l

\* Length and bytes of the frame of a user; the length of a name is a number,
\* though not always a byte.
LEMMA LoginFrameBytes ==
  ASSUME NEW u \in UserType
  PROVE  LET n == Len(u.username)
             m == Len(u.password)
             g == LoginFrame(u)
         IN  /\ n \in Nat /\ m \in Nat
             /\ g \in Seq(Nat) /\ Len(g) = 3 + n + m
             /\ g[1] = 1 /\ g[2] = n /\ g[3 + n] = m
             /\ \A i \in 1..n : g[2 + i] = u.username[i]
             /\ \A i \in 1..m : g[3 + n + i] = u.password[i]
<1> DEFINE a == <<1, Len(u.username)>>
           b == u.username
           c == <<Len(u.password)>>
           d == u.password
           n == Len(b)
           m == Len(d)
           g == ((a \o b) \o c) \o d
           la == 2
           lc == 1
<1>1. b \in Seq(Byte) /\ d \in Seq(Byte)
  BY DEF UserType
<1>2. n \in Nat /\ m \in Nat
  BY <1>1, LenProperties
<1>3. b \in Seq(Nat) /\ d \in Seq(Nat)
  BY <1>1, NumbersOfBytes
<1>4. /\ a \in Seq(Nat) /\ la = Len(a) /\ a[1] = 1 /\ a[2] = n
      /\ c \in Seq(Nat) /\ lc = Len(c) /\ c[1] = m
  BY <1>2
<1>5. LoginFrame(u) = g
  BY DEF LoginFrame
<1>6. n = Len(b) /\ m = Len(d)
  OBVIOUS
<1> HIDE DEF a, b, c, d, n, m, la, lc
<1>7. /\ g \in Seq(Nat) /\ Len(g) = la + n + lc + m
      /\ \A i \in 1..la : g[i] = a[i]
      /\ \A i \in 1..n : g[la + i] = b[i]
      /\ \A i \in 1..lc : g[la + n + i] = c[i]
      /\ \A i \in 1..m : g[la + n + lc + i] = d[i]
  BY <1>3, <1>4, <1>6, FourPieces, SMTT(30)
<1> HIDE DEF g
<1>8. /\ 1 \in 1..la /\ 2 \in 1..la /\ 1 \in 1..lc
      /\ la = 2 /\ la + n + 1 = 3 + n /\ la + n + lc = 3 + n
      /\ la + n + lc + m = 3 + n + m
  BY <1>2 DEF la, lc
<1>9. g[1] = 1 /\ g[2] = n /\ g[3 + n] = m
  <2>1. g[1] = a[1] /\ g[2] = a[2] /\ g[la + n + 1] = c[1]
    BY <1>7, <1>8
  <2>2. QED BY <1>4, <1>8, <2>1
<1>10. /\ \A i \in 1..n : g[2 + i] = b[i]
       /\ \A i \in 1..m : g[3 + n + i] = d[i]
       /\ Len(g) = 3 + n + m
  BY <1>7, <1>8
<1>11. QED BY <1>2, <1>5, <1>7, <1>9, <1>10 DEF b, d, n, m

\* A frame that has been read is a user's exactly when its fields are.
LEMMA FrameOfUser ==
  ASSUME NEW f, LoginLayout(f), NEW u \in UserType
  PROVE  f = LoginFrame(u) <=>
           f[1] = 1 /\ NameIn(f) = u.username /\ WordIn(f) = u.password
<1> DEFINE n == Len(u.username)
           m == Len(u.password)
           g == LoginFrame(u)
<1>1. /\ n \in Nat /\ m \in Nat
      /\ g \in Seq(Nat) /\ Len(g) = 3 + n + m
      /\ g[1] = 1 /\ g[2] = n /\ g[3 + n] = m
      /\ \A i \in 1..n : g[2 + i] = u.username[i]
      /\ \A i \in 1..m : g[3 + n + i] = u.password[i]
  BY LoginFrameBytes
<1>2. /\ f[1] \in Nat /\ f[2] \in Nat /\ f[3 + f[2]] \in Nat /\ Len(f) \in Nat
      /\ NameIn(f) \in Seq(Byte) /\ Len(NameIn(f)) = f[2]
      /\ \A i \in 1..f[2] : NameIn(f)[i] = f[2 + i]
      /\ WordIn(f) \in Seq(Byte) /\ Len(WordIn(f)) = f[3 + f[2]]
      /\ \A i \in 1..f[3 + f[2]] : WordIn(f)[i] = f[3 + f[2] + i]
  BY LoginFields
<1>3. /\ f \in Seq(Byte) /\ Len(f) = 3 + f[2] + f[3 + f[2]]
  BY DEF LoginLayout
<1>4. u.username \in Seq(Byte) /\ u.password \in Seq(Byte)
  BY DEF UserType
<1> HIDE DEF g
<1>5. ASSUME f = g
      PROVE  f[1] = 1 /\ NameIn(f) = u.username /\ WordIn(f) = u.password
  <2>1. f[1] = 1 /\ f[2] = n /\ f[3 + n] = m
    BY <1>1, <1>5
  <2>2. NameIn(f) = u.username
    <3>1. Len(NameIn(f)) = n /\ \A i \in 1..n : NameIn(f)[i] = u.username[i]
      BY <1>1, <1>2, <1>5, <2>1
    <3>2. QED BY <1>2, <1>4, <3>1, SameBytes
  <2>3. WordIn(f) = u.password
    <3>1. Len(WordIn(f)) = m /\ \A i \in 1..m : WordIn(f)[i] = f[3 + n + i]
      BY <1>2, <2>1
    <3>2. \A i \in 1..m : f[3 + n + i] = u.password[i]
      BY <1>1, <1>5
    <3>3. QED BY <1>2, <1>4, <3>1, <3>2, SameBytes
  <2>4. QED BY <2>1, <2>2, <2>3
<1>6. ASSUME f[1] = 1, NameIn(f) = u.username, WordIn(f) = u.password
      PROVE  f = g
  <2>1. f[2] = n /\ f[3 + n] = m /\ Len(f) = 3 + n + m
    BY <1>2, <1>3, <1>6
  <2>2. /\ \A i \in 1..n : f[2 + i] = u.username[i]
        /\ \A i \in 1..m : f[3 + n + i] = u.password[i]
    BY <1>2, <1>6, <2>1
  <2> HIDE DEF n, m
  <2>3. ASSUME NEW i \in 1..(3 + n + m) PROVE f[i] = g[i]
    <3>1. CASE i = 1 \/ i = 2
      BY <1>1, <1>6, <2>1, <3>1
    <3>2. CASE i > 2 /\ i < 3 + n
      <4>1. i - 2 \in 1..n /\ 2 + (i - 2) = i
        BY <1>1, <3>2
      <4>2. f[2 + (i - 2)] = g[2 + (i - 2)]
        BY <1>1, <2>2, <4>1
      <4>3. QED BY <4>1, <4>2
    <3>3. CASE i = 3 + n
      BY <1>1, <2>1, <3>3
    <3>4. CASE i > 3 + n
      <4> DEFINE j == i - (3 + n)
      <4>1. n \in Nat /\ m \in Nat /\ i \in Int
        BY <1>1
      <4>2. j \in 1..m /\ 3 + n + j = i
        BY <3>4, <4>1
      <4> HIDE DEF j
      <4>3. f[3 + n + j] = g[3 + n + j]
        BY <1>1, <2>2, <4>2
      <4>4. QED BY <4>2, <4>3
    <3>5. QED BY <1>1, <3>1, <3>2, <3>3, <3>4
  <2>4. f \in Seq(Nat)
    BY <1>3, NumbersOfBytes
  <2>5. QED BY <1>1, <2>1, <2>3, <2>4, SeqEqual
<1>7. QED BY <1>5, <1>6 DEF g

\* The verdict on a complete frame
LoginAccepted(f) ==
  LET parsed == parse_userpass(f).val
  IN  parsed.version = 1 /\ authed(Users, parsed.username, parsed.password)

\* It is accepted exactly when it is the frame of a configured user.
LEMMA VerdictIsExact ==
  ASSUME NEW f, LoginLayout(f)
  PROVE  LoginAccepted(f) <=> \E i \in DOMAIN Users : f = LoginFrame(Users[i])
<1> DEFINE v == [version |-> f[1], username |-> NameIn(f), password |-> WordIn(f)]
<1>1. parse_userpass(f).val = v
  BY UserpassParsed, OkFields
<1>2. v.version = f[1] /\ v.username = NameIn(f) /\ v.password = WordIn(f)
  OBVIOUS
<1> HIDE DEF v
<1>3. LoginAccepted(f) <=> f[1] = 1 /\ authed(Users, NameIn(f), WordIn(f))
  BY <1>1, <1>2 DEF LoginAccepted
<1>4. NameIn(f) \in Seq(Byte) /\ WordIn(f) \in Seq(Byte)
  BY LoginFields
<1>5. LoginAccepted(f) <=>
        \E i \in DOMAIN Users : /\ f[1] = 1 /\ NameIn(f) = Users[i].username
                                /\ WordIn(f) = Users[i].password
  BY <1>3, <1>4, AuthedIsMembership
<1>6. \A i \in DOMAIN Users : Users[i] \in UserType
  <2>1. Users \in Seq(UserType)
    BY NegotiationAssumption DEF UserType
  <2>2. QED BY <2>1
<1>7. QED BY <1>5, <1>6, FrameOfUser

-----------------------------------------------------------------------------
(* The reader's state                                                      *)

\* Where the reader may stand.
States == Reading \cup {"select", "verdict", "parse", "ready", "failed"}

\* Past authentication
Admitted == {"request", "addr4", "addr16", "dlen", "domain", "port", "parse", "ready"}

\* Streams and frames are bytes, and no more is read than has arrived.
NegTypes ==
  /\ auth_methods \in AuthConfigs
  /\ input \in Seq(Byte) /\ avail \in 0..Len(input) /\ pos \in 0..avail
  /\ pc \in States /\ frame \in Seq(Byte)

\* Each field is read where the ones before it have led.
FrameLayout ==
  /\ pc \in {"greeting", "login", "request"} => frame = << >>
  /\ pc = "method" => Len(frame) >= 2 /\ Len(frame) < frame[2] + 2
  /\ pc = "select" => Len(frame) >= 2 /\ Len(frame) = frame[2] + 2
  /\ pc = "username" => Len(frame) = 2
  /\ pc = "plen" => Len(frame) >= 2 /\ Len(frame) = 2 + frame[2]
  /\ pc = "password" => Len(frame) >= 3 /\ Len(frame) = 3 + frame[2]
  /\ pc = "verdict" => LoginLayout(frame)
  /\ pc \in {"addr4", "addr16", "dlen", "domain", "port", "parse", "ready"} =>
       Len(frame) >= 4

\* The login that was read was judged by what it is.
LoginJudged ==
  login # << >> => granted = (\E i \in DOMAIN Users : login = LoginFrame(Users[i]))

\* Without NOAUTH nobody is past authentication who was not granted it.
AccessGranted == pc \in Admitted /\ NoAuth \notin auth_methods => granted

\* The inductive invariant
NegInv == NegTypes /\ FrameLayout /\ LoginJudged /\ AccessGranted

\* Before anything is read nothing is claimed.
LEMMA InitNegInv == Init => NegInv
<1> SUFFICES ASSUME Init PROVE NegInv
  OBVIOUS
<1>1. input \in Seq(Byte) /\ Len(input) \in Nat
  BY NegotiationAssumption DEF Init
<1>2. NegTypes
  BY <1>1, EmptySeq DEF Init, NegTypes, States, Reading
<1>3. QED BY <1>2 DEF Init, NegInv, FrameLayout, LoginJudged, AccessGranted, Admitted

\* A byte is a number.
LEMMA ByteOf ==
  ASSUME NEW s \in Seq(Byte), NEW i \in 1..Len(s)
  PROVE  s[i] \in Nat /\ s[i] \in Byte
<1>1. s[i] \in Byte
  OBVIOUS
<1>2. \A x \in Byte : x \in Nat
  BY DEF Byte
<1>3. QED BY <1>1, <1>2

\* read_exact fills a buffer of a definite size.
LEMMA NeedIsNumber ==
  ASSUME NegTypes, FrameLayout, pc \in Reading
  PROVE  Need \in Nat
<1>1. frame \in Seq(Byte) /\ Len(frame) \in Nat
  BY DEF NegTypes
<1>2. CASE pc = "username"
  <2>1. 2 \in 1..Len(frame)
    BY <1>1, <1>2 DEF FrameLayout
  <2>2. frame[2] \in Nat
    BY <1>1, <2>1, ByteOf
  <2>3. QED BY <1>2, <2>2 DEF Need
<1>3. CASE pc = "password"
  <2>1. Len(frame) \in 1..Len(frame) /\ Last(frame) = frame[Len(frame)]
    BY <1>1, <1>3 DEF FrameLayout, Last
  <2>2. Last(frame) \in Nat
    BY <1>1, <2>1, ByteOf
  <2>3. QED BY <1>3, <2>2 DEF Need
<1>4. CASE pc = "domain"
  <2>1. Len(frame) \in 1..Len(frame) /\ Last(frame) = frame[Len(frame)]
    BY <1>1, <1>4 DEF FrameLayout, Last
  <2>2. Last(frame) \in Nat
    BY <1>1, <2>1, ByteOf
  <2>3. QED BY <1>4, <2>2 DEF Need
<1>5. CASE pc \in Reading \ {"username", "password", "domain"}
  BY <1>5 DEF Need, Reading
<1>6. QED BY <1>2, <1>3, <1>4, <1>5

\* What it reads is that many bytes, and only ones that have arrived.
LEMMA FilledBytes ==
  ASSUME NegTypes, FrameLayout, Filled
  PROVE  /\ Need \in Nat /\ Bytes \in Seq(Byte) /\ Len(Bytes) = Need
         /\ pos + Need \in 0..avail
<1> DEFINE n == Need
<1>1. n \in Nat /\ n <= avail - pos
  BY NeedIsNumber DEF Filled
<1>2. input \in Seq(Byte) /\ pos \in Nat /\ avail \in Nat /\ avail <= Len(input)
      /\ Len(input) \in Nat
  BY DEF NegTypes
<1> HIDE DEF n
<1>3. pos + n <= Len(input) /\ pos + n \in 0..avail
  BY <1>1, <1>2
<1>4. /\ SubSeq(input, pos + 1, pos + n) \in Seq(Byte)
      /\ Len(SubSeq(input, pos + 1, pos + n)) = n
  BY <1>1, <1>2, <1>3, Piece
<1>5. QED BY <1>1, <1>3, <1>4 DEF Bytes, n

\* A field is appended: the bytes before it stay.
LEMMA Appended ==
  ASSUME NegTypes, FrameLayout, Filled, frame' = frame \o Bytes, NEW n, n = Need
  PROVE  /\ frame' \in Seq(Byte) /\ Len(frame') = Len(frame) + n
         /\ Len(frame) \in Nat /\ n \in Nat
         /\ \A i \in 1..Len(frame) : frame'[i] = frame[i]
         /\ \A i \in 1..n : frame'[Len(frame) + i] = Bytes[i]
<1>1. Bytes \in Seq(Byte) /\ n = Len(Bytes) /\ n \in Nat
  BY FilledBytes
<1>2. frame \in Seq(Byte)
  BY DEF NegTypes
<1> DEFINE k == Len(frame)
<1> HIDE DEF k
<1>3. k = Len(frame)
  BY DEF k
<1>4. QED BY <1>1, <1>2, <1>3, Joined

\* Steps after which no login has been read or judged anew.
LEMMA JudgementKept ==
  ASSUME NegInv, UNCHANGED <<auth_methods, login, granted>>,
         pc' \in Admitted => pc \in Admitted
  PROVE  LoginJudged' /\ AccessGranted'
BY DEF NegInv, LoginJudged, AccessGranted

\* The client's steps
LEMMA ClientKeepsInv ==
  ASSUME NegInv, Deliver \/ CloseInput
  PROVE  NegInv'
<1>1. /\ UNCHANGED <<auth_methods, input, readVars>>
      /\ UNCHANGED avail \/ (avail < Len(input) /\ avail' = avail + 1)
  BY DEF Deliver, CloseInput
<1>2. NegTypes'
  <2>1. Len(input) \in Nat /\ avail \in 0..Len(input) /\ pos \in 0..avail
    BY DEF NegInv, NegTypes
  <2>2. avail' \in 0..Len(input) /\ pos \in 0..avail'
    BY <1>1, <2>1
  <2>3. QED BY <1>1, <2>2 DEF NegInv, NegTypes, readVars
<1>3. FrameLayout'
  BY <1>1 DEF NegInv, FrameLayout, readVars, LoginLayout
<1>4. LoginJudged' /\ AccessGranted'
  BY <1>1, JudgementKept DEF readVars
<1>5. QED BY <1>2, <1>3, <1>4 DEF NegInv

\* The end of the stream fails the reader.
LEMMA EofKeepsInv ==
  ASSUME NegInv, ReadEof
  PROVE  NegInv'
<1>1. /\ UNCHANGED <<auth_methods, input, avail, pos, frame, login, granted>>
      /\ pc' = "failed"
  BY DEF ReadEof, Fail, clientVars
<1>2. NegTypes' /\ FrameLayout'
  BY <1>1 DEF NegInv, NegTypes, FrameLayout, States
<1>3. LoginJudged' /\ AccessGranted'
  BY <1>1, JudgementKept DEF Admitted
<1>4. QED BY <1>2, <1>3 DEF NegInv

\* negotiate: the greeting's header
LEMMA GreetingKeepsInv ==
  ASSUME NegInv, ReadGreeting
  PROVE  NegInv'
<1>1. NegTypes /\ FrameLayout /\ pc = "greeting" /\ Filled
  BY DEF NegInv, ReadGreeting
<1>2. Need = 2
  BY <1>1 DEF Need
<1>3. Bytes \in Seq(Byte) /\ Len(Bytes) = 2 /\ pos + 2 \in 0..avail
  BY <1>1, <1>2, FilledBytes
<1>4. /\ UNCHANGED <<auth_methods, input, avail, login, granted>>
      /\ pos' = pos + 2 /\ frame' = Bytes
      /\ \/ pc' = "select" /\ Bytes[2] = 0
         \/ pc' = "method" /\ Bytes[2] # 0
         \/ pc' = "failed"
  BY DEF ReadGreeting, Fail, clientVars
<1>5. Bytes[2] \in Nat
  <2>1. 2 \in 1..Len(Bytes)
    BY <1>3
  <2>2. QED BY <1>3, <2>1, ByteOf
<1>6. NegTypes'
  BY <1>1, <1>3, <1>4 DEF NegTypes, States, Reading
<1>7. FrameLayout'
  <2>1. Len(frame') = 2 /\ frame'[2] = Bytes[2]
    BY <1>3, <1>4
  <2>2. CASE pc' = "select"
    <3>1. Len(frame') >= 2 /\ Len(frame') = frame'[2] + 2
      BY <1>4, <2>1, <2>2
    <3>2. QED BY <2>2, <3>1 DEF FrameLayout
  <2>3. CASE pc' = "method"
    <3>1. Len(frame') >= 2 /\ Len(frame') < frame'[2] + 2
      BY <1>4, <1>5, <2>1, <2>3
    <3>2. QED BY <2>3, <3>1 DEF FrameLayout
  <2>4. QED BY <1>4, <2>2, <2>3 DEF FrameLayout
<1>8. LoginJudged' /\ AccessGranted'
  BY <1>4, JudgementKept DEF Admitted
<1>9. QED BY <1>6, <1>7, <1>8 DEF NegInv

\* get_avalible_methods: one more method
LEMMA MethodKeepsInv ==
  ASSUME NegInv, ReadMethod
  PROVE  NegInv'
<1>1. NegTypes /\ FrameLayout /\ pc = "method" /\ Filled
  BY DEF NegInv, ReadMethod
<1>2. 1 = Need
  BY <1>1 DEF Need
<1>3. pos + 1 \in 0..avail
  BY <1>1, <1>2, FilledBytes
<1>4. /\ UNCHANGED <<auth_methods, input, avail, login, granted>>
      /\ pos' = pos + 1 /\ frame' = frame \o Bytes
      /\ pc' = IF Len(frame) + 1 = frame[2] + 2 THEN "select" ELSE "method"
  BY DEF ReadMethod, clientVars
<1>5. /\ frame' \in Seq(Byte) /\ Len(frame') = Len(frame) + 1 /\ Len(frame) \in Nat
      /\ \A i \in 1..Len(frame) : frame'[i] = frame[i]
  BY <1>1, <1>2, <1>4, Appended
<1>6. Len(frame) >= 2 /\ Len(frame) < frame[2] + 2 /\ frame[2] \in Nat
  <2>1. Len(frame) >= 2 /\ Len(frame) < frame[2] + 2 /\ frame \in Seq(Byte)
    BY <1>1 DEF FrameLayout, NegTypes
  <2>2. 2 \in 1..Len(frame)
    BY <1>5, <2>1
  <2>3. QED BY <2>1, <2>2, ByteOf
<1>7. frame'[2] = frame[2]
  BY <1>5, <1>6
<1>8. NegTypes'
  BY <1>1, <1>3, <1>4, <1>5 DEF NegTypes, States, Reading
<1>9. FrameLayout'
  <2>1. CASE pc' = "select"
    <3>1. Len(frame') >= 2 /\ Len(frame') = frame'[2] + 2
      BY <1>4, <1>5, <1>6, <1>7, <2>1
    <3>2. QED BY <2>1, <3>1 DEF FrameLayout
  <2>2. CASE pc' = "method"
    <3>1. Len(frame) + 1 # frame[2] + 2
      BY <1>4, <2>2
    <3>2. Len(frame') >= 2 /\ Len(frame') < frame'[2] + 2
      BY <1>5, <1>6, <1>7, <3>1
    <3>3. QED BY <2>2, <3>2 DEF FrameLayout
  <2>3. QED BY <1>4, <2>1, <2>2
<1>10. LoginJudged' /\ AccessGranted'
  BY <1>1, <1>4, JudgementKept DEF Admitted
<1>11. QED BY <1>8, <1>9, <1>10 DEF NegInv

\* NOAUTH is chosen only where the server has it.
LEMMA SelectKeepsInv ==
  ASSUME NegInv, SelectMethod
  PROVE  NegInv'
<1>1. /\ UNCHANGED <<auth_methods, input, avail, pos, login, granted>>
      /\ frame' = << >> /\ pc' \in {"login", "request", "failed"}
      /\ pc' = "request" => NoAuth \in Available(Skip(frame, 2))
  BY DEF SelectMethod, Fail, clientVars
<1>2. NegTypes' /\ FrameLayout'
  BY <1>1, EmptySeq DEF NegInv, NegTypes, FrameLayout, States, Reading
<1>3. LoginJudged'
  BY <1>1 DEF NegInv, LoginJudged
<1>4. AccessGranted'
  BY <1>1 DEF AccessGranted, Admitted, Available
<1>5. QED BY <1>2, <1>3, <1>4 DEF NegInv

\* Field by field, a login comes to have its layout.
LEMMA FieldKeepsInv ==
  ASSUME NegInv, ReadField
  PROVE  NegInv'
<1> DEFINE n == Need
<1>1. NegTypes /\ FrameLayout /\ Filled
  BY DEF NegInv, ReadField
<1>2. pc \in Reading \ {"greeting", "method", "request"}
  BY DEF ReadField
<1>3. /\ UNCHANGED <<auth_methods, input, avail, login, granted>>
      /\ pos' = pos + n /\ frame' = frame \o Bytes /\ pc' = Following
  BY DEF ReadField, clientVars
<1>4. pos + n \in 0..avail /\ n \in Nat
  BY <1>1, FilledBytes
<1>5. n = Need
  OBVIOUS
<1> HIDE DEF n
<1>6. /\ frame' \in Seq(Byte) /\ Len(frame') = Len(frame) + n /\ Len(frame) \in Nat
      /\ \A i \in 1..Len(frame) : frame'[i] = frame[i]
  BY <1>1, <1>3, <1>5, Appended
<1>7. frame \in Seq(Byte)
  BY <1>1 DEF NegTypes
<1>8. NegTypes'
  <2>1. pc' \in States
    BY <1>2, <1>3 DEF Following, States, Reading
  <2>2. QED BY <1>1, <1>3, <1>4, <1>6, <2>1 DEF NegTypes
<1>9. FrameLayout'
  <2>1. CASE pc = "login"
    <3>1. n = 2 /\ Len(frame) = 0 /\ pc' = "username"
      BY <1>1, <1>3, <1>5, <2>1 DEF Need, Following, FrameLayout
    <3>2. Len(frame') = 2
      BY <1>6, <3>1
    <3>3. QED BY <3>1, <3>2 DEF FrameLayout
  <2>2. CASE pc = "username"
    <3>1. n = frame[2] /\ Len(frame) = 2 /\ pc' = "plen"
      BY <1>1, <1>3, <1>5, <2>2 DEF Need, Following, FrameLayout
    <3>2. frame'[2] = frame[2]
      BY <1>6, <3>1
    <3>3. Len(frame') >= 2 /\ Len(frame') = 2 + frame'[2]
      BY <1>4, <1>6, <3>1, <3>2
    <3>4. QED BY <3>1, <3>3 DEF FrameLayout
  <2>3. CASE pc = "plen"
    <3>1. n = 1 /\ Len(frame) >= 2 /\ Len(frame) = 2 + frame[2] /\ pc' = "password"
      BY <1>1, <1>3, <1>5, <2>3 DEF Need, Following, FrameLayout
    <3>2. frame'[2] = frame[2]
      BY <1>6, <3>1
    <3>3. frame[2] \in Nat
      <4>1. 2 \in 1..Len(frame)
        BY <1>6, <3>1
      <4>2. QED BY <1>7, <4>1, ByteOf
    <3>4. Len(frame') >= 3 /\ Len(frame') = 3 + frame'[2]
      BY <1>6, <3>1, <3>2, <3>3
    <3>5. QED BY <3>1, <3>4 DEF FrameLayout
  <2>4. CASE pc = "password"
    <3>1. n = Last(frame) /\ Len(frame) >= 3 /\ Len(frame) = 3 + frame[2] /\ pc' = "verdict"
      BY <1>1, <1>3, <1>5, <2>4 DEF Need, Following, FrameLayout
    <3>2. n = frame[3 + frame[2]]
      BY <3>1 DEF Last
    <3>3. frame'[2] = frame[2] /\ frame'[3 + frame[2]] = frame[3 + frame[2]]
      <4>1. 2 \in 1..Len(frame) /\ Len(frame) \in 1..Len(frame)
        BY <1>6, <3>1
      <4>2. QED BY <1>6, <3>1, <4>1
    <3>4. frame[2] \in Nat
      <4>1. 2 \in 1..Len(frame)
        BY <1>6, <3>1
      <4>2. QED BY <1>7, <4>1, ByteOf
    <3>5. LoginLayout(frame')
      <4> DEFINE a == frame[2]
      <4>1. /\ a \in Nat /\ Len(frame') = 3 + a + n
            /\ frame'[2] = a /\ frame'[3 + a] = n
        BY <1>6, <3>1, <3>2, <3>3, <3>4
      <4> HIDE DEF a
      <4>2. Len(frame') >= 3 /\ Len(frame') >= 3 + a
        BY <1>4, <4>1
      <4>3. QED BY <1>6, <4>1, <4>2 DEF LoginLayout
    <3>6. QED BY <3>1, <3>5 DEF FrameLayout, LoginLayout
  <2>5. CASE pc \in {"addr4", "addr16", "dlen", "domain", "port"}
    <3>1. Len(frame) >= 4 /\ pc' \in {"domain", "port", "parse"}
      BY <1>1, <1>3, <2>5 DEF Following, FrameLayout
    <3>2. Len(frame') >= 4
      BY <1>4, <1>6, <3>1
    <3>3. QED BY <3>1, <3>2 DEF FrameLayout
  <2>6. QED BY <1>2, <2>1, <2>2, <2>3, <2>4, <2>5 DEF Reading
<1>10. pc' \in Admitted => pc \in Admitted
  BY <1>2, <1>3 DEF Following, Admitted, Reading
<1>11. LoginJudged' /\ AccessGranted'
  BY <1>3, <1>10, JudgementKept
<1>12. QED BY <1>8, <1>9, <1>11 DEF NegInv

\* The verdict is exact, and only a granted login goes on.
LEMMA VerdictKeepsInv ==
  ASSUME NegInv, Verdict
  PROVE  NegInv'
<1>1. /\ UNCHANGED <<auth_methods, input, avail, pos>>
      /\ login' = frame /\ frame' = << >>
      /\ granted' = LoginAccepted(frame)
      /\ pc' \in {"request", "failed"} /\ (pc' = "request" => granted')
  BY DEF Verdict, Fail, LoginAccepted, clientVars
<1>2. NegTypes' /\ FrameLayout'
  BY <1>1, EmptySeq DEF NegInv, NegTypes, FrameLayout, States, Reading
<1>3. LoginLayout(frame)
  BY DEF NegInv, FrameLayout, Verdict
<1>4. granted' = (\E i \in DOMAIN Users : frame = LoginFrame(Users[i]))
  <2>1. LoginAccepted(frame) \in BOOLEAN
    BY DEF LoginAccepted
  <2>2. QED BY <1>1, <1>3, <2>1, VerdictIsExact
<1>5. LoginJudged'
  BY <1>1, <1>4 DEF LoginJudged
<1>6. AccessGranted'
  BY <1>1 DEF AccessGranted, Admitted
<1>7. QED BY <1>2, <1>5, <1>6 DEF NegInv

\* from_stream: the fixed header of the request
LEMMA RequestKeepsInv ==
  ASSUME NegInv, ReadRequest
  PROVE  NegInv'
<1>1. NegTypes /\ FrameLayout /\ pc = "request" /\ Filled
  BY DEF NegInv, ReadRequest
<1>2. Need = 4
  BY <1>1 DEF Need
<1>3. Bytes \in Seq(Byte) /\ Len(Bytes) = 4 /\ pos + 4 \in 0..avail
  BY <1>1, <1>2, FilledBytes
<1>4. /\ UNCHANGED <<auth_methods, input, avail, login, granted>>
      /\ pos' = pos + 4 /\ frame' = Bytes
  BY DEF ReadRequest, clientVars
<1>5. pc' \in {"addr4", "addr16", "dlen", "failed"}
  <2>1. CASE Bytes[4] \in AddrTypes
    BY <2>1 DEF ReadRequest, Fail, AddrTypes, V4, V6, Domain
  <2>2. CASE Bytes[4] \notin AddrTypes
    BY <2>2 DEF ReadRequest, Fail
  <2>3. QED BY <2>1, <2>2
<1>6. NegTypes'
  BY <1>1, <1>3, <1>4, <1>5 DEF NegTypes, States, Reading
<1>7. FrameLayout'
  <2>1. Len(frame') = 4
    BY <1>3, <1>4
  <2>2. Len(frame') >= 4
    BY <2>1
  <2>3. QED BY <1>5, <2>2 DEF FrameLayout
<1>8. LoginJudged' /\ AccessGranted'
  BY <1>1, <1>4, JudgementKept DEF Admitted
<1>9. QED BY <1>6, <1>7, <1>8 DEF NegInv

\* from_stream: the request as a whole
LEMMA ParseKeepsInv ==
  ASSUME NegInv, ParseRequest
  PROVE  NegInv'
<1>1. /\ UNCHANGED <<auth_methods, input, avail, pos, frame, login, granted>>
      /\ pc = "parse" /\ pc' \in {"ready", "failed"}
  BY DEF ParseRequest, Fail, clientVars
<1>2. NegTypes' /\ FrameLayout'
  BY <1>1 DEF NegInv, NegTypes, FrameLayout, States
<1>3. LoginJudged' /\ AccessGranted'
  BY <1>1, JudgementKept DEF Admitted
<1>4. QED BY <1>2, <1>3 DEF NegInv

\* Answers and datagrams do not touch the reader.
LEMMA ReaderUntouched ==
  ASSUME NegInv, UNCHANGED <<clientVars, readVars>>
  PROVE  NegInv'
<1>1. NegTypes' /\ FrameLayout'
  BY DEF NegInv, NegTypes, FrameLayout, clientVars, readVars, LoginLayout
<1>2. LoginJudged' /\ AccessGranted'
  BY JudgementKept DEF clientVars, readVars
<1>3. QED BY <1>1, <1>2 DEF NegInv

\* Every step keeps the invariant.
LEMMA NegInvHolds == Spec => []NegInv
<1>1. ASSUME NegInv, [Next]_vars
      PROVE  NegInv'
  <2>1. CASE Deliver \/ CloseInput
    BY <1>1, <2>1, ClientKeepsInv
  <2>2. CASE ReaderStep
    BY <1>1, <2>2, EofKeepsInv, GreetingKeepsInv, MethodKeepsInv, SelectKeepsInv,
       FieldKeepsInv, VerdictKeepsInv, RequestKeepsInv, ParseKeepsInv
       DEF ReaderStep
  <2>3. CASE UNCHANGED <<clientVars, readVars>>
    BY <1>1, <2>3, ReaderUntouched
  <2>4. QED BY <1>1, <2>1, <2>2, <2>3
            DEF Next, AnswerRequest, ForwardDatagram, ReturnDatagram, vars
<1>2. QED BY <1>1, InitNegInv, PTL DEF Spec

\* SOCKClient::auth grants a login exactly when it is, byte for byte, the
\* frame of a configured user, for every list of users and every stream of
\* bytes, and lets nobody past it ungranted unless NOAUTH is configured.
THEOREM CredentialsAreExact == Spec => []CredentialsExact
<1>1. NegInv => CredentialsExact
  BY DEF NegInv, LoginJudged, AccessGranted, Admitted, CredentialsExact
<1>2. QED BY <1>1, NegInvHolds, PTL

-----------------------------------------------------------------------------
(* Address and port                                                        *)

\* An address of type t begins at byte s + 1 of b and is l bytes long.
AddrAt(b, t, s, l) ==
  \/ t = V4 /\ s = 0 /\ l = 4
  \/ t = V6 /\ s = 0 /\ l = 16
  \/ t = Domain /\ b # << >> /\ s = 1 /\ l = b[1]

\* take_addr reads that address, or finds the bytes missing.
LEMMA AddrTaken ==
  ASSUME NEW b \in Seq(Byte), NEW t, NEW s, NEW l, AddrAt(b, t, s, l)
  PROVE  /\ s \in Nat /\ l \in Nat
         /\ s + l <= Len(b) => take_addr(b, t) = Ok(SubSeq(b, s + 1, s + l), Skip(b, s + l))
         /\ s + l > Len(b) => take_addr(b, t) = truncated
<1>1. Len(b) \in Nat
  OBVIOUS
<1>2. ASSUME s = 0, l \in Nat, take_addr(b, t) = take(b, l)
      PROVE  /\ s + l <= Len(b) =>
                  take_addr(b, t) = Ok(SubSeq(b, s + 1, s + l), Skip(b, s + l))
             /\ s + l > Len(b) => take_addr(b, t) = truncated
  BY <1>1, <1>2, Taken
<1>3. CASE t = V4 /\ s = 0 /\ l = 4
  BY <1>2, <1>3 DEF take_addr, V4, V6, Domain
<1>4. CASE t = V6 /\ s = 0 /\ l = 16
  BY <1>2, <1>4 DEF take_addr, V4, V6, Domain
<1>5. CASE t = Domain /\ b # << >> /\ s = 1 /\ l = b[1]
  <2> DEFINE c == Skip(b, 1)
  <2>1. Tail(b) = c /\ Head(b) = l /\ Len(b) >= 1
    BY <1>5, TailSkips
  <2>2. l \in Nat
    <3>1. 1 \in 1..Len(b)
      BY <1>1, <2>1
    <3>2. QED BY <1>5, <3>1, ByteOf
  <2>3. take_addr(b, t) = take(c, l)
    <3>1. t = 3 /\ b # << >>
      BY <1>5 DEF Domain
    <3>2. take_addr(b, t) = take(Tail(b), Head(b))
      BY <3>1 DEF take_addr, V4, V6, Domain
    <3> HIDE DEF c
    <3>3. QED BY <2>1, <3>2
  <2>4. c \in Seq(Byte) /\ Len(c) = Len(b) - 1
    BY <1>1, <2>1, Skipped
  <2>5. CASE 1 + l <= Len(b)
    <3>1. l <= Len(c)
      BY <1>1, <2>2, <2>4, <2>5
    <3>2. take(c, l) = Ok(SubSeq(c, 1, l), Skip(c, l))
      BY <2>2, <2>4, <3>1, Taken
    <3>3. Skip(c, l) = Skip(b, 1 + l)
      BY <2>2, <2>5, SkipTwice
    <3>4. SubSeq(c, 1, l) = SubSeq(b, 1 + 1, 1 + l)
      <4> DEFINE k == 1
      <4>1. k \in Nat /\ k + l <= Len(b)
        BY <2>5
      <4> HIDE DEF k
      <4>2. SubSeq(Skip(b, k), 1, l) = SubSeq(b, k + 1, k + l)
        BY <2>2, <4>1, HeadOfSkip
      <4>3. QED BY <4>2 DEF k
    <3> HIDE DEF c
    <3>5. take_addr(b, t) = Ok(SubSeq(b, 1 + 1, 1 + l), Skip(b, 1 + l))
      BY <2>3, <3>2, <3>3, <3>4
    <3>6. ~(1 + l > Len(b))
      BY <1>1, <2>2, <2>5
    <3>7. QED BY <1>5, <2>2, <3>5, <3>6
  <2>6. CASE 1 + l > Len(b)
    <3>1. l > Len(c)
      BY <1>1, <2>2, <2>4, <2>6
    <3>2. QED BY <1>1, <1>5, <2>2, <2>3, <2>4, <2>6, <3>1, Taken
  <2>7. QED BY <1>1, <2>2, <2>5, <2>6
<1>6. QED BY <1>3, <1>4, <1>5 DEF AddrAt

\* The port that follows k bytes, and what follows the port.
LEMMA PortTaken ==
  ASSUME NEW b \in Seq(Byte), NEW k \in Nat, k <= Len(b)
  PROVE  /\ k + 2 <= Len(b) => take_port(Skip(b, k)) =
                                 Ok(b[k + 1] * 256 + b[k + 2], Skip(b, k + 2))
         /\ k + 2 > Len(b) => take_port(Skip(b, k)) = truncated
<1> DEFINE c == Skip(b, k)
<1>1. /\ Len(b) \in Nat
      /\ c \in Seq(Byte) /\ Len(c) = Len(b) - k
      /\ \A i \in 1..(Len(b) - k) : c[i] = b[k + i]
  BY Skipped
<1>2. CASE k + 2 <= Len(b)
  <2>1. Skip(c, 2) = Skip(b, k + 2)
    BY <1>2, SkipTwice
  <2> HIDE DEF c
  <2>2. 1 \in 1..(Len(b) - k) /\ 2 \in 1..(Len(b) - k) /\ ~(Len(c) < 2)
    BY <1>1, <1>2
  <2>3. c[1] = b[k + 1] /\ c[2] = b[k + 2]
    BY <1>1, <2>2
  <2>4. take_port(c) = Ok(c[1] * 256 + c[2], Skip(c, 2))
    BY <2>2 DEF take_port
  <2>5. take_port(c) = Ok(b[k + 1] * 256 + b[k + 2], Skip(b, k + 2))
    BY <2>1, <2>3, <2>4
  <2>6. QED BY <1>1, <1>2, <2>5 DEF c
<1>3. CASE k + 2 > Len(b)
  <2> HIDE DEF c
  <2>1. Len(c) < 2
    BY <1>1, <1>3
  <2>2. take_port(c) = truncated
    BY <2>1 DEF take_port
  <2>3. QED BY <1>1, <1>3, <2>2 DEF c
<1>4. QED BY <1>1, <1>2, <1>3

\* Address and port of b, read into a pair.
Pair(b, t) == TakeTarget(b, t, LAMBDA a, p : <<a, p>>)

\* where take_addr and take_port find them.
LEMMA PairTaken ==
  ASSUME NEW b \in Seq(Byte), NEW t, NEW s, NEW l, AddrAt(b, t, s, l),
         s + l + 2 <= Len(b)
  PROVE  Pair(b, t)
           = Ok(<<SubSeq(b, s + 1, s + l), b[s + l + 1] * 256 + b[s + l + 2]>>,
                Skip(b, s + l + 2))
<1> DEFINE k == s + l
           addr == SubSeq(b, s + 1, s + l)
           port == b[k + 1] * 256 + b[k + 2]
<1>1. s \in Nat /\ l \in Nat /\ Len(b) \in Nat
  BY AddrTaken
<1>2. k \in Nat /\ k + 2 <= Len(b) /\ k <= Len(b)
  BY <1>1
<1>3. take_addr(b, t) = Ok(addr, Skip(b, k))
  BY <1>1, <1>2, AddrTaken
<1> HIDE DEF k
<1>4. take_port(Skip(b, k)) = Ok(port, Skip(b, k + 2))
  BY <1>2, PortTaken
<1> HIDE DEF addr, port
<1>5. Pair(b, t) = Ok(<<addr, port>>, Skip(b, k + 2))
  BY <1>3, <1>4, OkFields DEF Pair, TakeTarget, Try
<1>6. QED BY <1>5 DEF addr, port, k

\* The header of a datagram, read into a record.
UdpTarget(b, t, g) ==
  TakeTarget(b, t, LAMBDA addr, port :
    [frag |-> g, addr_type |-> t, addr |-> addr, port |-> port])

\* It is complete, or truncated.
LEMMA HeaderTaken ==
  ASSUME NEW g, NEW b \in Seq(Byte), NEW t, NEW s, NEW l, AddrAt(b, t, s, l)
  PROVE  /\ s + l + 2 <= Len(b) =>
              UdpTarget(b, t, g) =
                Ok([frag |-> g, addr_type |-> t, addr |-> SubSeq(b, s + 1, s + l),
                    port |-> b[s + l + 1] * 256 + b[s + l + 2]],
                   Skip(b, s + l + 2))
         /\ s + l + 2 > Len(b) => UdpTarget(b, t, g) = truncated
<1> DEFINE k == s + l
           addr == SubSeq(b, s + 1, s + l)
           port == b[k + 1] * 256 + b[k + 2]
           r == UdpTarget(b, t, g)
<1>1. s \in Nat /\ l \in Nat /\ Len(b) \in Nat /\ k \in Nat
  BY AddrTaken
<1>2. ~truncated.ok
  BY ErrFields DEF truncated
<1>3. CASE k > Len(b)
  <2>1. take_addr(b, t) = truncated
    BY <1>3, AddrTaken
  <2>2. r = truncated
    BY <1>2, <2>1 DEF UdpTarget, TakeTarget, Try
  <2>3. ~(s + l + 2 <= Len(b))
    BY <1>1, <1>3
  <2>4. QED BY <2>2, <2>3
<1>4. CASE k <= Len(b)
  <2>1. take_addr(b, t) = Ok(addr, Skip(b, k))
    BY <1>1, <1>4, AddrTaken
  <2>2. /\ k + 2 <= Len(b) => take_port(Skip(b, k)) = Ok(port, Skip(b, k + 2))
        /\ k + 2 > Len(b) => take_port(Skip(b, k)) = truncated
    BY <1>1, <1>4, PortTaken
  <2> HIDE DEF addr, port, k
  <2>3. CASE k + 2 <= Len(b)
    <3>1. r = Ok([frag |-> g, addr_type |-> t, addr |-> addr, port |-> port],
                 Skip(b, k + 2))
      BY <2>1, <2>2, <2>3, OkFields DEF UdpTarget, TakeTarget, Try
    <3>2. ~(k + 2 > Len(b))
      BY <1>1, <2>3
    <3> HIDE DEF r
    <3>3. QED BY <3>1, <3>2 DEF addr, port, k, r
  <2>4. CASE k + 2 > Len(b)
    <3>1. r = truncated
      BY <1>2, <2>1, <2>2, <2>4, OkFields DEF UdpTarget, TakeTarget, Try
    <3>2. ~(k + 2 <= Len(b))
      BY <1>1, <2>4
    <3> HIDE DEF r
    <3>3. QED BY <3>1, <3>2 DEF k, r
  <2>5. QED BY <1>1, <2>3, <2>4
<1>5. QED BY <1>1, <1>3, <1>4

\* What parse_udp_header makes of the header of d, if there is all of it.
HeaderOf(d, s, l) ==
  [frag |-> d[3], addr_type |-> d[4],
   addr |-> SubSeq(d, (4 + s) + 1, (4 + s) + l),
   port |-> d[4 + s + l + 1] * 256 + d[4 + s + l + 2]]

\* parse_udp_header is exact about what is missing.
LEMMA HeaderParsed ==
  ASSUME NEW d \in Seq(Byte), Len(d) >= 4, d[4] \in AddrTypes,
         NEW s, NEW l, AddrAt(Skip(d, 4), d[4], s, l)
  PROVE  /\ s \in Nat /\ l \in Nat
         /\ 4 + s + l + 2 <= Len(d) =>
              parse_udp_header(d) = Ok(HeaderOf(d, s, l), Skip(d, 4 + s + l + 2))
         /\ 4 + s + l + 2 > Len(d) => parse_udp_header(d) = truncated
<1> DEFINE b == Skip(d, 4)
           n == s + l + 2
<1>1. Len(d) \in Nat /\ ~(Len(d) < 4)
  OBVIOUS
<1>2. /\ b \in Seq(Byte) /\ Len(b) = Len(d) - 4
      /\ \A i \in 1..(Len(d) - 4) : b[i] = d[4 + i]
  <2> DEFINE k == 4
  <2>1. k \in Nat /\ k <= Len(d)
    BY <1>1
  <2> HIDE DEF k
  <2>2. /\ Skip(d, k) \in Seq(Byte) /\ Len(Skip(d, k)) = Len(d) - k
        /\ \A i \in 1..(Len(d) - k) : Skip(d, k)[i] = d[k + i]
    BY <2>1, Skipped
  <2>3. QED BY <2>2 DEF k
<1>3. s \in Nat /\ l \in Nat /\ n \in Nat
  BY <1>2, AddrTaken
<1>4. parse_udp_header(d) = UdpTarget(b, d[4], d[3])
  BY <1>1 DEF parse_udp_header, UdpTarget, TakeTarget, Try
<1>5. CASE 4 + s + l + 2 <= Len(d)
  <2>1. n <= Len(b)
    BY <1>1, <1>2, <1>3, <1>5
  <2>2. parse_udp_header(d) =
          Ok([frag |-> d[3], addr_type |-> d[4], addr |-> SubSeq(b, s + 1, s + l),
              port |-> b[s + l + 1] * 256 + b[s + l + 2]], Skip(b, n))
    BY <1>2, <1>4, <2>1, HeaderTaken
  <2>3. SubSeq(b, s + 1, s + l) = SubSeq(d, (4 + s) + 1, (4 + s) + l)
    <3> DEFINE k == 4
    <3>1. k \in Nat /\ k + s + l <= Len(d)
      BY <1>1, <1>3, <1>5
    <3> HIDE DEF k
    <3>2. SubSeq(Skip(d, k), s + 1, s + l) = SubSeq(d, (k + s) + 1, (k + s) + l)
      BY <1>3, <3>1, PieceOfSkip
    <3>3. QED BY <3>2 DEF k
  <2>4. Skip(b, n) = Skip(d, 4 + s + l + 2)
    <3> DEFINE k == 4
    <3>1. k \in Nat /\ k + n <= Len(d) /\ k + n = 4 + s + l + 2
      BY <1>1, <1>3, <1>5
    <3> HIDE DEF k, n
    <3>2. Skip(Skip(d, k), n) = Skip(d, k + n)
      BY <1>3, <3>1, SkipTwice
    <3>3. QED BY <3>1, <3>2 DEF k
  <2>5. b[s + l + 1] = d[4 + s + l + 1] /\ b[s + l + 2] = d[4 + s + l + 2]
    <3>1. s + l + 1 \in 1..(Len(d) - 4) /\ s + l + 2 \in 1..(Len(d) - 4)
      BY <1>1, <1>3, <1>5
    <3>2. b[s + l + 1] = d[4 + (s + l + 1)] /\ b[s + l + 2] = d[4 + (s + l + 2)]
      BY <1>2, <3>1
    <3>3. 4 + (s + l + 1) = 4 + s + l + 1 /\ 4 + (s + l + 2) = 4 + s + l + 2
      BY <1>3
    <3>4. QED BY <3>2, <3>3
  <2> HIDE DEF b, n
  <2>6. parse_udp_header(d) = Ok(HeaderOf(d, s, l), Skip(d, 4 + s + l + 2))
    BY <2>2, <2>3, <2>4, <2>5 DEF HeaderOf
  <2>7. ~(4 + s + l + 2 > Len(d))
    BY <1>1, <1>3, <1>5
  <2>8. QED BY <1>3, <2>6, <2>7
<1>6. CASE 4 + s + l + 2 > Len(d)
  <2>1. s + l + 2 > Len(b)
    BY <1>1, <1>2, <1>3, <1>6
  <2>2. parse_udp_header(d) = truncated
    <3>1. AddrAt(b, d[4], s, l)
      OBVIOUS
    <3> HIDE DEF b
    <3>2. UdpTarget(b, d[4], d[3]) = truncated
      BY <1>2, <2>1, <3>1, HeaderTaken, ZenonT(60)
    <3>3. QED BY <1>4, <3>2
  <2>3. ~(4 + s + l + 2 <= Len(d))
    BY <1>1, <1>3, <1>6
  <2>4. QED BY <1>3, <2>2, <2>3
<1>7. QED BY <1>1, <1>3, <1>5, <1>6

-----------------------------------------------------------------------------
(* A datagram of the client                                                *)

\* A port is two bytes in network order.
LEMMA PortBytes ==
  ASSUME NEW x \in Byte, NEW y \in Byte
  PROVE  /\ x * 256 + y \in Port
         /\ ToBytes(x * 256 + y) = <<x, y>>
<1>1. x \in 0..255 /\ y \in 0..255
  BY DEF Byte
<1>2. x * 256 + y \in Port
  <2> DEFINE z == x * 256 + y
  <2>1. x \in Int /\ y \in Int /\ 0 <= x /\ x <= 255 /\ 0 <= y /\ y <= 255
    BY <1>1
  <2>2. z \in Int /\ 0 <= z /\ z <= 256 * 256 - 1
    BY <2>1
  <2> DEFINE top == 256 * 256 - 1
  <2>3. top \in Int /\ z <= top
    BY <2>2
  <2> HIDE DEF z, top
  <2>4. z \in 0..top
    BY <2>2, <2>3
  <2>5. QED BY <2>4 DEF z, top, Port
<1>3. (x * 256 + y) \div 256 = x /\ (x * 256 + y) % 256 = y
  BY <1>1
<1>4. QED BY <1>2, <1>3 DEF ToBytes

\* Two adjacent pieces
LEMMA Adjacent ==
  ASSUME NEW b \in Seq(Byte), NEW m \in Nat, NEW n \in Nat, m <= n, n <= Len(b)
  PROVE  SubSeq(b, 1, m) \o SubSeq(b, m + 1, n) = SubSeq(b, 1, n)
<1>1. /\ 1 \in 1..(Len(b) + 1) /\ m \in (1 - 1)..Len(b) /\ n \in m..Len(b)
  OBVIOUS
<1>2. QED BY <1>1, ConcatAdjacentSubSeq, Zenon

\* The header has an address where its type says.
LEMMA HeaderAddr ==
  ASSUME NEW d \in Seq(Byte), Len(d) >= 4, d[4] \in AddrTypes,
         d[4] # Domain \/ Len(d) >= 5
  PROVE  \E s, l : /\ AddrAt(Skip(d, 4), d[4], s, l) /\ s \in Nat /\ l \in Nat
                   /\ HeaderEnd(d) = 4 + s + l + 2
<1> DEFINE k == 4
           b == Skip(d, k)
<1>1. Len(d) \in Nat /\ k \in Nat /\ k <= Len(d)
  OBVIOUS
<1>2. CASE d[4] = V4
  <2>1. AddrAt(b, d[4], 0, 4) /\ HeaderEnd(d) = 10 /\ 4 + 0 + 4 + 2 = 10
    BY <1>2 DEF AddrAt, HeaderEnd, V4, V6, Domain
  <2>2. QED BY <2>1
<1>3. CASE d[4] = V6
  <2>1. AddrAt(b, d[4], 0, 16) /\ HeaderEnd(d) = 22 /\ 4 + 0 + 16 + 2 = 22
    BY <1>3 DEF AddrAt, HeaderEnd, V4, V6, Domain
  <2>2. QED BY <2>1
<1>4. CASE d[4] = Domain
  <2>1. Len(d) >= 5
    BY <1>4
  <2> HIDE DEF k
  <2>2. /\ b \in Seq(Byte) /\ Len(b) = Len(d) - k
        /\ \A i \in 1..(Len(d) - k) : b[i] = d[k + i]
    BY <1>1, Skipped
  <2> HIDE DEF b
  <2>3. 1 \in 1..(Len(d) - k) /\ k + 1 = 5 /\ 5 \in 1..Len(d)
    BY <1>1, <2>1 DEF k
  <2>4. b[1] = d[5] /\ b # << >>
    BY <1>1, <2>2, <2>3
  <2>5. d[5] \in Nat
    BY <2>3, ByteOf
  <2>6. HeaderEnd(d) = 7 + d[5]
    BY <1>1, <1>4, <2>1 DEF HeaderEnd, V4, V6, Domain
  <2>7. AddrAt(b, d[4], 1, d[5])
    BY <1>4, <2>4 DEF AddrAt
  <2>8. 7 + d[5] = 4 + 1 + d[5] + 2
    BY <2>5
  <2>9. QED BY <2>5, <2>6, <2>7, <2>8 DEF b, k
<1>5. QED BY <1>2, <1>3, <1>4 DEF AddrTypes

\* What goes to the destination: exactly for well-formed datagrams, the
\* payload, to the address and port in the header.
Forwarded(d, r, e) ==
  /\ (r.ok /\ r.val.frag = 0) <=> WellFormed(d)
  /\ WellFormed(d) =>
       /\ r.val.addr \in Seq(Byte) /\ r.val.port \in Port
       /\ r.rest \in Seq(Byte) /\ r.rest = Skip(d, e)
       /\ SubSeq(d, 1, e) =
            SubSeq(d, 1, e - Len(r.val.addr) - 2) \o r.val.addr \o ToBytes(r.val.port)

\* So it is for every datagram.
LEMMA ForwardedFaithfully ==
  ASSUME NEW d \in Seq(Byte)
  PROVE  Forwarded(d, parse_udp_header(d), HeaderEnd(d))
<1> DEFINE r == parse_udp_header(d)
<1>1. Len(d) \in Nat /\ ~truncated.ok /\ ~Err("AddrTypeNotSupported").ok
  BY ErrFields DEF truncated
<1>2. CASE Len(d) < 4
  <2>1. r = truncated
    BY <1>2 DEF parse_udp_header
  <2>2. ~WellFormed(d)
    BY <1>1, <1>2 DEF WellFormed
  <2>3. QED BY <1>1, <2>1, <2>2 DEF Forwarded
<1>3. CASE Len(d) >= 4 /\ d[4] \notin AddrTypes
  <2>0. ~(Len(d) < 4)
    BY <1>1, <1>3
  <2>1. r = Err("AddrTypeNotSupported")
    BY <1>3, <2>0 DEF parse_udp_header
  <2>2. ~WellFormed(d)
    BY <1>3 DEF WellFormed
  <2>3. QED BY <1>1, <2>1, <2>2 DEF Forwarded
<1>4. CASE Len(d) >= 4 /\ d[4] = Domain /\ Len(d) < 5
  <2>1. HeaderEnd(d) = 7
    BY <1>4 DEF HeaderEnd, V4, V6, Domain
  <2>2. ~WellFormed(d)
    BY <1>1, <1>4, <2>1 DEF WellFormed
  <2>3. Skip(d, 4) = << >>
    <3> DEFINE n == Len(d)
    <3>1. n \in Nat /\ n >= 4 /\ n < 5
      BY <1>1, <1>4
    <3> HIDE DEF n
    <3>2. n = 4
      BY <3>1
    <3>3. QED BY <3>2 DEF n, Skip
  <2>4. take_addr(<< >>, d[4]) = truncated
    BY <1>4 DEF take_addr, V4, V6, Domain
  <2>5. r = truncated
    BY <1>1, <1>4, <2>3, <2>4 DEF parse_udp_header, TakeTarget, Try, AddrTypes
  <2>6. QED BY <1>1, <2>2, <2>5 DEF Forwarded
<1>5. CASE Len(d) >= 4 /\ d[4] \in AddrTypes /\ (d[4] # Domain \/ Len(d) >= 5)
  <2>1. PICK s, l : /\ AddrAt(Skip(d, 4), d[4], s, l) /\ s \in Nat /\ l \in Nat
                    /\ HeaderEnd(d) = 4 + s + l + 2
    BY <1>5, HeaderAddr
  <2> DEFINE e == 4 + s + l + 2
             m == 4 + s
             k == m + l
             v == HeaderOf(d, s, l)
             addr == SubSeq(d, m + 1, m + l)
             port == d[k + 1] * 256 + d[k + 2]
  <2>2. /\ e \in Nat /\ m \in Nat /\ k \in Nat /\ e = k + 2 /\ m <= k /\ k <= e
        /\ e - l - 2 = m
    BY <2>1
  <2>3. /\ e <= Len(d) => r = Ok(v, Skip(d, e))
        /\ e > Len(d) => r = truncated
    BY <1>5, <2>1, HeaderParsed
  <2>4. v.frag = d[3] /\ v.addr = addr /\ v.port = port
    BY <2>1 DEF HeaderOf
  <2>5. WellFormed(d) <=> d[3] = 0 /\ Len(d) >= e
    BY <1>5, <2>1 DEF WellFormed
  <2> HIDE DEF e, m, k, v, addr, port, r
  <2>6. CASE e > Len(d)
    <3>1. ~(Len(d) >= e)
      BY <1>1, <2>2, <2>6
    <3>2. QED BY <1>1, <2>3, <2>5, <2>6, <3>1 DEF r, Forwarded
  <2>7. CASE e <= Len(d)
    <3>1. r.ok /\ r.val = v /\ r.rest = Skip(d, e)
      BY <2>3, <2>7, OkFields
    <3>2. addr \in Seq(Byte) /\ Len(addr) = l
      BY <2>1, <2>2, <2>7, Piece DEF addr, k
    <3>3. d[k + 1] \in Byte /\ d[k + 2] \in Byte
      <4>1. k + 1 \in 1..Len(d) /\ k + 2 \in 1..Len(d)
        BY <1>1, <2>2, <2>7
      <4>2. QED BY <4>1, ByteOf
    <3>4. port \in Port /\ ToBytes(port) = <<d[k + 1], d[k + 2]>>
      BY <3>3, PortBytes DEF port
    <3>5. Skip(d, e) \in Seq(Byte)
      BY <2>2, <2>7, Skipped
    <3>6. SubSeq(d, 1, m) \o addr = SubSeq(d, 1, k)
      BY <1>1, <2>2, <2>7, Adjacent DEF addr, k
    <3>7. SubSeq(d, k + 1, e) = <<d[k + 1], d[k + 2]>>
      <4> DEFINE n == 2
      <4>1. n \in Nat /\ k + n <= Len(d) /\ e = k + n
        BY <2>2, <2>7
      <4> HIDE DEF n
      <4>2. /\ SubSeq(d, k + 1, k + n) \in Seq(Byte) /\ Len(SubSeq(d, k + 1, k + n)) = n
            /\ \A i \in 1..n : SubSeq(d, k + 1, k + n)[i] = d[k + i]
        BY <2>2, <4>1, Piece
      <4> DEFINE q == SubSeq(d, k + 1, k + n)
      <4>3. q \in Seq(Byte) /\ Len(q) = 2 /\ q[1] = d[k + 1] /\ q[2] = d[k + 2]
        BY <4>2 DEF n
      <4> HIDE DEF q
      <4>4. q = <<d[k + 1], d[k + 2]>>
        BY <4>3
      <4>5. QED BY <4>1, <4>4 DEF q
    <3>8. SubSeq(d, 1, k) \o SubSeq(d, k + 1, e) = SubSeq(d, 1, e)
      BY <2>2, <2>7, Adjacent
    <3>9. SubSeq(d, 1, e) = (SubSeq(d, 1, e - Len(addr) - 2) \o addr) \o ToBytes(port)
      BY <2>2, <3>2, <3>4, <3>6, <3>7, <3>8
    <3>10. HeaderEnd(d) = e
      BY <2>1 DEF e
    <3>11. (r.ok /\ r.val.frag = 0) <=> WellFormed(d)
      BY <2>4, <2>5, <2>7, <3>1
    <3>12. r.val.addr = addr /\ r.val.port = port
      BY <2>4, <3>1
    <3>13. QED
      BY <3>1, <3>2, <3>4, <3>5, <3>9, <3>10, <3>11, <3>12 DEF r, Forwarded
  <2>8. e > Len(d) \/ e <= Len(d)
    BY <1>1, <2>2
  <2>9. QED BY <2>6, <2>7, <2>8
<1>6. Len(d) < 4 \/ Len(d) >= 4
  BY <1>1
<1>7. Len(d) < 5 \/ Len(d) >= 5
  BY <1>1
<1>8. d[4] = Domain => d[4] \in AddrTypes
  BY DEF AddrTypes
<1>9. QED BY <1>2, <1>3, <1>4, <1>5, <1>6, <1>7, <1>8

-----------------------------------------------------------------------------
(* The encoders                                                            *)

\* A port is written as two bytes that are read as the port.
LEMMA PortWritten ==
  ASSUME NEW p \in Port
  PROVE  /\ p \div 256 \in Byte /\ p % 256 \in Byte
         /\ (p \div 256) * 256 + (p % 256) = p
<1>1. p \in Int /\ 0 <= p /\ p <= 256 * 256 - 1
  <2> DEFINE top == 256 * 256 - 1
  <2>1. p \in 0..top
    BY Zenon DEF Port
  <2>2. top \in Int
    OBVIOUS
  <2> HIDE DEF top
  <2>3. p \in Int /\ 0 <= p /\ p <= top
    BY <2>1, <2>2
  <2>4. QED BY <2>3 DEF top
<1> DEFINE q == p \div 256
           r == p % 256
<1>2. q \in Int /\ r \in Int /\ 0 <= r /\ r <= 255 /\ p = 256 * q + r
  BY <1>1
<1> HIDE DEF q, r
<1>3. 0 <= q /\ q <= 255 /\ q * 256 + r = p
  BY <1>1, <1>2
<1>4. q \in Byte /\ r \in Byte
  BY <1>2, <1>3 DEF Byte
<1>5. QED BY <1>3, <1>4 DEF q, r

\* A socket address
Address(a) == a.ip \in Seq(Byte) /\ Len(a.ip) \in {4, 16} /\ a.port \in Port

\* f is the header h, the address a and the data d, each where the parsers
\* look for it.
LaidOut(f, h, a, d) ==
  LET n == Len(a.ip) IN
    /\ f \in Seq(Byte) /\ Len(f) = 4 + n + 2 + Len(d)
    /\ \A i \in 1..3 : f[i] = h[i]
    /\ f[4] \in {V4, V6} /\ AddrAt(Skip(f, 4), f[4], 0, n)
    /\ SubSeq(f, 4 + 1, 4 + n) = a.ip
    /\ f[4 + n + 1] * 256 + f[4 + n + 2] = a.port
    /\ Skip(f, 4 + n + 2) = d

\* How concatenations are grouped does not matter.
LEMMA Regrouped ==
  ASSUME NEW a \in Seq(Byte), NEW b \in Seq(Byte), NEW c \in Seq(Byte)
  PROVE  a \o (b \o c) = (a \o b) \o c
BY ConcatAssociative

\* Four of them, as the encoders group them
Regroups(a, b, c, d) == a \o ((b \o c) \o d) = ((a \o b) \o c) \o d

\* come to the same.
LEMMA RegroupedFour ==
  ASSUME NEW a \in Seq(Byte), NEW b \in Seq(Byte), NEW c \in Seq(Byte), NEW d \in Seq(Byte)
  PROVE  Regroups(a, b, c, d)
<1> DEFINE bc == b \o c
<1>1. bc \in Seq(Byte)
  BY ConcatProperties
<1>2. a \o bc = (a \o b) \o c
  BY Regrouped
<1> HIDE DEF bc
<1>3. a \o (bc \o d) = (a \o bc) \o d
  BY <1>1, Regrouped, SMTT(30)
<1>4. QED BY <1>2, <1>3 DEF bc, Regroups

\* The bytes of header, address type, address, port and data.
Pieces(f, h, t, ip, p, d, lh, lt, n, lp, m) ==
  /\ f \in Seq(Byte) /\ Len(f) = (lh + lt) + n + lp + m
  /\ \A i \in 1..lh : f[i] = h[i]
  /\ \A i \in 1..lt : f[lh + i] = t[i]
  /\ SubSeq(f, (lh + lt) + 1, (lh + lt) + n) = ip
  /\ \A i \in 1..lp : f[(lh + lt) + n + i] = p[i]
  /\ Skip(f, (lh + lt) + n + lp) = d

\* They are where the lengths add up to.
LEMMA FivePieces ==
  ASSUME NEW h \in Seq(Byte), NEW t \in Seq(Byte), NEW ip \in Seq(Byte),
         NEW p \in Seq(Byte), NEW d \in Seq(Byte),
         NEW lh, NEW lt, NEW n, NEW lp, NEW m,
         lh = Len(h), lt = Len(t), n = Len(ip), lp = Len(p), m = Len(d)
  PROVE  Pieces((h \o ((t \o ip) \o p)) \o d, h, t, ip, p, d, lh, lt, n, lp, m)
<1> DEFINE ht == h \o t
           f == ((ht \o ip) \o p) \o d
           la == lh + lt
<1>1. lh \in Nat /\ lt \in Nat /\ n \in Nat /\ lp \in Nat /\ m \in Nat
  BY LenProperties
<1>2. /\ ht \in Seq(Byte) /\ Len(ht) = la
      /\ \A i \in 1..lh : ht[i] = h[i]
      /\ \A i \in 1..lt : ht[lh + i] = t[i]
  BY Joined
<1>3. (h \o ((t \o ip) \o p)) \o d = f
  <2>1. Regroups(h, t, ip, p)
    BY RegroupedFour
  <2>2. QED BY <2>1, Zenon DEF Regroups
<1>4. la \in Nat /\ la = Len(ht)
  BY <1>1, <1>2
<1> HIDE DEF ht, la
<1>5. /\ f \in Seq(Byte) /\ Len(f) = la + n + lp + m
      /\ \A i \in 1..la : f[i] = ht[i]
      /\ \A i \in 1..n : f[la + i] = ip[i]
      /\ \A i \in 1..lp : f[la + n + i] = p[i]
      /\ \A i \in 1..m : f[la + n + lp + i] = d[i]
  <2>1. ht \in Seq(Byte) /\ la = Len(ht)
    BY <1>2, <1>4
  <2>2. QED BY <2>1, FourPieces
<1> HIDE DEF f
<1>6. \A i \in 1..lh : f[i] = h[i]
  <2>1. \A i \in 1..lh : i \in 1..la
    BY <1>1 DEF la
  <2>2. QED BY <1>2, <1>5, <2>1
<1>7. \A i \in 1..lt : f[lh + i] = t[i]
  <2>1. \A i \in 1..lt : lh + i \in 1..la
    BY <1>1 DEF la
  <2>2. QED BY <1>2, <1>5, <2>1
<1>8. SubSeq(f, la + 1, la + n) = ip
  <2> DEFINE c == SubSeq(f, la + 1, la + n)
             w == la + n + lp + m
  <2>1. la + n <= w
    BY <1>1, <1>4
  <2>2. c \in Seq(Byte) /\ Len(c) = n /\ \A i \in 1..n : c[i] = f[la + i]
    BY <1>1, <1>4, <1>5, <2>1, Piece, SMTT(30)
  <2> HIDE DEF c
  <2>3. \A i \in 1..n : c[i] = ip[i]
    BY <1>5, <2>2
  <2>4. c = ip
    BY <2>2, <2>3, SameBytes
  <2>5. QED BY <2>4 DEF c
<1>9. Skip(f, la + n + lp) = d
  <2> DEFINE k == la + n + lp
             c == Skip(f, k)
  <2>1. k \in Nat /\ k <= k + m /\ (k + m) - k = m
    BY <1>1, <1>4
  <2> HIDE DEF k
  <2>2. Len(f) = k + m
    BY <1>5 DEF k
  <2>3. c \in Seq(Byte) /\ Len(c) = m /\ \A i \in 1..m : c[i] = f[k + i]
    <3>1. f \in Seq(Byte) /\ k <= Len(f) /\ Len(f) - k = m
      BY <1>5, <2>1, <2>2
    <3>2. k \in Nat
      BY <2>1
    <3>3. /\ c \in Seq(Byte) /\ Len(c) = Len(f) - k
          /\ \A i \in 1..(Len(f) - k) : c[i] = f[k + i]
      BY <3>1, <3>2, Skipped
    <3> HIDE DEF c
    <3>4. QED BY <3>1, <3>3
  <2> HIDE DEF c
  <2>4. \A i \in 1..m : c[i] = d[i]
    BY <1>5, <2>3 DEF k
  <2>5. c = d
    BY <2>3, <2>4, SameBytes
  <2>6. QED BY <2>5 DEF c, k
<1>10. Pieces(f, h, t, ip, p, d, lh, lt, n, lp, m)
  BY <1>5, <1>6, <1>7, <1>8, <1>9 DEF la, Pieces
<1>11. QED BY <1>3, <1>10

\* What an encoder writes in front of d is laid out so.
LEMMA Framed ==
  ASSUME NEW h \in Seq(Byte), Len(h) = 3, NEW a, Address(a), NEW d \in Seq(Byte)
  PROVE  LaidOut((h \o AddrBlock(a)) \o d, h, a, d)
<1> DEFINE t == IF Len(a.ip) = 4 THEN V4 ELSE V6
           tt == <<t>>
           ip == a.ip
           p == ToBytes(a.port)
           f == (h \o ((tt \o ip) \o p)) \o d
           lh == 3
           lt == 1
           n == Len(ip)
           lp == 2
           m == Len(d)
<1>1. ip \in Seq(Byte) /\ n = Len(ip) /\ n \in Nat /\ n \in {4, 16}
  BY DEF Address
<1>2. t \in Byte /\ t \in {V4, V6} /\ AddrAt(Skip(f, 4), t, 0, n)
  BY <1>1 DEF Byte, V4, V6, AddrAt
<1>3. tt \in Seq(Byte) /\ lt = Len(tt) /\ tt[1] = t
  BY <1>2
<1>4. /\ a.port \div 256 \in Byte /\ a.port % 256 \in Byte
      /\ (a.port \div 256) * 256 + (a.port % 256) = a.port
  BY PortWritten DEF Address
<1>5. /\ p \in Seq(Byte) /\ lp = Len(p)
      /\ p[1] = a.port \div 256 /\ p[2] = a.port % 256
  BY <1>4 DEF ToBytes
<1>6. AddrBlock(a) = (tt \o ip) \o p
  BY DEF AddrBlock
<1>7. lh = Len(h) /\ m = Len(d)
  OBVIOUS
<1> HIDE DEF t, tt, ip, p, lh, lt, n, lp, m
<1>8. /\ f \in Seq(Byte) /\ Len(f) = (lh + lt) + n + lp + m
      /\ \A i \in 1..lh : f[i] = h[i]
      /\ \A i \in 1..lt : f[lh + i] = tt[i]
      /\ SubSeq(f, (lh + lt) + 1, (lh + lt) + n) = ip
      /\ \A i \in 1..lp : f[(lh + lt) + n + i] = p[i]
      /\ Skip(f, (lh + lt) + n + lp) = d
  <2>1. /\ ip \in Seq(Byte) /\ n = Len(ip) /\ tt \in Seq(Byte) /\ lt = Len(tt)
        /\ p \in Seq(Byte) /\ lp = Len(p) /\ lh = Len(h) /\ m = Len(d)
    BY <1>1, <1>3, <1>5, <1>7
  <2>2. Pieces(f, h, tt, ip, p, d, lh, lt, n, lp, m)
    BY <2>1, FivePieces
  <2> HIDE DEF f
  <2>3. QED BY <2>2 DEF Pieces
<1> HIDE DEF f
<1>9. lh = 3 /\ lt = 1 /\ lp = 2 /\ lh + lt = 4 /\ 1 \in 1..lt /\ 1 \in 1..lp /\ 2 \in 1..lp
  BY DEF lh, lt, lp
<1>10. f[4] = t
  BY <1>3, <1>8, <1>9
<1>11. f[4 + n + 1] * 256 + f[4 + n + 2] = a.port
  <2>1. f[4 + n + 1] = p[1] /\ f[4 + n + 2] = p[2]
    BY <1>8, <1>9
  <2>2. QED BY <1>4, <1>5, <2>1
<1>12. LaidOut(f, h, a, d)
  <2>1. f \in Seq(Byte) /\ Len(f) = 4 + n + 2 + m /\ \A i \in 1..3 : f[i] = h[i]
    BY <1>8, <1>9
  <2>2. SubSeq(f, 4 + 1, 4 + n) = ip /\ Skip(f, 4 + n + 2) = d
    BY <1>8, <1>9
  <2>3. f[4] \in {V4, V6} /\ AddrAt(Skip(f, 4), f[4], 0, n)
    BY <1>2, <1>10 DEF f
  <2>4. QED BY <1>11, <2>1, <2>2, <2>3 DEF LaidOut, n, ip, m
<1>13. QED BY <1>6, <1>12 DEF f

\* Address and port of such a frame can be read, alone
PairIn(f) == Pair(Skip(f, 4), f[4])

\* as the client does with a reply,
LEMMA PairReadBack ==
  ASSUME NEW f, NEW h, NEW a, NEW d \in Seq(Byte), Address(a), LaidOut(f, h, a, d)
  PROVE  PairIn(f) = Ok(<<a.ip, a.port>>, d)
<1> DEFINE n == Len(a.ip)
           m == Len(d)
           k == 4
           b == Skip(f, k)
           e == n + 2
<1>1. n \in Nat /\ m \in Nat /\ k \in Nat /\ e \in Nat /\ k + e = 4 + n + 2
  BY DEF Address
<1>2. f \in Seq(Byte) /\ Len(f) = 4 + n + 2 + m
  BY DEF LaidOut
<1>3. k <= Len(f) /\ k + n <= Len(f) /\ k + e <= Len(f) /\ Len(f) - k = e + m
  BY <1>1, <1>2
<1>4. AddrAt(b, f[4], 0, n)
  BY DEF LaidOut
<1>5. SubSeq(f, k + 1, k + n) = a.ip /\ Skip(f, k + e) = d
  BY <1>1 DEF LaidOut
<1>6. f[4 + n + 1] * 256 + f[4 + n + 2] = a.port
  BY DEF LaidOut
<1>7. k + (n + 1) = 4 + n + 1 /\ k + (n + 2) = 4 + n + 2
  BY <1>1
<1> HIDE DEF k, n, m
<1>8. /\ b \in Seq(Byte) /\ Len(b) = Len(f) - k
      /\ \A i \in 1..(Len(f) - k) : b[i] = f[k + i]
  BY <1>1, <1>2, <1>3, Skipped
<1>9. SubSeq(b, 1, n) = a.ip
  BY <1>1, <1>2, <1>3, <1>5, HeadOfSkip
<1>10. Skip(b, e) = d
  BY <1>1, <1>2, <1>3, <1>5, SkipTwice
<1> HIDE DEF b
<1>11. b[n + 1] * 256 + b[n + 2] = a.port
  <2>1. n + 1 \in 1..(e + m) /\ n + 2 \in 1..(e + m)
    BY <1>1
  <2>2. b[n + 1] = f[k + (n + 1)] /\ b[n + 2] = f[k + (n + 2)]
    BY <1>3, <1>8, <2>1
  <2>3. QED BY <1>6, <1>7, <2>2
<1>12. e <= Len(b)
  BY <1>1, <1>3, <1>8
<1>13. Pair(b, f[4])
         = Ok(<<SubSeq(b, 0 + 1, 0 + n), b[0 + n + 1] * 256 + b[0 + n + 2]>>,
              Skip(b, 0 + n + 2))
  <2>1. 0 + n + 2 <= Len(b)
    BY <1>1, <1>12
  <2>2. QED BY <1>4, <1>8, <2>1, PairTaken
<1>14. 0 + 1 = 1 /\ 0 + n = n /\ 0 + n + 1 = n + 1 /\ 0 + n + 2 = n + 2
  BY <1>1
<1>15. Ok(<<SubSeq(b, 0 + 1, 0 + n), b[0 + n + 1] * 256 + b[0 + n + 2]>>,
          Skip(b, 0 + n + 2)) = Ok(<<a.ip, a.port>>, d)
  BY <1>9, <1>10, <1>11, <1>14
<1>16. QED BY <1>13, <1>15 DEF PairIn, b, k

\* and by parse_udp_header.
LEMMA HeaderReadBack ==
  ASSUME NEW f, NEW h, NEW a, NEW d \in Seq(Byte), Address(a), LaidOut(f, h, a, d)
  PROVE  LET back == parse_udp_header(f)
         IN  /\ back.ok /\ back.rest = d /\ back.val.frag = h[3]
             /\ back.val.addr = a.ip /\ back.val.port = a.port
<1> DEFINE n == Len(a.ip)
           m == Len(d)
           v == HeaderOf(f, 0, n)
<1>1. n \in Nat /\ m \in Nat
  BY DEF Address
<1>2. f \in Seq(Byte) /\ Len(f) = 4 + n + 2 + m
  BY DEF LaidOut
<1>3. f[4] \in AddrTypes /\ AddrAt(Skip(f, 4), f[4], 0, n)
  BY DEF LaidOut, AddrTypes
<1>4. /\ SubSeq(f, 4 + 1, 4 + n) = a.ip /\ Skip(f, 4 + n + 2) = d
      /\ f[4 + n + 1] * 256 + f[4 + n + 2] = a.port
  BY DEF LaidOut
<1>5. f[3] = h[3]
  BY DEF LaidOut
<1> HIDE DEF n, m
<1>6. Len(f) >= 4 /\ 4 + 0 + n + 2 <= Len(f)
  BY <1>1, <1>2
<1>7. 4 + 0 + n + 2 = 4 + n + 2 /\ 4 + 0 + n + 1 = 4 + n + 1 /\ 4 + 0 = 4
  BY <1>1
<1>8. parse_udp_header(f) = Ok(v, Skip(f, 4 + 0 + n + 2))
  BY <1>2, <1>3, <1>6, HeaderParsed
<1>9. /\ v.frag = f[3] /\ v.addr = SubSeq(f, (4 + 0) + 1, (4 + 0) + n)
      /\ v.port = f[4 + 0 + n + 1] * 256 + f[4 + 0 + n + 2]
  BY DEF HeaderOf
<1> HIDE DEF v
<1>10. v.frag = h[3] /\ v.addr = a.ip /\ v.port = a.port
  BY <1>4, <1>5, <1>7, <1>9
<1>11. parse_udp_header(f) = Ok(v, d)
  BY <1>4, <1>7, <1>8
<1>12. QED BY <1>10, <1>11, OkFields

-----------------------------------------------------------------------------
(* Every frame the server sends                                            *)

\* The reply to a request
ReplyReadable(s) ==
  /\ SubSeq(s.payload, 1, 3) = <<SOCKS_VERSION, 0, RESERVED>>
  /\ PairIn(s.payload) = Ok(<<s.addr, s.port>>, << >>)

\* A datagram for the client
AnswerReadable(s, d) ==
  LET back == parse_udp_header(s.payload) IN
    /\ back.ok /\ back.rest = d
    /\ back.val.frag = 0
    /\ back.val.addr = s.addr /\ back.val.port = s.port

\* A datagram for a destination
ForwardedWhole(s, d) ==
  /\ (s # None) = WellFormed(d)
  /\ s # None =>
       /\ s.payload = Skip(d, HeaderEnd(d))
       /\ SubSeq(d, 1, HeaderEnd(d)) =
            SubSeq(d, 1, HeaderEnd(d) - Len(s.addr) - 2) \o s.addr \o ToBytes(s.port)

\* What FramesAreFaithful says of a message and a datagram
Frames(s, d) ==
  /\ s # None /\ s.to = "requester" => ReplyReadable(s)
  /\ d # None => IF s # None /\ s.to = "client" THEN AnswerReadable(s, d)
                                                ELSE ForwardedWhole(s, d)

\* as they are in a state.
FramesNow == Frames(sent, dgram)

\* It says the same.
LEMMA FramesDefined == FramesAreFaithful <=> FramesNow
BY DEF FramesAreFaithful, FramesNow, Frames, ReplyReadable, AnswerReadable, ForwardedWhole,
       PairIn, Pair, TakeTarget, Try

\* The bytes of a frame without data
LEMMA FramedAlone ==
  ASSUME NEW h \in Seq(Byte), Len(h) = 3, NEW a, Address(a)
  PROVE  LaidOut(h \o AddrBlock(a), h, a, << >>)
<1> DEFINE e == << >>
           f == h \o AddrBlock(a)
<1>1. e \in Seq(Byte)
  OBVIOUS
<1>2. LaidOut(f \o e, h, a, e)
  <2> HIDE DEF e
  <2>1. QED BY <1>1, Framed
<1>3. AddrBlock(a) \in Seq(Byte)
  <2>1. /\ V4 \in Byte /\ V6 \in Byte
        /\ a.port \div 256 \in Byte /\ a.port % 256 \in Byte
    BY PortWritten DEF Address, V4, V6, Byte
  <2> DEFINE t == <<IF Len(a.ip) = 4 THEN V4 ELSE V6>>
             p == ToBytes(a.port)
             ip == a.ip
  <2>2. t \in Seq(Byte) /\ p \in Seq(Byte) /\ ip \in Seq(Byte)
    BY <2>1 DEF ToBytes, Address
  <2>3. AddrBlock(a) = (t \o ip) \o p
    BY DEF AddrBlock
  <2> HIDE DEF t, p, ip
  <2>4. t \o ip \in Seq(Byte)
    BY <2>2, ConcatProperties
  <2>5. (t \o ip) \o p \in Seq(Byte)
    BY <2>2, <2>4, ConcatProperties
  <2>6. QED BY <2>3, <2>5
<1>4. f \in Seq(Byte)
  BY <1>3, ConcatProperties
<1> HIDE DEF f
<1>5. f \o << >> = f
  BY <1>4, ConcatEmptySeq
<1>6. QED BY <1>2, <1>5 DEF f, e

\* A reply can be read back,
LEMMA ReplyIsReadable ==
  ASSUME NEW a, Address(a), NEW s, s.payload = SocksReply(0, a),
         s.addr = a.ip, s.port = a.port
  PROVE  s.payload \in Seq(Byte) /\ ReplyReadable(s)
<1> DEFINE h == <<SOCKS_VERSION, 0, RESERVED>>
           f == SocksReply(0, a)
           e == << >>
<1>1. h \in Seq(Byte) /\ Len(h) = 3
  BY DEF SOCKS_VERSION, RESERVED, Byte
<1>2. f = h \o AddrBlock(a) /\ e \in Seq(Byte)
  BY DEF SocksReply
<1>3. LaidOut(f, h, a, e)
  <2> HIDE DEF h, f
  <2>1. QED BY <1>1, <1>2, FramedAlone
<1> HIDE DEF f
<1>4. PairIn(f) = Ok(<<a.ip, a.port>>, e)
  <2> HIDE DEF h, e
  <2>1. QED BY <1>2, <1>3, PairReadBack
<1>5. f \in Seq(Byte) /\ \A i \in 1..3 : f[i] = h[i]
  BY <1>3 DEF LaidOut
<1>6. SubSeq(f, 1, 3) = h
  <2> DEFINE z == 0
             n == 3
             c == SubSeq(f, z + 1, z + n)
  <2>1. z \in Nat /\ n \in Nat /\ z + n <= Len(f)
    <3> DEFINE w == Len(a.ip)
    <3>1. w \in Nat
      BY DEF Address
    <3>2. Len(f) = 4 + w + 2 + 0
      BY <1>3 DEF LaidOut
    <3> HIDE DEF w
    <3>3. QED BY <3>1, <3>2
  <2> HIDE DEF z, n, h
  <2>2. c \in Seq(Byte) /\ Len(c) = n /\ \A i \in 1..n : c[i] = f[z + i]
    BY <1>5, <2>1, Piece
  <2> HIDE DEF c
  <2>3. Len(c) = Len(h) /\ \A i \in 1..Len(c) : c[i] = h[i]
    <3>1. n = 3 /\ \A i \in 1..n : z + i = i
      BY DEF z, n
    <3>2. QED BY <1>1, <1>5, <2>2, <3>1
  <2>4. c = h
    BY <1>1, <2>2, <2>3, SameBytes
  <2>5. QED BY <2>4 DEF c, z, n
<1>7. QED BY <1>4, <1>5, <1>6 DEF ReplyReadable, f

\* and so can a datagram with the header of its source.
LEMMA AnswerIsReadable ==
  ASSUME NEW a, Address(a), NEW d \in Seq(Byte), NEW s,
         s.payload = encode_udp_header(a) \o d, s.addr = a.ip, s.port = a.port
  PROVE  s.payload \in Seq(Byte) /\ AnswerReadable(s, d)
<1> DEFINE h == <<RESERVED, RESERVED, 0>>
           f == encode_udp_header(a) \o d
<1>1. h \in Seq(Byte) /\ Len(h) = 3 /\ h[3] = 0
  BY DEF RESERVED, Byte
<1>2. f = (h \o AddrBlock(a)) \o d
  BY DEF encode_udp_header
<1> HIDE DEF h, f
<1>3. LaidOut(f, h, a, d)
  BY <1>1, <1>2, Framed
<1>4. f \in Seq(Byte)
  BY <1>3 DEF LaidOut
<1>5. LET back == parse_udp_header(f)
      IN  /\ back.ok /\ back.rest = d /\ back.val.frag = h[3]
          /\ back.val.addr = a.ip /\ back.val.port = a.port
  BY <1>3, HeaderReadBack
<1>6. s.payload = f
  BY DEF f
<1>7. QED BY <1>1, <1>4, <1>5, <1>6 DEF AnswerReadable

\* Messages are not None.
LEMMA MessageSent ==
  ASSUME NEW to \in {"requester", "target", "client"}, NEW a \in Seq(Byte), NEW p \in Port,
         NEW b \in Seq(Byte), NEW s, s = [to |-> to, addr |-> a, port |-> p, payload |-> b]
  PROVE  s # None /\ s.to = to /\ s.addr = a /\ s.port = p /\ s.payload = b
<1>1. s \in Message
  BY DEF Message
<1>2. QED BY <1>1, NegotiationAssumption

\* Sources are addresses, and so is the one that names none.
LEMMA SourceAddress ==
  /\ \A a \in Sources : Address(a)
  /\ Address(Unbound)
<1>1. \A a \in Sources : Address(a)
  BY NegotiationAssumption DEF Address
<1>2. Address(Unbound)
  <2> DEFINE z == <<0, 0, 0, 0>>
  <2>1. z \in Seq(Byte) /\ Len(z) = 4
    BY DEF Byte
  <2>2. 0 \in Port
    <3> DEFINE top == 256 * 256 - 1
    <3>1. top \in Int /\ 0 <= top
      OBVIOUS
    <3> HIDE DEF top
    <3>2. 0 \in 0..top
      BY <3>1
    <3>3. QED BY <3>2 DEF top, Port
  <2>3. Unbound.ip = z /\ Unbound.port = 0
    BY DEF Unbound
  <2> HIDE DEF z
  <2>4. QED BY <2>1, <2>2, <2>3 DEF Address
<1>3. QED BY <1>1, <1>2

\* The three steps that send something
LEMMA AnswerFramed ==
  ASSUME NEW bound \in Sources, AnswerRequest(bound)
  PROVE  Frames(sent', dgram')
<1> DEFINE shown == IF req.command = Connect THEN Unbound ELSE bound
           s == sent'
<1>1. /\ s = [to |-> "requester", addr |-> shown.ip, port |-> shown.port,
              payload |-> SocksReply(0, shown)]
      /\ dgram' = None
  BY DEF AnswerRequest
<1>2. Address(shown)
  BY SourceAddress
<1> HIDE DEF s, shown
<1>3. /\ s.to = "requester" /\ s.addr = shown.ip /\ s.port = shown.port
      /\ s.payload = SocksReply(0, shown)
  BY <1>1
<1>4. ReplyReadable(s)
  BY <1>2, <1>3, ReplyIsReadable
<1>5. QED BY <1>1, <1>4 DEF Frames, s

\* A datagram of the client, to its destination or nowhere
LEMMA ForwardFramed ==
  ASSUME NEW d \in Datagrams, ForwardDatagram(d)
  PROVE  Frames(sent', dgram')
<1> DEFINE r == parse_udp_header(d)
           e == HeaderEnd(d)
           s == sent'
<1>1. /\ s = IF r.ok /\ r.val.frag = 0
               THEN [to |-> "target", addr |-> r.val.addr, port |-> r.val.port,
                     payload |-> r.rest]
               ELSE None
      /\ dgram' = d
  BY DEF ForwardDatagram
<1>2. d \in Seq(Byte)
  BY NegotiationAssumption
<1>3. Forwarded(d, r, e)
  BY <1>2, ForwardedFaithfully
<1> HIDE DEF r, e, s
<1>4. CASE WellFormed(d)
  <2>1. s = [to |-> "target", addr |-> r.val.addr, port |-> r.val.port, payload |-> r.rest]
    BY <1>1, <1>3, <1>4 DEF Forwarded
  <2>2. /\ r.val.addr \in Seq(Byte) /\ r.val.port \in Port
        /\ r.rest \in Seq(Byte) /\ r.rest = Skip(d, e)
        /\ SubSeq(d, 1, e) =
             SubSeq(d, 1, e - Len(r.val.addr) - 2) \o r.val.addr \o ToBytes(r.val.port)
    BY <1>3, <1>4 DEF Forwarded
  <2>3. /\ s # None /\ s.to = "target" /\ s.addr = r.val.addr /\ s.port = r.val.port
        /\ s.payload = r.rest
    BY <2>1, <2>2, MessageSent
  <2>4. ForwardedWhole(s, d)
    BY <1>4, <2>2, <2>3 DEF ForwardedWhole, e
  <2>5. QED BY <1>1, <2>3, <2>4 DEF Frames, s
<1>5. CASE ~WellFormed(d)
  <2>1. s = None
    BY <1>1, <1>3, <1>5 DEF Forwarded
  <2>2. ForwardedWhole(s, d)
    <3>1. (s # None) = FALSE /\ WellFormed(d) = FALSE
      BY <1>5, <2>1 DEF WellFormed
    <3>2. QED BY <2>1, <3>1 DEF ForwardedWhole
  <2>3. QED BY <1>1, <2>1, <2>2 DEF Frames, s
<1>6. QED BY <1>4, <1>5

\* A datagram of a destination, to the client
LEMMA ReturnFramed ==
  ASSUME NEW d \in Datagrams, NEW src \in Sources, ReturnDatagram(src, d)
  PROVE  Frames(sent', dgram')
<1> DEFINE s == sent'
           f == encode_udp_header(src) \o d
<1>1. /\ s = [to |-> "client", addr |-> src.ip, port |-> src.port, payload |-> f]
      /\ dgram' = d
  BY DEF ReturnDatagram
<1>2. d \in Seq(Byte) /\ Address(src)
  BY NegotiationAssumption, SourceAddress
<1>3. src.ip \in Seq(Byte) /\ src.port \in Port
  BY <1>2 DEF Address
<1>4. s.payload = encode_udp_header(src) \o d /\ s.addr = src.ip /\ s.port = src.port
  BY <1>1
<1> HIDE DEF s
<1>5. s.payload \in Seq(Byte) /\ AnswerReadable(s, d)
  BY <1>2, <1>4, AnswerIsReadable
<1>6. f \in Seq(Byte)
  BY <1>4, <1>5
<1> HIDE DEF f
<1>7. s # None /\ s.to = "client"
  BY <1>1, <1>3, <1>6, MessageSent
<1>8. QED BY <1>1, <1>5, <1>7 DEF Frames, s

\* A destination is sent exactly the payload of every well-formed datagram and
\* nothing of any other, and what the client is sent, reply or datagram, reads
\* back as the address, the port and the bytes it stands for, for every stream,
\* datagram and source.
THEOREM FramesCanBeReadBack == Spec => []FramesAreFaithful
<1>1. Init => FramesAreFaithful
  BY FramesDefined DEF Init, FramesNow, Frames
<1>2. ASSUME FramesAreFaithful, [Next]_vars
      PROVE  FramesAreFaithful'
  <2>1. FramesAreFaithful' <=> Frames(sent', dgram')
    <3>1. FramesAreFaithful' <=> FramesNow'
      BY FramesDefined, PTL
    <3>2. QED BY <3>1 DEF FramesNow
  <2>2. CASE UNCHANGED udpVars
    BY <1>2, <2>1, <2>2, FramesDefined DEF udpVars, FramesNow
  <2>3. CASE \E bound \in Sources : AnswerRequest(bound)
    BY <2>1, <2>3, AnswerFramed
  <2>4. CASE \E d \in Datagrams : ForwardDatagram(d)
    BY <2>1, <2>4, ForwardFramed
  <2>5. CASE \E d \in Datagrams, src \in Sources : ReturnDatagram(src, d)
    BY <2>1, <2>5, ReturnFramed
  <2>6. QED
    <3>1. CASE Deliver \/ CloseInput \/ ReaderStep
      BY <2>2, <3>1 DEF Deliver, CloseInput, ReaderStep, ReadEof, ReadGreeting, ReadMethod,
         SelectMethod, ReadField, Verdict, ReadRequest, ParseRequest
    <3>2. CASE UNCHANGED vars
      BY <2>2, <3>2 DEF vars
    <3>3. QED BY <1>2, <2>3, <2>4, <2>5, <3>1, <3>2 DEF Next
<1>3. QED BY <1>1, <1>2, PTL DEF Spec

-----------------------------------------------------------------------------
(* The stream readers and the slice parsers                                *)

\* What the parsers make of b where a request, a login, or the messages after a
\* greeting that offers these methods begin, and of a whole stream.
RequestIn(b) ==
  IF Len(b) >= 4 /\ b[1] # SOCKS_VERSION THEN Err("Failure") ELSE parse_request(b)
LoginIn(b) ==
  LET r == parse_userpass(b) IN
    IF ~r.ok THEN r
    ELSE IF r.val.version = 1 /\ authed(Users, r.val.username, r.val.password)
      THEN RequestIn(r.rest) ELSE Err("Failure")
ChosenIn(am, offered, b) ==
  LET methods == ToSet(offered) \cap am IN
    IF UserPass \in methods THEN LoginIn(b)
    ELSE IF NoAuth \in methods THEN RequestIn(b)
    ELSE Err("Failure")
StreamIn(am, b) ==
  LET r == parse_greeting(b) IN
    IF Len(b) >= 2 /\ b[1] # SOCKS_VERSION THEN Err("Failure")
    ELSE IF r.ok THEN ChosenIn(am, r.val.methods, r.rest) ELSE r

\* It is what Parsed says.
LEMMA ParsedInStages ==
  ASSUME NEW b
  PROVE  Parsed(b) = StreamIn(auth_methods, b)
<1> DEFINE g == parse_greeting(b)
           u == parse_userpass(g.rest)
<1>1. CASE Len(b) >= 2 /\ b[1] # SOCKS_VERSION
  BY <1>1 DEF Parsed, StreamIn
<1>2. CASE ~(Len(b) >= 2 /\ b[1] # SOCKS_VERSION) /\ ~g.ok
  BY <1>2 DEF Parsed, StreamIn, Try
<1>3. CASE ~(Len(b) >= 2 /\ b[1] # SOCKS_VERSION) /\ g.ok
  <2>1. StreamIn(auth_methods, b) = ChosenIn(auth_methods, g.val.methods, g.rest)
    BY <1>3 DEF StreamIn
  <2> DEFINE Rest(l) ==
        IF Len(l) >= 4 /\ l[1] # SOCKS_VERSION THEN Err("Failure") ELSE parse_request(l)
  <2>2. Parsed(b) =
          IF UserPass \in Available(g.val.methods)
          THEN IF u.ok
               THEN IF u.val.version = 1
                    THEN IF authed(Users, u.val.username, u.val.password)
                         THEN Rest(u.rest) ELSE Err("Failure")
                    ELSE Err("Failure")
               ELSE u
          ELSE IF NoAuth \in Available(g.val.methods) THEN Rest(g.rest) ELSE Err("Failure")
    BY <1>3 DEF Parsed, Try
  <2>3. QED BY <2>1, <2>2 DEF ChosenIn, LoginIn, RequestIn, Available
<1>4. QED BY <1>1, <1>2, <1>3

\* The piece of s from k to n begins with the one to p and goes on with the rest.
LEMMA PieceBegins ==
  ASSUME NEW s \in Seq(Byte), NEW k \in Nat, NEW p \in Nat, NEW n \in Nat,
         k <= p, p <= n, n <= Len(s)
  PROVE  /\ Begins(SubSeq(s, k + 1, p), SubSeq(s, k + 1, n))
         /\ Len(SubSeq(s, k + 1, p)) = p - k /\ Len(SubSeq(s, k + 1, n)) = n - k
         /\ Skip(SubSeq(s, k + 1, n), p - k) = SubSeq(s, p + 1, n)
<1> DEFINE f == SubSeq(s, k + 1, p)
           b == SubSeq(s, k + 1, n)
           x == p - k
           y == n - k
           z == n - p
           r == SubSeq(s, p + 1, n)
<1>1. /\ Len(s) \in Nat /\ x \in Nat /\ y \in Nat /\ z \in Nat /\ k + x = p /\ k + y = n
      /\ x <= y /\ k + x <= Len(s) /\ k + y <= Len(s) /\ p + z = n /\ p + z <= Len(s)
      /\ y - x = z
  OBVIOUS
<1>2. f = SubSeq(s, k + 1, k + x) /\ b = SubSeq(s, k + 1, k + y)
      /\ r = SubSeq(s, p + 1, p + z)
  BY <1>1
<1> HIDE DEF x, y, z, f, b, r
<1>3. f \in Seq(Byte) /\ Len(f) = x /\ \A i \in 1..x : f[i] = s[k + i]
  BY <1>1, <1>2, Piece
<1>4. b \in Seq(Byte) /\ Len(b) = y /\ \A i \in 1..y : b[i] = s[k + i]
  BY <1>1, <1>2, Piece
<1>5. r \in Seq(Byte) /\ Len(r) = z /\ \A i \in 1..z : r[i] = s[p + i]
  BY <1>1, <1>2, Piece
<1>6. Begins(f, b)
  <2>1. \A i \in 1..x : i \in 1..y
    BY <1>1
  <2>2. QED BY <1>1, <1>3, <1>4, <2>1 DEF Begins
<1>7. Skip(b, x) = r
  <2>1. /\ Skip(b, x) \in Seq(Byte) /\ Len(Skip(b, x)) = Len(b) - x
        /\ \A i \in 1..(Len(b) - x) : Skip(b, x)[i] = b[x + i]
    BY <1>1, <1>4, Skipped
  <2> DEFINE q == Skip(b, x)
  <2> HIDE DEF q
  <2>2. q \in Seq(Byte) /\ Len(q) = z /\ \A i \in 1..z : q[i] = b[x + i]
    BY <1>1, <1>4, <2>1 DEF q
  <2>3. \A i \in 1..z : x + i \in 1..y /\ k + (x + i) = p + i
    BY <1>1
  <2>4. \A i \in 1..z : q[i] = r[i]
    BY <1>4, <1>5, <2>2, <2>3
  <2>5. q = r
    BY <1>5, <2>2, <2>4, SameBytes
  <2>6. QED BY <2>5 DEF q
<1>8. QED BY <1>3, <1>4, <1>6, <1>7 DEF f, b, r, x, y

\* parse_greeting: what is missing,
LEMMA GreetingCut ==
  ASSUME NEW b \in Seq(Byte), NEW am,
         \/ Len(b) < 2
         \/ Len(b) >= 2 /\ b[1] = SOCKS_VERSION /\ Len(b) < 2 + b[2]
  PROVE  StreamIn(am, b) = truncated
<1>1. Len(b) \in Nat /\ ~truncated.ok
  BY ErrFields DEF truncated
<1>2. CASE Len(b) < 2
  <2>1. parse_greeting(b) = truncated
    BY <1>2 DEF parse_greeting
  <2>2. ~(Len(b) >= 2)
    BY <1>1, <1>2
  <2>3. QED BY <1>1, <2>1, <2>2 DEF StreamIn
<1>3. CASE Len(b) >= 2 /\ b[1] = SOCKS_VERSION /\ Len(b) < 2 + b[2]
  <2> DEFINE k == 2
             n == b[2]
             c == Skip(b, k)
  <2>1. k \in Nat /\ k <= Len(b) /\ 2 \in 1..Len(b) /\ ~(Len(b) < 2)
    BY <1>1, <1>3
  <2>2. n \in Nat
    BY <2>1, ByteOf
  <2>3. Len(b) < k + n
    BY <1>3
  <2>4. parse_greeting(b) =
          Try(take(c, n), LAMBDA methods, rest :
            Ok([version |-> b[1], methods |-> methods], rest))
    BY <2>1 DEF parse_greeting
  <2> HIDE DEF k, n
  <2>5. c \in Seq(Byte) /\ Len(c) = Len(b) - k
    BY <2>1, Skipped
  <2> HIDE DEF c
  <2>6. n > Len(c)
    BY <1>1, <2>1, <2>2, <2>3, <2>5
  <2>7. take(c, n) = truncated
    BY <2>2, <2>5, <2>6, Taken
  <2>8. parse_greeting(b) = truncated
    BY <1>1, <2>4, <2>7 DEF Try
  <2>9. QED BY <1>1, <1>3, <2>8 DEF StreamIn
<1>4. QED BY <1>2, <1>3

\* another version,
LEMMA GreetingTurnedAway ==
  ASSUME NEW f, NEW b, NEW am, Begins(f, b), Len(f) >= 2, f[1] # SOCKS_VERSION
  PROVE  StreamIn(am, b) = Err("Failure")
<1>1. Len(f) \in Nat /\ Len(b) \in Nat /\ Len(f) <= Len(b)
  BY DEF Begins
<1>2. Len(b) >= 2 /\ 1 \in 1..Len(f)
  BY <1>1
<1>3. b[1] = f[1]
  BY <1>2 DEF Begins
<1>4. QED BY <1>2, <1>3 DEF StreamIn

\* and the whole.
LEMMA GreetingRead ==
  ASSUME NEW f, NEW b, NEW am, Begins(f, b), Len(f) >= 2, f[1] = SOCKS_VERSION,
         Len(f) = f[2] + 2
  PROVE  StreamIn(am, b) = ChosenIn(am, Skip(f, 2), Skip(b, Len(f)))
<1> DEFINE k == 2
           n == f[2]
           m == Len(f)
           c == Skip(b, k)
<1>1. /\ f \in Seq(Byte) /\ b \in Seq(Byte) /\ m \in Nat /\ Len(b) \in Nat
      /\ m <= Len(b) /\ \A i \in 1..m : b[i] = f[i]
  BY DEF Begins
<1>2. k \in Nat /\ 1 \in 1..m /\ 2 \in 1..m
  BY <1>1
<1>3. n \in Nat /\ b[1] = SOCKS_VERSION /\ b[2] = n
  BY <1>1, <1>2, ByteOf
<1>4. m = k + n /\ k <= m
  BY <1>3
<1>5. ~(Len(b) < 2)
  BY <1>1
<1>6. parse_greeting(b) =
        Try(take(c, n), LAMBDA methods, rest :
          Ok([version |-> b[1], methods |-> methods], rest))
  BY <1>3, <1>5 DEF parse_greeting
<1> HIDE DEF k, n, m
<1>7. k + n <= Len(b) /\ k <= Len(b) /\ Len(b) - k >= n /\ m - k = n
  BY <1>1, <1>2, <1>3, <1>4
<1>8. c \in Seq(Byte) /\ Len(c) = Len(b) - k
  BY <1>1, <1>2, <1>7, Skipped
<1>9. take(c, n) = Ok(SubSeq(c, 1, n), Skip(c, n))
  <2> HIDE DEF c
  <2>1. n <= Len(c)
    BY <1>1, <1>2, <1>3, <1>7, <1>8
  <2>2. QED BY <1>3, <1>8, <2>1, Taken
<1>10. Skip(c, n) = Skip(b, m)
  BY <1>1, <1>2, <1>3, <1>4, <1>7, SkipTwice
<1>11. SubSeq(c, 1, n) = Skip(f, k)
  <2> DEFINE p == SubSeq(b, k + 1, k + n)
             q == Skip(f, k)
  <2>1. SubSeq(c, 1, n) = p
    BY <1>1, <1>2, <1>3, <1>7, HeadOfSkip
  <2>2. p \in Seq(Byte) /\ Len(p) = n /\ \A i \in 1..n : p[i] = b[k + i]
    BY <1>1, <1>2, <1>3, <1>7, Piece
  <2>3. q \in Seq(Byte) /\ Len(q) = n /\ \A i \in 1..n : q[i] = f[k + i]
    <3>1. m = Len(f)
      BY DEF m
    <3>2. k <= Len(f) /\ Len(f) - k = n
      BY <1>4, <1>7, <3>1
    <3>3. /\ q \in Seq(Byte) /\ Len(q) = Len(f) - k
          /\ \A i \in 1..(Len(f) - k) : q[i] = f[k + i]
      BY <1>1, <1>2, <3>2, Skipped
    <3> HIDE DEF q
    <3>4. QED BY <3>2, <3>3
  <2> HIDE DEF p, q
  <2>4. \A i \in 1..n : k + i \in 1..m
    BY <1>2, <1>3, <1>4
  <2>5. \A i \in 1..n : p[i] = q[i]
    BY <1>1, <2>2, <2>3, <2>4
  <2>6. p = q
    BY <2>2, <2>3, <2>5, SameBytes
  <2>7. QED BY <2>1, <2>6 DEF q
<1> HIDE DEF c
<1>12. parse_greeting(b) = Ok([version |-> b[1], methods |-> Skip(f, k)], Skip(b, m))
  <2> DEFINE t == take(c, n)
  <2> HIDE DEF t
  <2>1. t = Ok(Skip(f, k), Skip(b, m))
    BY <1>9, <1>10, <1>11 DEF t
  <2>2. t.ok /\ t.val = Skip(f, k) /\ t.rest = Skip(b, m)
    BY <2>1, OkFields
  <2>3. parse_greeting(b) = Ok([version |-> b[1], methods |-> t.val], t.rest)
    BY <1>6, <2>2 DEF Try, t
  <2>4. QED BY <2>2, <2>3
<1> DEFINE r == parse_greeting(b)
           v == [version |-> b[1], methods |-> Skip(f, k)]
<1> HIDE DEF r
<1>13. v.methods = Skip(f, k)
  OBVIOUS
<1> HIDE DEF v
<1>14. r.ok /\ r.val.methods = Skip(f, k) /\ r.rest = Skip(b, m)
  <2>1. r = Ok(v, Skip(b, m))
    BY <1>12 DEF r, v
  <2>2. QED BY <1>13, <2>1, OkFields
<1>15. StreamIn(am, b) = ChosenIn(am, r.val.methods, r.rest)
  BY <1>3, <1>14 DEF StreamIn, r
<1>16. QED BY <1>14, <1>15 DEF k, m

\* What auth makes of a login that has been read
LEMMA LoginRead ==
  ASSUME NEW f, NEW b, LoginLayout(f), Begins(f, b)
  PROVE  LoginIn(b) =
           IF LoginAccepted(f) THEN RequestIn(Skip(b, Len(f))) ELSE Err("Failure")
<1> DEFINE v == [version |-> f[1], username |-> NameIn(f), password |-> WordIn(f)]
           r == parse_userpass(b)
<1>1. r = Ok(v, Skip(b, Len(f)))
  BY UserpassRead
<1>2. parse_userpass(f) = Ok(v, << >>)
  BY UserpassParsed
<1> HIDE DEF v, r
<1>3. r.ok /\ r.val = v /\ r.rest = Skip(b, Len(f)) /\ parse_userpass(f).val = v
  BY <1>1, <1>2, OkFields
<1>4. LoginAccepted(f) <=> v.version = 1 /\ authed(Users, v.username, v.password)
  BY <1>3 DEF LoginAccepted
<1>5. LoginIn(b) = IF v.version = 1 /\ authed(Users, v.username, v.password)
                     THEN RequestIn(Skip(b, Len(f))) ELSE Err("Failure")
  BY <1>3 DEF LoginIn, r
<1>6. QED BY <1>4, <1>5

\* A login that ends before its last field does
LoginShort(b) ==
  \/ Len(b) < 2
  \/ Len(b) >= 2 /\ Len(b) < 3 + b[2]
  \/ Len(b) >= 2 /\ Len(b) >= 3 + b[2] /\ Len(b) < 3 + b[2] + b[3 + b[2]]

\* is truncated.
LEMMA LoginCut ==
  ASSUME NEW b \in Seq(Byte), LoginShort(b)
  PROVE  LoginIn(b) = truncated
<1>1. Len(b) \in Nat /\ ~truncated.ok
  BY ErrFields DEF truncated
<1>2. SUFFICES parse_userpass(b) = truncated
  BY <1>1 DEF LoginIn
<1>3. CASE Len(b) < 2
  BY <1>3 DEF parse_userpass
<1>4. CASE ~(Len(b) < 2)
  <2> DEFINE k == 2
             n == b[2]
             c == Skip(b, k)
             d == Skip(c, n)
             t == take(c, n)
  <2>1. k \in Nat /\ k <= Len(b) /\ 2 \in 1..Len(b)
    BY <1>1, <1>4
  <2>2. n \in Nat
    BY <2>1, ByteOf
  <2>3. parse_userpass(b) =
          Try(t, LAMBDA username, rest :
            IF rest = << >> THEN truncated
            ELSE Try(take(Tail(rest), Head(rest)), LAMBDA password, left :
                   Ok([version |-> b[1], username |-> username,
                       password |-> password], left)))
    BY <1>4 DEF parse_userpass
  <2>4. \/ Len(b) < k + n
        \/ Len(b) = k + n
        \/ Len(b) >= 3 + n /\ Len(b) < 3 + n + b[3 + n]
    BY <1>1, <1>4, <2>2 DEF LoginShort
  <2> HIDE DEF k, n
  <2>5. c \in Seq(Byte) /\ Len(c) = Len(b) - k
    BY <2>1, Skipped
  <2>6. CASE Len(b) < k + n
    <3> HIDE DEF c
    <3>1. n > Len(c)
      BY <1>1, <2>1, <2>2, <2>5, <2>6
    <3>2. t = truncated
      BY <2>2, <2>5, <3>1, Taken
    <3> HIDE DEF t
    <3>3. QED BY <1>1, <2>3, <3>2 DEF Try
  <2>7. CASE ~(Len(b) < k + n)
    <3>1. k + n <= Len(b) /\ k + n \in Nat
      BY <1>1, <2>1, <2>2, <2>7
    <3>2. t = Ok(SubSeq(c, 1, n), d)
      <4> HIDE DEF c
      <4>1. n <= Len(c)
        BY <1>1, <2>1, <2>2, <2>5, <3>1
      <4>2. QED BY <2>2, <2>5, <4>1, Taken
    <3>3. d = Skip(b, k + n)
      BY <2>1, <2>2, <3>1, SkipTwice
    <3> DEFINE x == Len(b) - (k + n)
    <3>4. /\ d \in Seq(Byte) /\ Len(d) = x
          /\ \A i \in 1..x : d[i] = b[(k + n) + i]
      <4> DEFINE y == k + n
      <4> HIDE DEF y
      <4>1. y \in Nat /\ y <= Len(b) /\ d = Skip(b, y)
        BY <3>1, <3>3 DEF y
      <4>2. /\ Skip(b, y) \in Seq(Byte) /\ Len(Skip(b, y)) = Len(b) - y
            /\ \A i \in 1..(Len(b) - y) : Skip(b, y)[i] = b[y + i]
        BY <4>1, Skipped
      <4> HIDE DEF d
      <4>3. QED BY <4>1, <4>2 DEF y
    <3> HIDE DEF t, c, d
    <3>5. t.ok /\ t.rest = d
      BY <3>2, OkFields
    <3>6. parse_userpass(b) =
            IF d = << >> THEN truncated
            ELSE Try(take(Tail(d), Head(d)), LAMBDA password, left :
                   Ok([version |-> b[1], username |-> t.val,
                       password |-> password], left))
      BY <2>3, <3>5 DEF Try
    <3>7. CASE Len(b) = k + n
      <4>1. Len(d) = 0
        BY <1>1, <3>1, <3>4, <3>7
      <4>2. d = << >>
        BY <3>4, <4>1
      <4>3. QED BY <3>6, <4>2
    <3>8. CASE Len(b) >= 3 + n /\ Len(b) < 3 + n + b[3 + n]
      <4>1. x \in Nat /\ x >= 1 /\ (k + n) + 1 = 3 + n
        BY <1>1, <2>2, <3>1, <3>8 DEF k
      <4> HIDE DEF x
      <4>2. d # << >>
        BY <3>4, <4>1
      <4> DEFINE m == d[1]
                 w == Skip(d, 1)
      <4>3. Tail(d) = w /\ Head(d) = m
        BY <3>4, <4>2, TailSkips
      <4>4. 1 \in 1..x /\ 1 \in 1..Len(d)
        BY <3>4, <4>1
      <4>5. m = b[3 + n] /\ m \in Nat
        BY <3>4, <4>1, <4>4, ByteOf
      <4>6. w \in Seq(Byte) /\ Len(w) = x - 1
        <5> DEFINE j == 1
        <5>1. j \in Nat /\ j <= Len(d)
          BY <3>4, <4>1
        <5> HIDE DEF j
        <5>2. Skip(d, j) \in Seq(Byte) /\ Len(Skip(d, j)) = Len(d) - j
          BY <3>4, <5>1, Skipped
        <5>3. QED BY <3>4, <5>2 DEF j
      <4> HIDE DEF m, w
      <4>7. Len(b) < 3 + n + m
        BY <3>8, <4>5
      <4>8. m > Len(w)
        BY <1>1, <2>2, <4>1, <4>5, <4>6, <4>7 DEF x, k
      <4>9. take(w, m) = truncated
        BY <4>5, <4>6, <4>8, Taken
      <4>10. QED BY <1>1, <3>6, <4>2, <4>3, <4>9 DEF Try
    <3>9. QED BY <2>4, <2>7, <3>7, <3>8
  <2>8. QED BY <2>6, <2>7
<1>5. QED BY <1>3, <1>4

\* f says what is asked for: a version, a command and an address type the
\* server knows.
RequestHead(f) ==
  /\ f \in Seq(Byte) /\ Len(f) >= 4
  /\ f[1] = SOCKS_VERSION /\ f[2] \in SockCommands /\ f[4] \in AddrTypes

\* It says how long its address is.
HasAddr(f) == f[4] # Domain \/ Len(f) >= 5

\* The request in f.
RequestOf(f, s, l) ==
  [version |-> f[1], command |-> f[2], addr_type |-> f[4],
   addr |-> SubSeq(f, (4 + s) + 1, (4 + s) + l),
   port |-> f[4 + s + l + 1] * 256 + f[4 + s + l + 2]]

\* parse_request reads address and port as parse_udp_header does.
LEMMA RequestByHeader ==
  ASSUME NEW b, b[2] \in SockCommands
  PROVE  LET h == parse_udp_header(b)
         IN  parse_request(b) =
               IF h.ok THEN Ok([version |-> b[1], command |-> b[2], addr_type |-> b[4],
                                addr |-> h.val.addr, port |-> h.val.port], h.rest)
                       ELSE h
<1> DEFINE h == parse_udp_header(b)
           x == take_addr(Skip(b, 4), b[4])
           y == take_port(x.rest)
           v == [frag |-> b[3], addr_type |-> b[4], addr |-> x.val, port |-> y.val]
           r == [version |-> b[1], command |-> b[2], addr_type |-> b[4],
                 addr |-> x.val, port |-> y.val]
<1>1. ~truncated.ok /\ ~Err("AddrTypeNotSupported").ok
  BY ErrFields DEF truncated
<1>2. CASE Len(b) < 4
  <2>1. h = truncated /\ parse_request(b) = truncated
    BY <1>2 DEF parse_udp_header, parse_request
  <2> HIDE DEF h
  <2>2. QED BY <1>1, <2>1 DEF h
<1>3. CASE ~(Len(b) < 4) /\ b[4] \notin AddrTypes
  <2>1. h = Err("AddrTypeNotSupported") /\ parse_request(b) = Err("AddrTypeNotSupported")
    BY <1>3 DEF parse_udp_header, parse_request
  <2> HIDE DEF h
  <2>2. QED BY <1>1, <2>1 DEF h
<1>4. CASE ~(Len(b) < 4) /\ b[4] \in AddrTypes
  <2>1. h = IF x.ok THEN IF y.ok THEN Ok(v, y.rest) ELSE y ELSE x
    BY <1>4 DEF parse_udp_header, TakeTarget, Try
  <2>2. parse_request(b) = IF x.ok THEN IF y.ok THEN Ok(r, y.rest) ELSE y ELSE x
    BY <1>4 DEF parse_request, TakeTarget, Try
  <2>3. v.addr = x.val /\ v.port = y.val
    OBVIOUS
  <2> HIDE DEF x, y, v, h
  <2>4. CASE x.ok /\ y.ok
    <3>1. h = Ok(v, y.rest) /\ parse_request(b) = Ok(r, y.rest)
      BY <2>1, <2>2, <2>4
    <3>2. h.ok /\ h.val = v /\ h.rest = y.rest
      BY <3>1, OkFields
    <3>3. QED BY <2>3, <3>1, <3>2 DEF h
  <2>5. CASE ~(x.ok /\ y.ok)
    BY <2>1, <2>2, <2>5 DEF h
  <2>6. QED BY <2>4, <2>5
<1>5. QED BY <1>2, <1>3, <1>4

\* So it is exact about what is missing.
LEMMA RequestTaken ==
  ASSUME NEW b \in Seq(Byte), Len(b) >= 4, b[2] \in SockCommands, b[4] \in AddrTypes,
         NEW s, NEW l, AddrAt(Skip(b, 4), b[4], s, l)
  PROVE  /\ s \in Nat /\ l \in Nat
         /\ 4 + s + l + 2 <= Len(b) =>
              parse_request(b) = Ok(RequestOf(b, s, l), Skip(b, 4 + s + l + 2))
         /\ 4 + s + l + 2 > Len(b) => parse_request(b) = truncated
<1> DEFINE h == parse_udp_header(b)
           v == HeaderOf(b, s, l)
           e == 4 + s + l + 2
<1>1. /\ s \in Nat /\ l \in Nat
      /\ e <= Len(b) => h = Ok(v, Skip(b, e))
      /\ e > Len(b) => h = truncated
  BY HeaderParsed
<1>2. parse_request(b) =
        IF h.ok THEN Ok([version |-> b[1], command |-> b[2], addr_type |-> b[4],
                         addr |-> h.val.addr, port |-> h.val.port], h.rest)
                ELSE h
  BY RequestByHeader
<1>3. /\ v.addr = SubSeq(b, (4 + s) + 1, (4 + s) + l)
      /\ v.port = b[4 + s + l + 1] * 256 + b[4 + s + l + 2]
  BY DEF HeaderOf
<1>4. ~truncated.ok
  BY ErrFields DEF truncated
<1> HIDE DEF h, v, e
<1>5. ASSUME e <= Len(b) PROVE parse_request(b) = Ok(RequestOf(b, s, l), Skip(b, e))
  <2>1. h.ok /\ h.val = v /\ h.rest = Skip(b, e)
    BY <1>1, <1>5, OkFields
  <2>2. QED BY <1>2, <1>3, <2>1 DEF RequestOf
<1>6. ASSUME e > Len(b) PROVE parse_request(b) = truncated
  BY <1>1, <1>2, <1>4, <1>6
<1>7. QED BY <1>1, <1>5, <1>6 DEF e

\* The address is where the first bytes say.
LEMMA AddrKept ==
  ASSUME NEW f, NEW b, Begins(f, b), Len(f) >= 4, HasAddr(f),
         NEW s, NEW l, AddrAt(Skip(f, 4), f[4], s, l)
  PROVE  AddrAt(Skip(b, 4), b[4], s, l)
<1> DEFINE k == 4
           c == Skip(f, k)
           d == Skip(b, k)
<1>1. /\ f \in Seq(Byte) /\ b \in Seq(Byte) /\ Len(f) \in Nat /\ Len(b) \in Nat
      /\ Len(f) <= Len(b) /\ \A i \in 1..Len(f) : b[i] = f[i]
  BY DEF Begins
<1>2. k \in Nat /\ k <= Len(f) /\ k <= Len(b) /\ 4 \in 1..Len(f)
  BY <1>1
<1>3. b[4] = f[4]
  BY <1>1, <1>2
<1>4. CASE f[4] # Domain
  BY <1>3, <1>4 DEF AddrAt
<1>5. CASE f[4] = Domain
  <2>1. Len(f) >= 5
    BY <1>5 DEF HasAddr
  <2>2. s = 1 /\ l = c[1]
    BY <1>5 DEF AddrAt, V4, V6, Domain
  <2> HIDE DEF k
  <2>3. Len(c) = Len(f) - k /\ c \in Seq(Byte) /\ \A i \in 1..(Len(f) - k) : c[i] = f[k + i]
    BY <1>1, <1>2, Skipped
  <2>4. Len(d) = Len(b) - k /\ d \in Seq(Byte) /\ \A i \in 1..(Len(b) - k) : d[i] = b[k + i]
    BY <1>1, <1>2, Skipped
  <2> HIDE DEF c, d
  <2>5. 1 \in 1..(Len(f) - k) /\ 1 \in 1..(Len(b) - k) /\ k + 1 \in 1..Len(f)
    BY <1>1, <1>2, <2>1 DEF k
  <2>6. c[1] = d[1]
    BY <1>1, <2>3, <2>4, <2>5
  <2>7. d # << >>
    BY <1>1, <2>4, <2>5
  <2>8. AddrAt(d, b[4], s, l)
    BY <1>3, <1>5, <2>2, <2>6, <2>7 DEF AddrAt
  <2>9. QED BY <2>8 DEF d, k
<1>6. QED BY <1>4, <1>5

\* The request in b is the one in f, if that has it all.
LEMMA RequestKept ==
  ASSUME NEW f, NEW b, Begins(f, b), Len(f) >= 4, NEW s \in Nat, NEW l \in Nat,
         Len(f) = 4 + s + l + 2
  PROVE  RequestOf(b, s, l) = RequestOf(f, s, l)
<1> DEFINE m == 4 + s
           p == SubSeq(b, m + 1, m + l)
           q == SubSeq(f, m + 1, m + l)
<1>1. /\ f \in Seq(Byte) /\ b \in Seq(Byte) /\ Len(f) \in Nat /\ Len(b) \in Nat
      /\ Len(f) <= Len(b) /\ \A i \in 1..Len(f) : b[i] = f[i]
  BY DEF Begins
<1>2. m \in Nat /\ m + l <= Len(f) /\ m + l <= Len(b)
  BY <1>1
<1>3. /\ 1 \in 1..Len(f) /\ 2 \in 1..Len(f) /\ 4 \in 1..Len(f)
      /\ 4 + s + l + 1 \in 1..Len(f) /\ 4 + s + l + 2 \in 1..Len(f)
  BY <1>1
<1>4. p = q
  <2> HIDE DEF m
  <2>1. p \in Seq(Byte) /\ Len(p) = l /\ \A i \in 1..l : p[i] = b[m + i]
    BY <1>1, <1>2, Piece
  <2>2. q \in Seq(Byte) /\ Len(q) = l /\ \A i \in 1..l : q[i] = f[m + i]
    BY <1>1, <1>2, Piece
  <2> HIDE DEF p, q
  <2>3. \A i \in 1..l : m + i \in 1..Len(f)
    BY <1>1, <1>2
  <2>4. \A i \in 1..l : p[i] = q[i]
    BY <1>1, <2>1, <2>2, <2>3
  <2>5. QED BY <2>1, <2>2, <2>4, SameBytes
<1>5. /\ b[1] = f[1] /\ b[2] = f[2] /\ b[4] = f[4]
      /\ b[4 + s + l + 1] = f[4 + s + l + 1] /\ b[4 + s + l + 2] = f[4 + s + l + 2]
  BY <1>1, <1>3
<1> HIDE DEF p, q
<1>6. QED BY <1>4, <1>5 DEF RequestOf, p, q, m

\* It is the frame of that request,
LEMMA RequestFramed ==
  ASSUME NEW f, RequestHead(f), NEW s, NEW l, AddrAt(Skip(f, 4), f[4], s, l),
         s \in Nat, l \in Nat, Len(f) = 4 + s + l + 2
  PROVE  f = RequestFrame(RequestOf(f, s, l), f[3])
<1> DEFINE r == RequestOf(f, s, l)
           addr == SubSeq(f, (4 + s) + 1, (4 + s) + l)
           x == f[4 + s + l + 1]
           y == f[4 + s + l + 2]
           h == <<SOCKS_VERSION, f[2], f[3], f[4]>>
           d == IF f[4] = Domain THEN <<l>> ELSE << >>
           p == <<x, y>>
           g == ((h \o d) \o addr) \o p
           lh == 4
           lp == 2
<1>1. f \in Seq(Byte) /\ Len(f) \in Nat
  BY DEF RequestHead
<1>2. \A i \in 1..Len(f) : f[i] \in Byte
  BY <1>1
<1>3. /\ 1 \in 1..Len(f) /\ 2 \in 1..Len(f) /\ 3 \in 1..Len(f) /\ 4 \in 1..Len(f)
      /\ 4 + s + l + 1 \in 1..Len(f) /\ 4 + s + l + 2 \in 1..Len(f)
  BY <1>1
<1>4. /\ f[1] \in Byte /\ f[2] \in Byte /\ f[3] \in Byte /\ f[4] \in Byte /\ x \in Byte
      /\ y \in Byte
  BY <1>2, <1>3
<1>5. f[1] = SOCKS_VERSION
  BY DEF RequestHead
<1>6. h \in Seq(Byte) /\ lh = Len(h)
      /\ h[1] = f[1] /\ h[2] = f[2] /\ h[3] = f[3] /\ h[4] = f[4]
  BY <1>4, <1>5
<1>7. addr \in Seq(Byte) /\ Len(addr) = l /\ \A i \in 1..l : addr[i] = f[(4 + s) + i]
  <2> DEFINE m == 4 + s
  <2>1. m \in Nat /\ m + l <= Len(f)
    BY <1>1
  <2> HIDE DEF m
  <2>2. /\ SubSeq(f, m + 1, m + l) \in Seq(Byte) /\ Len(SubSeq(f, m + 1, m + l)) = l
        /\ \A i \in 1..l : SubSeq(f, m + 1, m + l)[i] = f[m + i]
    BY <1>1, <2>1, Piece
  <2>3. QED BY <2>2 DEF m
<1>8. d \in Seq(Byte) /\ s = Len(d) /\ (s # 0 => s = 1 /\ d[1] = f[4 + 1])
  <2>1. CASE f[4] = Domain
    <3> DEFINE k == 4
               c == Skip(f, k)
    <3>1. s = 1 /\ l = c[1]
      BY <2>1 DEF AddrAt, V4, V6, Domain
    <3>2. k \in Nat /\ k <= Len(f) /\ 1 \in 1..(Len(f) - k) /\ k + 1 \in 1..Len(f)
      BY <1>1, <3>1
    <3>3. c[1] = f[k + 1]
      <4> HIDE DEF k
      <4>1. \A i \in 1..(Len(f) - k) : c[i] = f[k + i]
        BY <1>1, <3>2, Skipped
      <4> HIDE DEF c
      <4>2. QED BY <3>2, <4>1
    <3>4. l \in Byte
      BY <1>2, <3>1, <3>2, <3>3
    <3>5. QED BY <2>1, <3>1, <3>3, <3>4
  <2>2. CASE f[4] # Domain
    <3>1. s = 0
      BY <2>2 DEF AddrAt
    <3>2. QED BY <2>2, <3>1
  <2>3. QED BY <2>1, <2>2
<1>9. p \in Seq(Byte) /\ lp = Len(p) /\ p[1] = x /\ p[2] = y
  BY <1>4
<1>10. l = Len(addr)
  BY <1>7
<1>11. RequestFrame(r, f[3]) = g
  <2>1. /\ r.command = f[2] /\ r.addr_type = f[4] /\ r.addr = addr
        /\ r.port = x * 256 + y
    BY DEF RequestOf
  <2>2. ToBytes(r.port) = p
    BY <1>4, <2>1, PortBytes
  <2>3. QED BY <1>10, <2>1, <2>2 DEF RequestFrame
<1> HIDE DEF r, addr, x, y, h, d, p, lh, lp
<1>12. /\ g \in Seq(Byte) /\ Len(g) = lh + s + l + lp
       /\ \A i \in 1..lh : g[i] = h[i]
       /\ \A i \in 1..s : g[lh + i] = d[i]
       /\ \A i \in 1..l : g[lh + s + i] = addr[i]
       /\ \A i \in 1..lp : g[lh + s + l + i] = p[i]
  <2>1. /\ h \in Seq(Byte) /\ d \in Seq(Byte) /\ addr \in Seq(Byte) /\ p \in Seq(Byte)
        /\ lh = Len(h) /\ s = Len(d) /\ l = Len(addr) /\ lp = Len(p)
    BY <1>6, <1>7, <1>8, <1>9, <1>10
  <2>2. QED BY <2>1, FourPieces
<1> HIDE DEF g
<1>13. lh = 4 /\ lp = 2
  BY DEF lh, lp
<1>14. Len(g) = Len(f)
  BY <1>12, <1>13
<1>15. ASSUME NEW i \in 1..Len(f) PROVE f[i] = g[i]
  <2>1. i \in Int /\ 1 <= i /\ i <= 4 + s + l + 2
    BY <1>1
  <2>2. CASE i <= 4
    <3>1. i \in 1..lh /\ (i = 1 \/ i = 2 \/ i = 3 \/ i = 4)
      BY <1>13, <2>1, <2>2
    <3>2. QED BY <1>6, <1>12, <3>1
  <2>3. CASE 4 < i /\ i <= 4 + s
    <3>1. s = 1 /\ i = 4 + 1 /\ 1 \in 1..s
      BY <1>8, <2>1, <2>3
    <3>2. QED BY <1>8, <1>12, <1>13, <3>1
  <2>4. CASE 4 + s < i /\ i <= 4 + s + l
    <3> DEFINE j == i - (4 + s)
    <3>1. j \in 1..l /\ (4 + s) + j = i /\ lh + s + j = i
      BY <1>13, <2>1, <2>4
    <3> HIDE DEF j
    <3>2. addr[j] = f[(4 + s) + j] /\ g[lh + s + j] = addr[j]
      BY <1>7, <1>12, <3>1
    <3>3. QED BY <3>1, <3>2
  <2>5. CASE 4 + s + l < i
    <3>1. i = 4 + s + l + 1 \/ i = 4 + s + l + 2
      BY <2>1, <2>5
    <3>2. 1 \in 1..lp /\ 2 \in 1..lp
      BY <1>13
    <3>3. g[4 + s + l + 1] = x /\ g[4 + s + l + 2] = y
      BY <1>9, <1>12, <1>13, <3>2
    <3>4. QED BY <3>1, <3>3 DEF x, y
  <2>6. QED BY <2>1, <2>2, <2>3, <2>4, <2>5
<1>16. f = g
  BY <1>1, <1>12, <1>14, <1>15, SameBytes
<1>17. QED BY <1>11, <1>16 DEF r

\* A request that has been read: f is parsed, whatever follows it, and written
\* back.
LEMMA RequestRead ==
  ASSUME NEW f, NEW b, Begins(f, b), RequestHead(f), HasAddr(f), Len(f) = HeaderEnd(f)
  PROVE  LET r == parse_request(f)
         IN  /\ r.ok /\ f = RequestFrame(r.val, f[3])
             /\ RequestIn(b) = Ok(r.val, Skip(b, Len(f)))
<1>1. f \in Seq(Byte) /\ Len(f) >= 4 /\ f[4] \in AddrTypes /\ f[2] \in SockCommands
  BY DEF RequestHead
<1>2. PICK s, l : /\ AddrAt(Skip(f, 4), f[4], s, l) /\ s \in Nat /\ l \in Nat
                  /\ HeaderEnd(f) = 4 + s + l + 2
  BY <1>1, HeaderAddr DEF HasAddr
<1> DEFINE e == 4 + s + l + 2
           v == RequestOf(f, s, l)
<1>3. e \in Nat /\ Len(f) = e
  BY <1>2
<1>4. parse_request(f) = Ok(v, Skip(f, e))
  <2>1. e <= Len(f)
    BY <1>3
  <2>2. QED BY <1>1, <1>2, <2>1, RequestTaken
<1>5. /\ b \in Seq(Byte) /\ Len(b) \in Nat /\ Len(f) <= Len(b)
      /\ b[1] = f[1] /\ b[2] = f[2] /\ b[4] = f[4]
  <2>1. /\ b \in Seq(Byte) /\ Len(b) \in Nat /\ Len(f) <= Len(b)
        /\ \A i \in 1..Len(f) : b[i] = f[i]
    BY DEF Begins
  <2>2. 1 \in 1..Len(f) /\ 2 \in 1..Len(f) /\ 4 \in 1..Len(f)
    BY <1>1, <1>3
  <2>3. QED BY <2>1, <2>2
<1>6. AddrAt(Skip(b, 4), b[4], s, l)
  BY <1>1, <1>2, AddrKept
<1>7. Len(b) >= 4 /\ e <= Len(b)
  BY <1>1, <1>3, <1>5
<1>8. parse_request(b) = Ok(RequestOf(b, s, l), Skip(b, e))
  BY <1>1, <1>5, <1>6, <1>7, RequestTaken
<1>9. RequestOf(b, s, l) = v
  BY <1>1, <1>2, <1>3, RequestKept
<1>10. f = RequestFrame(v, f[3])
  BY <1>2, <1>3, RequestFramed
<1>11. RequestIn(b) = parse_request(b)
  BY <1>5 DEF RequestIn, RequestHead
<1> HIDE DEF v, e
<1>12. parse_request(f).ok /\ parse_request(f).val = v
  <2> DEFINE r == parse_request(f)
  <2> HIDE DEF r
  <2>1. r = Ok(v, Skip(f, e))
    BY <1>4 DEF r
  <2>2. r.ok /\ r.val = v
    BY <2>1, OkFields
  <2>3. QED BY <2>2 DEF r
<1>13. QED BY <1>3, <1>8, <1>9, <1>10, <1>11, <1>12

\* A request that ends early is truncated.
LEMMA RequestCut ==
  ASSUME NEW f, NEW b, Begins(f, b), RequestHead(f),
         \/ f[4] = Domain /\ Len(b) < 5
         \/ HasAddr(f) /\ Len(b) < HeaderEnd(f)
  PROVE  RequestIn(b) = truncated
<1>1. f \in Seq(Byte) /\ Len(f) >= 4 /\ f[4] \in AddrTypes /\ f[2] \in SockCommands
      /\ Len(f) \in Nat
  BY DEF RequestHead
<1>2. /\ b \in Seq(Byte) /\ Len(b) \in Nat /\ Len(f) <= Len(b)
      /\ b[1] = f[1] /\ b[2] = f[2] /\ b[4] = f[4]
  <2>1. /\ b \in Seq(Byte) /\ Len(b) \in Nat /\ Len(f) <= Len(b)
        /\ \A i \in 1..Len(f) : b[i] = f[i]
    BY DEF Begins
  <2>2. 1 \in 1..Len(f) /\ 2 \in 1..Len(f) /\ 4 \in 1..Len(f)
    BY <1>1
  <2>3. QED BY <2>1, <2>2
<1>3. Len(b) >= 4 /\ ~(Len(b) < 4)
  BY <1>1, <1>2
<1>4. RequestIn(b) = parse_request(b)
  BY <1>2 DEF RequestIn, RequestHead
<1>5. CASE f[4] = Domain /\ Len(b) < 5
  <2>1. Skip(b, 4) = << >>
    <3> DEFINE n == Len(b)
    <3>1. n \in Nat /\ n >= 4 /\ n < 5
      BY <1>2, <1>3, <1>5
    <3> HIDE DEF n
    <3>2. n = 4
      BY <3>1
    <3>3. QED BY <3>2 DEF n, Skip
  <2>2. take_addr(<< >>, b[4]) = truncated /\ ~truncated.ok
    BY <1>2, <1>5, ErrFields DEF take_addr, V4, V6, Domain, truncated
  <2>3. parse_request(b) = truncated
    BY <1>1, <1>2, <1>3, <2>1, <2>2 DEF parse_request, TakeTarget, Try
  <2>4. QED BY <1>4, <2>3
<1>6. CASE HasAddr(f) /\ Len(b) < HeaderEnd(f)
  <2>1. PICK s, l : /\ AddrAt(Skip(f, 4), f[4], s, l) /\ s \in Nat /\ l \in Nat
                    /\ HeaderEnd(f) = 4 + s + l + 2
    BY <1>1, <1>6, HeaderAddr DEF HasAddr
  <2>2. AddrAt(Skip(b, 4), b[4], s, l)
    BY <1>1, <1>6, <2>1, AddrKept
  <2>3. 4 + s + l + 2 > Len(b)
    BY <1>2, <1>6, <2>1
  <2>4. parse_request(b) = truncated
    BY <1>1, <1>2, <1>3, <2>2, <2>3, RequestTaken
  <2>5. QED BY <1>4, <2>4
<1>7. QED BY <1>5, <1>6

-----------------------------------------------------------------------------
(* What is ahead, wherever the stream is cut                               *)

\* What the parsers make of the first n bytes of a stream, for every n from a
\* point on: what they make of the login, or of the request, that begins there;
\* a request, and the bytes that follow it; an error.
ToLogin(am, in, k) ==
  \A n \in k..Len(in) : StreamIn(am, SubSeq(in, 1, n)) = LoginIn(SubSeq(in, k + 1, n))
ToRequest(am, in, k) ==
  \A n \in k..Len(in) : StreamIn(am, SubSeq(in, 1, n)) = RequestIn(SubSeq(in, k + 1, n))
Settled(am, in, p, r) ==
  \A n \in p..Len(in) : StreamIn(am, SubSeq(in, 1, n)) = Ok(r, SubSeq(in, p + 1, n))
Refused(am, in, p, e) ==
  \A n \in p..Len(in) : StreamIn(am, SubSeq(in, 1, n)) = Err(e)

\* The first n bytes are not enough.
Cut(am, in, n) == StreamIn(am, SubSeq(in, 1, n)) = truncated

\* The first bytes of a stream, as PieceBegins has them.
LEMMA FirstBegins ==
  ASSUME NEW s \in Seq(Byte), NEW p \in Nat, NEW n \in Nat, p <= n, n <= Len(s)
  PROVE  /\ Begins(SubSeq(s, 1, p), SubSeq(s, 1, n))
         /\ Len(SubSeq(s, 1, p)) = p /\ Len(SubSeq(s, 1, n)) = n
         /\ Skip(SubSeq(s, 1, n), p) = SubSeq(s, p + 1, n)
<1> DEFINE z == 0
<1>1. z \in Nat /\ z <= p /\ z + 1 = 1 /\ p - z = p /\ n - z = n
  OBVIOUS
<1> HIDE DEF z
<1>2. /\ Begins(SubSeq(s, z + 1, p), SubSeq(s, z + 1, n))
      /\ Len(SubSeq(s, z + 1, p)) = p - z /\ Len(SubSeq(s, z + 1, n)) = n - z
      /\ Skip(SubSeq(s, z + 1, n), p - z) = SubSeq(s, p + 1, n)
  BY <1>1, PieceBegins
<1>3. QED BY <1>1, <1>2

\* A greeting of another version is refused,
LEMMA AfterBadGreeting ==
  ASSUME NEW in \in Seq(Byte), NEW am, NEW p \in Nat, p <= Len(in), NEW f,
         f = SubSeq(in, 1, p), Len(f) >= 2, f[1] # SOCKS_VERSION
  PROVE  Refused(am, in, p, "Failure")
<1> SUFFICES ASSUME NEW n \in p..Len(in)
             PROVE  StreamIn(am, SubSeq(in, 1, n)) = Err("Failure")
  BY DEF Refused
<1>1. n \in Nat /\ p <= n /\ n <= Len(in)
  OBVIOUS
<1>2. Begins(f, SubSeq(in, 1, n))
  BY <1>1, FirstBegins
<1>3. QED BY <1>2, GreetingTurnedAway

\* and auth's choice follows a greeting that has been read.
LEMMA AfterGreeting ==
  ASSUME NEW in \in Seq(Byte), NEW am, NEW p \in Nat, p <= Len(in), NEW f,
         f = SubSeq(in, 1, p), Len(f) >= 2, f[1] = SOCKS_VERSION, Len(f) = f[2] + 2,
         NEW methods, methods = ToSet(Skip(f, 2)) \cap am
  PROVE  /\ UserPass \in methods => ToLogin(am, in, p)
         /\ UserPass \notin methods /\ NoAuth \in methods => ToRequest(am, in, p)
         /\ UserPass \notin methods /\ NoAuth \notin methods
              => Refused(am, in, p, "Failure")
<1>1. ASSUME NEW n \in p..Len(in)
      PROVE  StreamIn(am, SubSeq(in, 1, n)) =
               ChosenIn(am, Skip(f, 2), SubSeq(in, p + 1, n))
  <2>1. n \in Nat /\ p <= n /\ n <= Len(in)
    OBVIOUS
  <2>2. /\ Begins(f, SubSeq(in, 1, n)) /\ Len(f) = p
        /\ Skip(SubSeq(in, 1, n), p) = SubSeq(in, p + 1, n)
    BY <2>1, FirstBegins
  <2>3. StreamIn(am, SubSeq(in, 1, n))
          = ChosenIn(am, Skip(f, 2), Skip(SubSeq(in, 1, n), Len(f)))
    BY <2>2, GreetingRead
  <2>4. QED BY <2>2, <2>3
<1>2. ASSUME NEW b
      PROVE  ChosenIn(am, Skip(f, 2), b) =
               IF UserPass \in methods THEN LoginIn(b)
               ELSE IF NoAuth \in methods THEN RequestIn(b) ELSE Err("Failure")
  BY DEF ChosenIn
<1>3. QED BY <1>1, <1>2 DEF ToLogin, ToRequest, Refused

\* The verdict follows a login that has been read.
LEMMA AfterLogin ==
  ASSUME NEW in \in Seq(Byte), NEW am, NEW k \in Nat, NEW p \in Nat, k <= p, p <= Len(in),
         NEW f, f = SubSeq(in, k + 1, p), LoginLayout(f), ToLogin(am, in, k)
  PROVE  /\ LoginAccepted(f) => ToRequest(am, in, p)
         /\ ~LoginAccepted(f) => Refused(am, in, p, "Failure")
<1>1. ASSUME NEW n \in p..Len(in)
      PROVE  StreamIn(am, SubSeq(in, 1, n)) =
               IF LoginAccepted(f) THEN RequestIn(SubSeq(in, p + 1, n)) ELSE Err("Failure")
  <2> DEFINE b == SubSeq(in, k + 1, n)
  <2>1. n \in Nat /\ p <= n /\ n <= Len(in) /\ n \in k..Len(in)
    OBVIOUS
  <2>2. Begins(f, b) /\ Len(f) = p - k /\ Skip(b, p - k) = SubSeq(in, p + 1, n)
    BY <2>1, PieceBegins
  <2>3. StreamIn(am, SubSeq(in, 1, n)) = LoginIn(b)
    BY <2>1 DEF ToLogin
  <2> HIDE DEF b
  <2>4. LoginIn(b) = IF LoginAccepted(f) THEN RequestIn(Skip(b, Len(f))) ELSE Err("Failure")
    BY <2>2, LoginRead
  <2>5. QED BY <2>2, <2>3, <2>4
<1>2. QED BY <1>1 DEF ToRequest, Refused

\* The header of a request the server does not support is refused,
LEMMA AfterBadRequest ==
  ASSUME NEW in \in Seq(Byte), NEW am, NEW k \in Nat, NEW p \in Nat, k <= p, p <= Len(in),
         NEW f, f = SubSeq(in, k + 1, p), Len(f) >= 4, ToRequest(am, in, k)
  PROVE  /\ f[1] # SOCKS_VERSION => Refused(am, in, p, "Failure")
         /\ f[1] = SOCKS_VERSION /\ f[2] \notin SockCommands
              => Refused(am, in, p, "CommandNotSupported")
         /\ f[1] = SOCKS_VERSION /\ f[2] \in SockCommands /\ f[4] \notin AddrTypes
              => Refused(am, in, p, "AddrTypeNotSupported")
<1>1. ASSUME NEW n \in p..Len(in)
      PROVE  StreamIn(am, SubSeq(in, 1, n)) =
               IF f[1] # SOCKS_VERSION THEN Err("Failure")
               ELSE IF f[2] \notin SockCommands THEN Err("CommandNotSupported")
               ELSE IF f[4] \notin AddrTypes THEN Err("AddrTypeNotSupported")
               ELSE StreamIn(am, SubSeq(in, 1, n))
  <2> DEFINE b == SubSeq(in, k + 1, n)
  <2>1. n \in Nat /\ p <= n /\ n <= Len(in) /\ n \in k..Len(in)
    OBVIOUS
  <2>2. Begins(f, b)
    BY <2>1, PieceBegins
  <2>3. StreamIn(am, SubSeq(in, 1, n)) = RequestIn(b)
    BY <2>1 DEF ToRequest
  <2> HIDE DEF b
  <2>4. /\ Len(f) \in Nat /\ Len(b) \in Nat /\ Len(f) <= Len(b)
        /\ \A i \in 1..Len(f) : b[i] = f[i]
    BY <2>2 DEF Begins
  <2>5. /\ Len(b) >= 4 /\ ~(Len(b) < 4) /\ 1 \in 1..Len(f) /\ 2 \in 1..Len(f)
        /\ 4 \in 1..Len(f)
    BY <2>4
  <2>6. b[1] = f[1] /\ b[2] = f[2] /\ b[4] = f[4]
    BY <2>4, <2>5
  <2>7. /\ f[1] # SOCKS_VERSION => RequestIn(b) = Err("Failure")
        /\ f[1] = SOCKS_VERSION => RequestIn(b) = parse_request(b)
    BY <2>5, <2>6 DEF RequestIn
  <2>8. /\ f[2] \notin SockCommands => parse_request(b) = Err("CommandNotSupported")
        /\ f[2] \in SockCommands /\ f[4] \notin AddrTypes =>
             parse_request(b) = Err("AddrTypeNotSupported")
    BY <2>5, <2>6 DEF parse_request
  <2>9. QED BY <2>3, <2>7, <2>8
<1>2. QED BY <1>1 DEF Refused

\* and one that has been read is settled.
LEMMA AfterRequest ==
  ASSUME NEW in \in Seq(Byte), NEW am, NEW k \in Nat, NEW p \in Nat, k <= p, p <= Len(in),
         NEW f, f = SubSeq(in, k + 1, p), RequestHead(f), HasAddr(f), Len(f) = HeaderEnd(f),
         ToRequest(am, in, k)
  PROVE  LET r == parse_request(f)
         IN  r.ok /\ f = RequestFrame(r.val, f[3]) /\ Settled(am, in, p, r.val)
<1> DEFINE r == parse_request(f)
<1> HIDE DEF r
<1>1. ASSUME NEW n \in p..Len(in)
      PROVE  /\ r.ok /\ f = RequestFrame(r.val, f[3])
             /\ StreamIn(am, SubSeq(in, 1, n)) = Ok(r.val, SubSeq(in, p + 1, n))
  <2> DEFINE b == SubSeq(in, k + 1, n)
  <2>1. n \in Nat /\ p <= n /\ n <= Len(in) /\ n \in k..Len(in)
    OBVIOUS
  <2>2. Begins(f, b) /\ Len(f) = p - k /\ Skip(b, p - k) = SubSeq(in, p + 1, n)
    BY <2>1, PieceBegins
  <2>3. StreamIn(am, SubSeq(in, 1, n)) = RequestIn(b)
    BY <2>1 DEF ToRequest
  <2> HIDE DEF b
  <2>4. /\ r.ok /\ f = RequestFrame(r.val, f[3])
        /\ RequestIn(b) = Ok(r.val, Skip(b, Len(f)))
    BY <2>2, RequestRead DEF r
  <2>5. QED BY <2>2, <2>3, <2>4
<1>2. p \in p..Len(in)
  OBVIOUS
<1>3. QED BY <1>1, <1>2 DEF Settled, r

-----------------------------------------------------------------------------
(* What has been read                                                      *)

\* The first p bytes of in are greeting g, login l, and f of the message being
\* read.
SoFar(in, p, g, l, f) ==
  /\ g \in Seq(Byte) /\ l \in Seq(Byte) /\ f \in Seq(Byte)
  /\ Len(g) + Len(l) + Len(f) = p
  /\ g \o l = SubSeq(in, 1, Len(g) + Len(l))
  /\ f = SubSeq(in, Len(g) + Len(l) + 1, p)

\* The message that begins behind k bytes
Parts(in, p, g, l, f, k) ==
  /\ g \in Seq(Byte) /\ l \in Seq(Byte) /\ f \in Seq(Byte)
  /\ Len(g) \in Nat /\ Len(l) \in Nat /\ Len(f) \in Nat
  /\ k \in Nat /\ k + Len(f) = p /\ k <= p
  /\ g \o l = SubSeq(in, 1, k) /\ f = SubSeq(in, k + 1, p)

\* Their lengths add up.
LEMMA SoFarParts ==
  ASSUME NEW in, NEW p, NEW g, NEW l, NEW f, SoFar(in, p, g, l, f)
  PROVE  Parts(in, p, g, l, f, Len(g) + Len(l))
<1> DEFINE k == Len(g) + Len(l)
<1>1. g \in Seq(Byte) /\ l \in Seq(Byte) /\ f \in Seq(Byte)
  BY Zenon DEF SoFar
<1> DEFINE x == Len(g)
           y == Len(l)
           z == Len(f)
<1>2. x \in Nat /\ y \in Nat /\ z \in Nat
  BY <1>1, LenProperties
<1>3. x + y + z = p /\ k = x + y
  BY Zenon DEF SoFar
<1>4. g \o l = SubSeq(in, 1, k) /\ f = SubSeq(in, k + 1, p)
  BY Zenon DEF SoFar
<1> HIDE DEF x, y, z, k
<1>5. k \in Nat /\ k + z = p /\ k <= p
  BY <1>2, <1>3
<1>6. Parts(in, p, g, l, f, k)
  BY <1>1, <1>2, <1>4, <1>5, Zenon DEF x, y, z, Parts
<1>7. QED BY <1>6 DEF k

\* Adjacent pieces anywhere
LEMMA AdjacentFrom ==
  ASSUME NEW b \in Seq(Byte), NEW k \in Nat, NEW m \in Nat, NEW n \in Nat,
         k <= m, m <= n, n <= Len(b)
  PROVE  SubSeq(b, k + 1, m) \o SubSeq(b, m + 1, n) = SubSeq(b, k + 1, n)
<1>1. /\ k + 1 \in 1..(Len(b) + 1) /\ m \in ((k + 1) - 1)..Len(b) /\ n \in m..Len(b)
  OBVIOUS
<1>2. QED BY <1>1, ConcatAdjacentSubSeq, Zenon

\* Reading on adds to the message.
LEMMA ReadOn ==
  ASSUME NEW in \in Seq(Byte), NEW p \in Nat, NEW n \in Nat, p + n <= Len(in),
         NEW g, NEW l, NEW f, SoFar(in, p, g, l, f),
         NEW h, h = f \o SubSeq(in, p + 1, p + n)
  PROVE  SoFar(in, p + n, g, l, h)
<1> DEFINE k == Len(g) + Len(l)
           c == SubSeq(in, p + 1, p + n)
           q == p + n
           x == Len(f)
<1>1. k = Len(g) + Len(l) /\ Parts(in, p, g, l, f, k)
  BY SoFarParts
<1> HIDE DEF k
<1>2. /\ g \in Seq(Byte) /\ l \in Seq(Byte) /\ f \in Seq(Byte) /\ k \in Nat
      /\ x \in Nat /\ k + x = p /\ k <= p
      /\ g \o l = SubSeq(in, 1, k) /\ f = SubSeq(in, k + 1, p)
  BY <1>1, Zenon DEF Parts, x
<1>3. c \in Seq(Byte) /\ n = Len(c)
  BY Piece
<1>4. q \in Nat /\ p <= q /\ q <= Len(in) /\ k <= q
  BY <1>2
<1>5. h = f \o c /\ c = SubSeq(in, p + 1, q) /\ x = Len(f)
  OBVIOUS
<1> HIDE DEF q, c, x
<1>6. SubSeq(in, k + 1, p) \o SubSeq(in, p + 1, q) = SubSeq(in, k + 1, q)
  <2>1. k \in Nat /\ q \in Nat /\ k <= p /\ p <= q /\ q <= Len(in)
    BY <1>2, <1>4
  <2>2. QED BY <2>1, AdjacentFrom
<1>7. h = SubSeq(in, k + 1, q)
  BY <1>2, <1>5, <1>6, Zenon
<1>8. f \o c \in Seq(Byte) /\ Len(f \o c) = x + n
  <2>1. f \in Seq(Byte) /\ x = Len(f)
    BY <1>2, <1>5
  <2>2. QED BY <1>3, <2>1, Joined
<1>9. k + (x + n) = q
  BY <1>2 DEF q
<1>10. k + Len(h) = q
  BY <1>5, <1>8, <1>9, Zenon
<1>11. SoFar(in, q, g, l, h)
  BY <1>1, <1>2, <1>5, <1>7, <1>8, <1>10, Zenon DEF SoFar
<1>12. QED BY <1>11 DEF q

\* A message that has been read becomes the greeting,
LEMMA GreetingKept ==
  ASSUME NEW in \in Seq(Byte), NEW p \in Nat, p <= Len(in), NEW f,
         SoFar(in, p, << >>, << >>, f)
  PROVE  /\ f = SubSeq(in, 1, p) /\ Len(f) = p
         /\ SoFar(in, p, f, << >>, << >>)
<1> DEFINE e == << >>
<1>1. f \in Seq(Byte) /\ Len(f) \in Nat /\ Len(f) = p /\ f = SubSeq(in, 1, p)
  BY DEF SoFar
<1>2. e \in Seq(Byte) /\ Len(e) = 0 /\ SubSeq(in, p + 1, p) = e
  OBVIOUS
<1>3. f \o e = f
  BY <1>1, ConcatEmptySeq
<1>4. Len(f) + Len(e) = p /\ Len(f) + Len(e) + Len(e) = p
  BY <1>1, <1>2
<1> HIDE DEF e
<1>5. SoFar(in, p, f, e, e)
  BY <1>1, <1>2, <1>3, <1>4 DEF SoFar
<1>6. QED BY <1>1, <1>5 DEF e

\* or the login.
LEMMA LoginKept ==
  ASSUME NEW in \in Seq(Byte), NEW p \in Nat, p <= Len(in), NEW g, NEW f,
         SoFar(in, p, g, << >>, f)
  PROVE  /\ f = SubSeq(in, Len(g) + 1, p) /\ Len(g) + Len(f) = p
         /\ SoFar(in, p, g, f, << >>)
<1> DEFINE e == << >>
           k == Len(g)
           x == Len(f)
<1>1. e \in Seq(Byte) /\ Len(e) = 0 /\ SubSeq(in, p + 1, p) = e
  OBVIOUS
<1>2. g \in Seq(Byte) /\ f \in Seq(Byte)
  BY DEF SoFar
<1>3. k \in Nat /\ x \in Nat /\ k = Len(g) + Len(e)
  BY <1>1, <1>2, LenProperties
<1>4. SoFar(in, p, g, e, f)
  OBVIOUS
<1> HIDE DEF e
<1>a. Parts(in, p, g, e, f, Len(g) + Len(e))
  BY <1>4, SoFarParts
<1> HIDE DEF k, x
<1>5. k + Len(f) = p /\ k <= p /\ g \o e = SubSeq(in, 1, k) /\ f = SubSeq(in, k + 1, p)
  BY <1>a, <1>3 DEF Parts
<1>6. g \o e = g
  BY <1>2, ConcatEmptySeq DEF e
<1>7. SubSeq(in, 1, k) \o SubSeq(in, k + 1, p) = SubSeq(in, 1, p)
  BY <1>3, <1>5, Adjacent, Zenon
<1>8. g \o f = SubSeq(in, 1, p)
  BY <1>5, <1>6, <1>7, Zenon
<1>9. Len(g) + Len(f) = p
  BY <1>5 DEF k
<1>10. p + Len(e) = p
  BY <1>1
<1>11. SoFar(in, p, g, f, e)
  BY <1>1, <1>2, <1>8, <1>9, <1>10, Zenon DEF SoFar
<1>12. QED BY <1>5, <1>9, <1>11, Zenon DEF e, k

\* Together they are what has been read.
LEMMA AllRead ==
  ASSUME NEW in \in Seq(Byte), NEW p \in Nat, p <= Len(in), NEW g, NEW l, NEW f,
         SoFar(in, p, g, l, f)
  PROVE  SubSeq(in, 1, p) = (g \o l) \o f
<1> DEFINE k == Len(g) + Len(l)
<1>1. Parts(in, p, g, l, f, k)
  BY SoFarParts
<1> HIDE DEF k
<1>2. k \in Nat /\ k <= p /\ g \o l = SubSeq(in, 1, k) /\ f = SubSeq(in, k + 1, p)
  BY <1>1, Zenon DEF Parts
<1>3. SubSeq(in, 1, k) \o SubSeq(in, k + 1, p) = SubSeq(in, 1, p)
  BY <1>2, Adjacent, Zenon
<1>4. QED BY <1>2, <1>3, Zenon

-----------------------------------------------------------------------------
(* The reader's way through the stream                                     *)

\* Where the message being read begins.
Start == Len(greeting) + Len(login)

\* The three messages
GreetingStates == {"greeting", "method", "select"}
LoginStates == {"login", "username", "plen", "password", "verdict"}
BodyStates == {"addr4", "addr16", "dlen", "domain", "port", "parse"}

\* Nothing is lost or read twice.
ReadSoFar == pc # "failed" => SoFar(input, pos, greeting, login, frame)

\* What has been checked of a message, and how far its fields have been read
FieldsRead ==
  /\ pc \in GreetingStates => greeting = << >> /\ login = << >>
  /\ pc \in LoginStates => login = << >>
  /\ pc \in {"method", "select"} => frame[1] = SOCKS_VERSION
  /\ pc \in BodyStates => RequestHead(frame)
  /\ pc = "addr4" => frame[4] = V4 /\ Len(frame) = 4
  /\ pc = "addr16" => frame[4] = V6 /\ Len(frame) = 4
  /\ pc = "dlen" => frame[4] = Domain /\ Len(frame) = 4
  /\ pc = "domain" => frame[4] = Domain /\ Len(frame) = 5
  /\ pc = "port" => HasAddr(frame) /\ HeaderEnd(frame) = Len(frame) + 2
  /\ pc = "parse" => HasAddr(frame) /\ HeaderEnd(frame) = Len(frame)

\* What the parsers will make of the stream, however much of it arrives; where
\* the reader failed for want of bytes, no more can.
Ahead ==
  /\ pc \in LoginStates => ToLogin(auth_methods, input, Start)
  /\ pc \in BodyStates \cup {"request"} => ToRequest(auth_methods, input, Start)
  /\ pc = "ready" => /\ Settled(auth_methods, input, pos, req)
                     /\ frame = RequestFrame(req, frame[3])
  /\ pc = "failed" => IF err = "UnexpectedEof" THEN fin /\ Cut(auth_methods, input, avail)
                      ELSE Refused(auth_methods, input, pos, err)

\* The invariant behind ReadersAgree
AgreeInv == ReadSoFar /\ FieldsRead /\ Ahead

\* Nothing has been read at first.
LEMMA InitAgreeInv == Init => AgreeInv
<1> SUFFICES ASSUME Init PROVE AgreeInv
  OBVIOUS
<1> DEFINE e == << >>
<1>1. input \in Seq(Byte)
  BY NegotiationAssumption DEF Init
<1>2. e \in Seq(Byte) /\ Len(e) = 0 /\ e \o e = e /\ SubSeq(input, 1, 0) = e
  BY <1>1
<1>3. SoFar(input, 0, e, e, e)
  <2> HIDE DEF e
  <2>1. Len(e) + Len(e) = 0 /\ Len(e) + Len(e) + Len(e) = 0
    BY <1>2
  <2>2. QED BY <1>2, <2>1 DEF SoFar
<1>4. ReadSoFar
  BY <1>3 DEF ReadSoFar, Init
<1>5. FieldsRead
  BY DEF FieldsRead, Init, GreetingStates, LoginStates, BodyStates
<1>6. Ahead
  BY DEF Ahead, Init, LoginStates, BodyStates
<1>7. QED BY <1>4, <1>5, <1>6 DEF AgreeInv

\* The reader's place in the stream
LEMMA Placed ==
  ASSUME NegInv
  PROVE  /\ input \in Seq(Byte) /\ frame \in Seq(Byte) /\ Len(input) \in Nat
         /\ Len(frame) \in Nat
         /\ pos \in Nat /\ avail \in Nat /\ pos <= avail /\ avail <= Len(input)
         /\ pos <= Len(input)
<1>1. /\ input \in Seq(Byte) /\ avail \in 0..Len(input) /\ pos \in 0..avail
      /\ frame \in Seq(Byte)
  BY DEF NegInv, NegTypes
<1>2. QED BY <1>1

\* read_exact reads on.
LEMMA FieldReadOn ==
  ASSUME NegInv, AgreeInv, Filled, NEW n, n = Need,
         UNCHANGED <<input, greeting, login>>, pos' = pos + n, frame' = frame \o Bytes
  PROVE  /\ SoFar(input', pos', greeting', login', frame')
         /\ pos' \in Nat /\ pos' <= Len(input) /\ n \in Nat
<1>1. NegTypes /\ FrameLayout
  BY DEF NegInv
<1>2. n \in Nat /\ pos + n \in 0..avail
  BY <1>1, FilledBytes
<1>3. pos + n <= Len(input) /\ pos + n \in Nat
  BY <1>2, Placed
<1>4. pc # "failed"
  BY DEF Filled, Reading
<1>5. SoFar(input, pos, greeting, login, frame)
  BY <1>4 DEF AgreeInv, ReadSoFar
<1>6. frame' = frame \o SubSeq(input, pos + 1, pos + n)
  BY DEF Bytes
<1>7. input \in Seq(Byte) /\ pos \in Nat
  BY Placed
<1>8. SoFar(input, pos + n, greeting, login, frame')
  BY <1>2, <1>3, <1>5, <1>6, <1>7, ReadOn
<1>9. QED BY <1>2, <1>3, <1>8

\* The first field of a message
LEMMA FirstField ==
  ASSUME NegInv, frame = << >>, Filled
  PROVE  Bytes = frame \o Bytes /\ Bytes \in Seq(Byte) /\ Len(Bytes) = Need
<1>1. NegTypes /\ FrameLayout
  BY DEF NegInv
<1>2. Bytes \in Seq(Byte) /\ Len(Bytes) = Need
  BY <1>1, FilledBytes
<1> HIDE DEF Bytes
<1>3. << >> \o Bytes = Bytes
  BY <1>2, ConcatEmptySeq
<1>4. QED BY <1>2, <1>3

\* Arriving bytes change no verdict; where there is one for want of bytes, the
\* stream has ended.
LEMMA ClientAgrees ==
  ASSUME NegInv, AgreeInv, Deliver \/ CloseInput
  PROVE  AgreeInv'
<1>1. /\ UNCHANGED <<auth_methods, input, pos, pc, frame, greeting, login, req, err>>
      /\ fin => fin' /\ UNCHANGED avail
  BY DEF Deliver, CloseInput, readVars
<1>2. ReadSoFar' /\ FieldsRead'
  BY <1>1 DEF AgreeInv, ReadSoFar, FieldsRead
<1>3. Ahead'
  BY <1>1 DEF AgreeInv, Ahead, Start
<1>4. QED BY <1>2, <1>3 DEF AgreeInv

\* negotiate: the greeting's header
LEMMA GreetingAgrees ==
  ASSUME NegInv, AgreeInv, ReadGreeting
  PROVE  AgreeInv'
<1>1. pc = "greeting" /\ Filled /\ frame = << >> /\ greeting = << >> /\ login = << >>
  BY DEF ReadGreeting, NegInv, FrameLayout, AgreeInv, FieldsRead, GreetingStates
<1>2. 2 = Need
  BY <1>1 DEF Need
<1>3. /\ UNCHANGED <<auth_methods, input, avail, fin, greeting, login, req>>
      /\ pos' = pos + 2 /\ frame' = Bytes
      /\ \/ pc' \in {"select", "method"} /\ Bytes[1] = SOCKS_VERSION
         \/ pc' = "failed" /\ err' = "Failure" /\ Bytes[1] # SOCKS_VERSION
  BY DEF ReadGreeting, Fail, clientVars
<1>4. Bytes = frame \o Bytes /\ Len(Bytes) = 2
  BY <1>1, <1>2, FirstField
<1>5. /\ SoFar(input', pos', greeting', login', frame')
      /\ pos' \in Nat /\ pos' <= Len(input)
  BY <1>1, <1>2, <1>3, <1>4, FieldReadOn
<1>6. CASE pc' \in {"select", "method"} /\ Bytes[1] = SOCKS_VERSION
  <2>1. FieldsRead'
    BY <1>1, <1>3, <1>6 DEF FieldsRead, GreetingStates, LoginStates, BodyStates
  <2>2. Ahead'
    BY <1>6 DEF Ahead, LoginStates, BodyStates
  <2>3. QED BY <1>5, <2>1, <2>2 DEF AgreeInv, ReadSoFar
<1>7. CASE pc' = "failed" /\ err' = "Failure" /\ Bytes[1] # SOCKS_VERSION
  <2>1. input \in Seq(Byte) /\ SoFar(input, pos', << >>, << >>, frame')
    BY <1>1, <1>3, <1>5, Placed
  <2>2. frame' = SubSeq(input, 1, pos')
    BY <1>5, <2>1, GreetingKept
  <2>3. Len(frame') >= 2 /\ frame'[1] # SOCKS_VERSION
    BY <1>3, <1>4, <1>7
  <2>4. Refused(auth_methods, input, pos', "Failure")
    BY <1>5, <2>1, <2>2, <2>3, AfterBadGreeting
  <2>5. Ahead'
    BY <1>3, <1>7, <2>4 DEF Ahead, LoginStates, BodyStates
  <2>6. FieldsRead' /\ ReadSoFar'
    BY <1>7 DEF FieldsRead, ReadSoFar, GreetingStates, LoginStates, BodyStates
  <2>7. QED BY <2>5, <2>6 DEF AgreeInv
<1>8. QED BY <1>3, <1>6, <1>7

\* get_avalible_methods: one more method
LEMMA MethodAgrees ==
  ASSUME NegInv, AgreeInv, ReadMethod
  PROVE  AgreeInv'
<1>1. /\ pc = "method" /\ Filled /\ greeting = << >> /\ login = << >>
      /\ frame[1] = SOCKS_VERSION /\ Len(frame) >= 2 /\ NegTypes /\ FrameLayout
  BY DEF ReadMethod, NegInv, FrameLayout, AgreeInv, FieldsRead, GreetingStates
<1>2. 1 = Need
  BY <1>1 DEF Need
<1>3. /\ UNCHANGED <<auth_methods, input, greeting, login>>
      /\ pos' = pos + 1 /\ frame' = frame \o Bytes
      /\ pc' \in {"select", "method"}
  BY DEF ReadMethod, clientVars
<1>4. SoFar(input', pos', greeting', login', frame')
  BY <1>1, <1>2, <1>3, FieldReadOn
<1>5. frame'[1] = frame[1]
  <2>1. Len(frame) \in Nat /\ \A i \in 1..Len(frame) : frame'[i] = frame[i]
    BY <1>1, <1>2, <1>3, Appended
  <2>2. 1 \in 1..Len(frame)
    BY <1>1, <2>1
  <2>3. QED BY <2>1, <2>2
<1>6. FieldsRead'
  BY <1>1, <1>3, <1>5 DEF FieldsRead, GreetingStates, LoginStates, BodyStates
<1>7. Ahead'
  BY <1>3 DEF Ahead, LoginStates, BodyStates
<1>8. QED BY <1>4, <1>6, <1>7 DEF AgreeInv, ReadSoFar

\* auth's choice
LEMMA SelectAgrees ==
  ASSUME NegInv, AgreeInv, SelectMethod
  PROVE  AgreeInv'
<1> DEFINE methods == Available(Skip(frame, 2))
<1>1. /\ pc = "select" /\ greeting = << >> /\ login = << >>
      /\ frame[1] = SOCKS_VERSION /\ Len(frame) >= 2 /\ Len(frame) = frame[2] + 2
  BY DEF SelectMethod, NegInv, FrameLayout, AgreeInv, FieldsRead, GreetingStates
<1>2. /\ UNCHANGED <<auth_methods, input, avail, fin, pos, login, req>>
      /\ greeting' = frame /\ frame' = << >>
      /\ \/ UserPass \in methods /\ pc' = "login"
         \/ UserPass \notin methods /\ NoAuth \in methods /\ pc' = "request"
         \/ /\ UserPass \notin methods /\ NoAuth \notin methods
            /\ pc' = "failed" /\ err' = "Failure"
  BY DEF SelectMethod, Fail, clientVars
<1>3. SoFar(input, pos, << >>, << >>, frame)
  BY <1>1 DEF AgreeInv, ReadSoFar
<1>4. input \in Seq(Byte) /\ pos \in Nat /\ pos <= Len(input)
  BY Placed
<1>5. /\ frame = SubSeq(input, 1, pos) /\ Len(frame) = pos
      /\ SoFar(input, pos, frame, << >>, << >>)
  BY <1>3, <1>4, GreetingKept
<1>6. methods = ToSet(Skip(frame, 2)) \cap auth_methods
  BY DEF Available
<1> HIDE DEF methods
<1>7. /\ UserPass \in methods => ToLogin(auth_methods, input, pos)
      /\ UserPass \notin methods /\ NoAuth \in methods
           => ToRequest(auth_methods, input, pos)
      /\ UserPass \notin methods /\ NoAuth \notin methods
           => Refused(auth_methods, input, pos, "Failure")
  BY <1>1, <1>4, <1>5, <1>6, AfterGreeting
<1>8. ReadSoFar'
  BY <1>1, <1>2, <1>5 DEF ReadSoFar
<1>9. FieldsRead'
  BY <1>1, <1>2 DEF FieldsRead, GreetingStates, LoginStates, BodyStates
<1>10. Start' = pos
  <2>1. Len(login) = 0
    BY <1>1
  <2>2. QED BY <1>2, <1>4, <1>5, <2>1 DEF Start
<1>11. Ahead'
  BY <1>2, <1>7, <1>10 DEF Ahead, LoginStates, BodyStates
<1>12. QED BY <1>8, <1>9, <1>11 DEF AgreeInv

\* The verdict on a login
LEMMA VerdictAgrees ==
  ASSUME NegInv, AgreeInv, Verdict
  PROVE  AgreeInv'
<1>1. /\ pc = "verdict" /\ login = << >> /\ LoginLayout(frame)
      /\ ToLogin(auth_methods, input, Start)
  BY DEF Verdict, NegInv, FrameLayout, AgreeInv, FieldsRead, Ahead, LoginStates
<1>2. /\ UNCHANGED <<auth_methods, input, avail, fin, pos, greeting, req>>
      /\ login' = frame /\ frame' = << >>
      /\ \/ LoginAccepted(frame) /\ pc' = "request"
         \/ ~LoginAccepted(frame) /\ pc' = "failed" /\ err' = "Failure"
  BY DEF Verdict, Fail, LoginAccepted, clientVars
<1>3. SoFar(input, pos, greeting, << >>, frame)
  BY <1>1 DEF AgreeInv, ReadSoFar
<1>4. input \in Seq(Byte) /\ pos \in Nat /\ pos <= Len(input)
  BY Placed
<1> DEFINE k == Len(greeting)
<1>5. /\ frame = SubSeq(input, k + 1, pos) /\ k + Len(frame) = pos
      /\ SoFar(input, pos, greeting, frame, << >>)
  BY <1>3, <1>4, LoginKept
<1>6. k \in Nat /\ Len(frame) \in Nat
  <2>1. greeting \in Seq(Byte) /\ frame \in Seq(Byte)
    BY <1>3 DEF SoFar
  <2>2. QED BY <2>1, LenProperties
<1>7. Start = k
  <2>1. Len(login) = 0
    BY <1>1
  <2>2. QED BY <1>6, <2>1 DEF Start
<1>8. Start' = pos
  BY <1>2, <1>5 DEF Start
<1> HIDE DEF k
<1>9. k <= pos
  <2> DEFINE x == Len(frame)
  <2>1. x \in Nat /\ k + x = pos
    BY <1>5, <1>6
  <2> HIDE DEF x
  <2>2. QED BY <1>6, <2>1
<1>10. /\ LoginAccepted(frame) => ToRequest(auth_methods, input, pos)
       /\ ~LoginAccepted(frame) => Refused(auth_methods, input, pos, "Failure")
  BY <1>1, <1>4, <1>5, <1>6, <1>7, <1>9, AfterLogin
<1>11. ReadSoFar'
  BY <1>2, <1>5 DEF ReadSoFar
<1>12. FieldsRead'
  BY <1>2 DEF FieldsRead, GreetingStates, LoginStates, BodyStates
<1>13. Ahead'
  BY <1>2, <1>8, <1>10 DEF Ahead, LoginStates, BodyStates
<1>14. QED BY <1>11, <1>12, <1>13 DEF AgreeInv

\* What has been checked of a request stays so while it is read.
LEMMA HeadKept ==
  ASSUME NEW f, NEW b, Begins(f, b), RequestHead(f)
  PROVE  /\ RequestHead(b) /\ b[4] = f[4]
         /\ HasAddr(f) => HasAddr(b) /\ HeaderEnd(b) = HeaderEnd(f)
<1>1. /\ f \in Seq(Byte) /\ b \in Seq(Byte) /\ Len(f) \in Nat /\ Len(b) \in Nat
      /\ Len(f) <= Len(b) /\ \A i \in 1..Len(f) : b[i] = f[i]
  BY DEF Begins
<1>2. Len(f) >= 4
  BY DEF RequestHead
<1>3. 1 \in 1..Len(f) /\ 2 \in 1..Len(f) /\ 4 \in 1..Len(f) /\ Len(b) >= 4
  BY <1>1, <1>2
<1>4. b[1] = f[1] /\ b[2] = f[2] /\ b[4] = f[4]
  BY <1>1, <1>3
<1>5. RequestHead(b)
  BY <1>1, <1>3, <1>4 DEF RequestHead
<1>6. ASSUME HasAddr(f) PROVE HasAddr(b) /\ HeaderEnd(b) = HeaderEnd(f)
  <2>1. CASE f[4] # Domain
    BY <1>4, <2>1 DEF HasAddr, HeaderEnd
  <2>2. CASE f[4] = Domain
    <3>1. Len(f) >= 5
      BY <1>6, <2>2 DEF HasAddr
    <3>2. 5 \in 1..Len(f) /\ Len(b) >= 5 /\ ~(Len(f) < 5) /\ ~(Len(b) < 5)
      BY <1>1, <3>1
    <3>3. b[5] = f[5]
      BY <1>1, <3>2
    <3>4. QED BY <1>4, <2>2, <3>2, <3>3 DEF HasAddr, HeaderEnd, V4, V6, Domain
  <2>3. QED BY <2>1, <2>2
<1>7. QED BY <1>4, <1>5, <1>6

\* Where a request ends, by its address type
LEMMA EndsAt ==
  ASSUME NEW f
  PROVE  /\ f[4] = V4 => HasAddr(f) /\ HeaderEnd(f) = 10
         /\ f[4] = V6 => HasAddr(f) /\ HeaderEnd(f) = 22
         /\ f[4] = Domain /\ Len(f) >= 5 /\ ~(Len(f) < 5) =>
              HasAddr(f) /\ HeaderEnd(f) = 7 + f[5]
BY DEF HasAddr, HeaderEnd, V4, V6, Domain

\* A field of a login or a request
LEMMA FieldAgrees ==
  ASSUME NegInv, AgreeInv, ReadField
  PROVE  AgreeInv'
<1> DEFINE n == Need
<1>1. /\ NegTypes /\ FrameLayout /\ Filled
      /\ pc \in Reading \ {"greeting", "method", "request"}
  BY DEF NegInv, ReadField
<1>2. /\ UNCHANGED <<auth_methods, input, greeting, login>>
      /\ pos' = pos + n /\ frame' = frame \o Bytes /\ pc' = Following
  BY DEF ReadField, clientVars
<1>3. n = Need
  OBVIOUS
<1> HIDE DEF n
<1>4. SoFar(input', pos', greeting', login', frame') /\ n \in Nat
  BY <1>1, <1>2, <1>3, FieldReadOn
<1>5. /\ frame' \in Seq(Byte) /\ Len(frame') = Len(frame) + n /\ Len(frame) \in Nat
      /\ \A i \in 1..Len(frame) : frame'[i] = frame[i]
  BY <1>1, <1>2, <1>3, Appended
<1>6. Begins(frame, frame')
  <2>1. frame \in Seq(Byte)
    BY Placed
  <2>2. QED BY <1>4, <1>5, <2>1 DEF Begins
<1>7. pc \in LoginStates \/ pc \in BodyStates
  BY <1>1 DEF Reading, LoginStates, BodyStates
<1>8. Start' = Start
  BY <1>2 DEF Start
<1>9. CASE pc \in LoginStates
  <2>1. pc' \in LoginStates
    BY <1>1, <1>2, <1>9 DEF Following, LoginStates, Reading
  <2>2. login = << >> /\ ToLogin(auth_methods, input, Start)
    BY <1>9 DEF AgreeInv, FieldsRead, Ahead
  <2>3. FieldsRead'
    BY <1>2, <2>1, <2>2 DEF FieldsRead, GreetingStates, LoginStates, BodyStates
  <2>4. Ahead'
    BY <1>2, <1>8, <2>1, <2>2 DEF Ahead, LoginStates, BodyStates
  <2>5. QED BY <1>4, <2>3, <2>4 DEF AgreeInv, ReadSoFar
<1>10. CASE pc \in BodyStates
  <2>1. RequestHead(frame) /\ ToRequest(auth_methods, input, Start)
    BY <1>10 DEF AgreeInv, FieldsRead, Ahead
  <2>2. /\ RequestHead(frame') /\ frame'[4] = frame[4]
        /\ HasAddr(frame) => HasAddr(frame') /\ HeaderEnd(frame') = HeaderEnd(frame)
    BY <1>6, <2>1, HeadKept
  <2>3. FieldsRead' /\ pc' \in BodyStates
    <3>1. CASE pc = "addr4"
      <4>1. n = 4 /\ pc' = "port" /\ frame[4] = V4 /\ Len(frame) = 4
        BY <1>2, <1>3, <3>1 DEF Need, Following, AgreeInv, FieldsRead
      <4>2. HasAddr(frame') /\ HeaderEnd(frame') = 10 /\ Len(frame') = 8
        BY <1>5, <2>2, <4>1, EndsAt
      <4>3. HeaderEnd(frame') = Len(frame') + 2
        BY <4>2
      <4>4. QED BY <2>2, <4>1, <4>2, <4>3
                DEF FieldsRead, GreetingStates, LoginStates, BodyStates
    <3>2. CASE pc = "addr16"
      <4>1. n = 16 /\ pc' = "port" /\ frame[4] = V6 /\ Len(frame) = 4
        BY <1>2, <1>3, <3>2 DEF Need, Following, AgreeInv, FieldsRead
      <4>2. HasAddr(frame') /\ HeaderEnd(frame') = 22 /\ Len(frame') = 20
        BY <1>5, <2>2, <4>1, EndsAt
      <4>3. HeaderEnd(frame') = Len(frame') + 2
        BY <4>2
      <4>4. QED BY <2>2, <4>1, <4>2, <4>3
                DEF FieldsRead, GreetingStates, LoginStates, BodyStates
    <3>3. CASE pc = "dlen"
      <4>1. n = 1 /\ pc' = "domain" /\ frame[4] = Domain /\ Len(frame) = 4
        BY <1>2, <1>3, <3>3 DEF Need, Following, AgreeInv, FieldsRead
      <4>2. Len(frame') = 5 /\ frame'[4] = Domain
        BY <1>5, <2>2, <4>1
      <4>3. QED BY <2>2, <4>1, <4>2 DEF FieldsRead, GreetingStates, LoginStates, BodyStates
    <3>4. CASE pc = "domain"
      <4>1. n = Last(frame) /\ pc' = "port" /\ frame[4] = Domain /\ Len(frame) = 5
        BY <1>2, <1>3, <3>4 DEF Need, Following, AgreeInv, FieldsRead
      <4>2. n = frame[5] /\ 5 \in 1..Len(frame)
        BY <4>1 DEF Last
      <4>3. frame'[5] = n
        BY <1>5, <4>2
      <4>4. Len(frame') = 5 + n /\ Len(frame') >= 5 /\ ~(Len(frame') < 5)
        BY <1>4, <1>5, <4>1
      <4>5. HasAddr(frame') /\ HeaderEnd(frame') = 7 + n
        BY <2>2, <4>1, <4>3, <4>4, EndsAt
      <4>6. HeaderEnd(frame') = Len(frame') + 2
        BY <1>4, <4>4, <4>5
      <4>7. QED BY <2>2, <4>1, <4>5, <4>6
                DEF FieldsRead, GreetingStates, LoginStates, BodyStates
    <3>5. CASE pc = "port"
      <4>1. n = 2 /\ pc' = "parse" /\ HasAddr(frame) /\ HeaderEnd(frame) = Len(frame) + 2
        BY <1>2, <1>3, <3>5 DEF Need, Following, AgreeInv, FieldsRead
      <4>2. HasAddr(frame') /\ HeaderEnd(frame') = Len(frame')
        BY <1>5, <2>2, <4>1
      <4>3. QED BY <2>2, <4>1, <4>2 DEF FieldsRead, GreetingStates, LoginStates, BodyStates
    <3>6. pc # "parse"
      BY <1>1 DEF Reading
    <3>7. QED BY <1>10, <3>1, <3>2, <3>3, <3>4, <3>5, <3>6 DEF BodyStates
  <2>4. Ahead'
    BY <1>2, <1>8, <2>1, <2>3 DEF Ahead, LoginStates, BodyStates
  <2>5. QED BY <1>4, <2>3, <2>4 DEF AgreeInv, ReadSoFar
<1>11. QED BY <1>7, <1>9, <1>10

\* Where the message being read begins, and that it is read from there.
LEMMA FromStart ==
  ASSUME NegInv, AgreeInv, pc # "failed"
  PROVE  Start \in Nat /\ Start <= pos /\ frame = SubSeq(input, Start + 1, pos)
<1>1. SoFar(input, pos, greeting, login, frame)
  BY DEF AgreeInv, ReadSoFar
<1>2. Parts(input, pos, greeting, login, frame, Start)
  BY <1>1, SoFarParts DEF Start
<1>3. QED BY <1>2, Zenon DEF Parts

\* from_stream: the fixed header of the request
LEMMA RequestAgrees ==
  ASSUME NegInv, AgreeInv, ReadRequest
  PROVE  AgreeInv'
<1>1. /\ pc = "request" /\ Filled /\ frame = << >>
      /\ ToRequest(auth_methods, input, Start)
  BY DEF ReadRequest, NegInv, FrameLayout, AgreeInv, Ahead
<1>2. 4 = Need
  BY <1>1 DEF Need
<1>3. /\ UNCHANGED <<auth_methods, input, avail, fin, greeting, login, req>>
      /\ pos' = pos + 4 /\ frame' = Bytes
  BY DEF ReadRequest, clientVars
<1>4. Bytes = frame \o Bytes /\ Bytes \in Seq(Byte) /\ Len(Bytes) = 4
  BY <1>1, <1>2, FirstField
<1>5. /\ SoFar(input', pos', greeting', login', frame')
      /\ pos' \in Nat /\ pos' <= Len(input)
  BY <1>1, <1>2, <1>3, <1>4, FieldReadOn
<1>6. Start' = Start /\ Len(frame') = 4 /\ Len(frame') >= 4 /\ frame' \in Seq(Byte)
  BY <1>3, <1>4 DEF Start
<1>7. Start \in Nat /\ Start <= pos' /\ frame' = SubSeq(input, Start + 1, pos')
  <2>1. SoFar(input, pos', greeting, login, frame')
    BY <1>3, <1>5
  <2>2. Parts(input, pos', greeting, login, frame', Start)
    BY <2>1, SoFarParts DEF Start
  <2>3. QED BY <2>2, Zenon DEF Parts
<1>8. /\ Bytes[1] # SOCKS_VERSION => Refused(auth_methods, input, pos', "Failure")
      /\ Bytes[1] = SOCKS_VERSION /\ Bytes[2] \notin SockCommands
           => Refused(auth_methods, input, pos', "CommandNotSupported")
      /\ Bytes[1] = SOCKS_VERSION /\ Bytes[2] \in SockCommands /\ Bytes[4] \notin AddrTypes
           => Refused(auth_methods, input, pos', "AddrTypeNotSupported")
  <2>1. input \in Seq(Byte)
    BY Placed
  <2> HIDE DEF Bytes
  <2>2. QED BY <1>1, <1>3, <1>5, <1>6, <1>7, <2>1, AfterBadRequest
<1>9. CASE Bytes[1] = SOCKS_VERSION /\ Bytes[2] \in SockCommands /\ Bytes[4] \in AddrTypes
  <2>1. \/ pc' = "addr4" /\ Bytes[4] = V4
        \/ pc' = "addr16" /\ Bytes[4] = V6
        \/ pc' = "dlen" /\ Bytes[4] = Domain
    BY <1>9 DEF ReadRequest, AddrTypes, V4, V6, Domain
  <2>2. RequestHead(frame')
    BY <1>3, <1>6, <1>9 DEF RequestHead
  <2>3. FieldsRead'
    BY <1>3, <1>6, <2>1, <2>2 DEF FieldsRead, GreetingStates, LoginStates, BodyStates
  <2>4. Ahead'
    BY <1>1, <1>3, <1>6, <2>1 DEF Ahead, LoginStates, BodyStates
  <2>5. QED BY <1>5, <2>3, <2>4 DEF AgreeInv, ReadSoFar
<1>10. CASE ~(Bytes[1] = SOCKS_VERSION /\ Bytes[2] \in SockCommands
              /\ Bytes[4] \in AddrTypes)
  <2>1. /\ pc' = "failed" /\ err' # "UnexpectedEof"
        /\ Refused(auth_methods, input, pos', err')
    BY <1>8, <1>10 DEF ReadRequest, Fail
  <2>2. Ahead'
    BY <1>3, <2>1 DEF Ahead, LoginStates, BodyStates
  <2>3. FieldsRead' /\ ReadSoFar'
    BY <2>1 DEF FieldsRead, ReadSoFar, GreetingStates, LoginStates, BodyStates
  <2>4. QED BY <2>2, <2>3 DEF AgreeInv
<1>11. QED BY <1>9, <1>10

\* from_stream: the request as a whole.  The parser, which reads it again, finds
\* it complete.
LEMMA ParseAgrees ==
  ASSUME NegInv, AgreeInv, ParseRequest
  PROVE  AgreeInv'
<1> DEFINE r == parse_request(frame)
<1>1. /\ pc = "parse" /\ RequestHead(frame) /\ HasAddr(frame)
      /\ Len(frame) = HeaderEnd(frame)
      /\ ToRequest(auth_methods, input, Start)
      /\ SoFar(input, pos, greeting, login, frame)
  BY DEF ParseRequest, AgreeInv, FieldsRead, Ahead, ReadSoFar, BodyStates
<1>2. input \in Seq(Byte) /\ pos \in Nat /\ pos <= Len(input)
  BY Placed
<1>3. Start \in Nat /\ Start <= pos /\ frame = SubSeq(input, Start + 1, pos)
  BY <1>1, FromStart
<1>4. /\ r.ok /\ frame = RequestFrame(r.val, frame[3])
      /\ Settled(auth_methods, input, pos, r.val)
  BY <1>1, <1>2, <1>3, AfterRequest
<1>5. /\ UNCHANGED <<auth_methods, input, pos, frame, greeting, login>>
      /\ pc' = "ready" /\ req' = r.val
  BY <1>4 DEF ParseRequest, clientVars
<1> HIDE DEF r
<1>6. Ahead'
  BY <1>4, <1>5 DEF Ahead, LoginStates, BodyStates
<1>7. FieldsRead'
  BY <1>5 DEF FieldsRead, GreetingStates, LoginStates, BodyStates
<1>8. ReadSoFar'
  BY <1>1, <1>5 DEF ReadSoFar
<1>9. QED BY <1>6, <1>7, <1>8 DEF AgreeInv

\* Where the reader runs out of bytes, so do the parsers.
LEMMA EofAgrees ==
  ASSUME NegInv, AgreeInv, ReadEof
  PROVE  AgreeInv'
<1> DEFINE f == frame
           k == Start
           b == SubSeq(input, k + 1, avail)
           n == Need
           m == Len(b)
           x == Len(f)
<1>1. /\ UNCHANGED <<auth_methods, input, avail, fin>> /\ pc' = "failed"
      /\ err' = "UnexpectedEof" /\ fin /\ pc \in Reading /\ avail - pos < n
  BY DEF ReadEof, Fail, clientVars
<1>2. SUFFICES Cut(auth_methods, input, avail)
  <2>1. Ahead'
    BY <1>1, <1>2 DEF Ahead, LoginStates, BodyStates
  <2>2. FieldsRead' /\ ReadSoFar'
    BY <1>1 DEF FieldsRead, ReadSoFar, GreetingStates, LoginStates, BodyStates
  <2>3. QED BY <2>1, <2>2 DEF AgreeInv
<1>3. NegTypes /\ FrameLayout /\ n \in Nat
  BY <1>1, NeedIsNumber DEF NegInv
<1>4. /\ input \in Seq(Byte) /\ pos \in Nat /\ avail \in Nat /\ Len(input) \in Nat
      /\ pos <= avail /\ avail <= Len(input)
  BY Placed
<1>5. k \in Nat /\ k <= pos /\ f = SubSeq(input, k + 1, pos)
  BY <1>1, FromStart DEF Reading
<1> HIDE DEF f, k, n
<1>6. Begins(f, b) /\ x = pos - k /\ m = avail - k
  BY <1>4, <1>5, PieceBegins
<1>7. avail \in k..Len(input)
  BY <1>4, <1>5
<1>8. /\ f \in Seq(Byte) /\ b \in Seq(Byte) /\ x \in Nat /\ m \in Nat /\ x <= m
      /\ \A i \in 1..x : b[i] = f[i]
  BY <1>6 DEF Begins
<1> HIDE DEF b, m, x
<1>9. m < x + n
  BY <1>1, <1>3, <1>4, <1>5, <1>6, <1>8
<1>10. x = Len(frame) /\ x = Len(f) /\ m = Len(b) /\ f = frame /\ k = Start /\ n = Need
  BY DEF x, m, f, k, n
<1>11. CASE pc \in GreetingStates
  <2>1. k = 0 /\ b = SubSeq(input, 1, avail)
    <3>1. greeting = << >> /\ login = << >>
      BY <1>11 DEF AgreeInv, FieldsRead
    <3>2. Len(greeting) = 0 /\ Len(login) = 0
      BY <3>1
    <3>3. k = 0
      BY <3>2 DEF k, Start
    <3>4. QED BY <3>3 DEF b
  <2>2. \/ m < 2
        \/ m >= 2 /\ b[1] = SOCKS_VERSION /\ m < 2 + b[2]
    <3>1. CASE pc = "greeting"
      <4>1. n = 2 /\ frame = << >>
        BY <1>3, <1>10, <3>1 DEF Need, FrameLayout
      <4>2. x = 0
        BY <1>10, <4>1
      <4>3. QED BY <1>8, <1>9, <4>1, <4>2
    <3>2. CASE pc = "method"
      <4>1. n = 1 /\ x >= 2 /\ x < f[2] + 2 /\ f[1] = SOCKS_VERSION
        BY <1>3, <1>10, <3>2 DEF Need, FrameLayout, AgreeInv, FieldsRead
      <4>2. 1 \in 1..x /\ 2 \in 1..x
        BY <1>8, <4>1
      <4>3. b[1] = f[1] /\ b[2] = f[2] /\ f[2] \in Nat
        BY <1>8, <1>10, <4>2, ByteOf
      <4>4. m >= 2 /\ m < 2 + b[2]
        BY <1>8, <1>9, <4>1, <4>3
      <4>5. QED BY <4>1, <4>3, <4>4
    <3>3. QED BY <1>1, <1>11, <3>1, <3>2 DEF GreetingStates, Reading
  <2>3. QED BY <1>8, <1>10, <2>1, <2>2, GreetingCut DEF Cut
<1>12. CASE pc \in LoginStates
  <2>1. StreamIn(auth_methods, SubSeq(input, 1, avail)) = LoginIn(b)
    BY <1>7, <1>10, <1>12 DEF AgreeInv, Ahead, ToLogin, b
  <2>2. LoginShort(b)
    <3>1. CASE pc = "login"
      <4>1. n = 2 /\ frame = << >>
        BY <1>3, <1>10, <3>1 DEF Need, FrameLayout
      <4>2. x = 0
        BY <1>10, <4>1
      <4>3. m < 2
        BY <1>8, <1>9, <4>1, <4>2
      <4>4. QED BY <1>10, <4>3 DEF LoginShort
    <3>2. CASE pc \in {"username", "plen", "password"}
      <4>1. x >= 2
        BY <1>3, <1>8, <1>10, <3>2 DEF FrameLayout
      <4>2. 2 \in 1..x
        BY <1>8, <4>1
      <4>3. b[2] = f[2] /\ f[2] \in Nat
        BY <1>8, <1>10, <4>2, ByteOf
      <4>4. CASE pc = "username"
        <5>1. n = f[2] /\ x = 2
          BY <1>3, <1>10, <4>4 DEF Need, FrameLayout
        <5>2. m >= 2 /\ m < 3 + b[2]
          BY <1>8, <1>9, <4>3, <5>1
        <5>3. QED BY <1>10, <5>2 DEF LoginShort
      <4>5. CASE pc = "plen"
        <5>1. n = 1 /\ x = 2 + f[2]
          BY <1>3, <1>10, <4>5 DEF Need, FrameLayout
        <5>2. m >= 2 /\ m < 3 + b[2]
          BY <1>8, <1>9, <4>3, <5>1
        <5>3. QED BY <1>10, <5>2 DEF LoginShort
      <4>6. CASE pc = "password"
        <5>1. n = Last(f) /\ x = 3 + f[2]
          BY <1>3, <1>10, <4>6 DEF Need, FrameLayout
        <5>2. n = f[3 + f[2]] /\ 3 + f[2] \in 1..x
          BY <1>8, <1>10, <4>3, <5>1 DEF Last
        <5>3. b[3 + b[2]] = n
          BY <1>8, <4>3, <5>2
        <5>4. m >= 2 /\ m >= 3 + b[2] /\ m < 3 + b[2] + b[3 + b[2]]
          BY <1>3, <1>8, <1>9, <4>1, <4>3, <5>1, <5>3
        <5>5. QED BY <1>10, <5>4 DEF LoginShort
      <4>7. QED BY <3>2, <4>4, <4>5, <4>6
    <3>3. QED BY <1>1, <1>12, <3>1, <3>2 DEF LoginStates, Reading
  <2>3. QED BY <1>8, <2>1, <2>2, LoginCut DEF Cut
<1>13. CASE pc \in BodyStates \cup {"request"}
  <2>1. StreamIn(auth_methods, SubSeq(input, 1, avail)) = RequestIn(b)
    BY <1>7, <1>10, <1>13 DEF AgreeInv, Ahead, ToRequest, b
  <2>2. CASE pc = "request"
    <3>1. n = 4 /\ frame = << >>
      BY <1>3, <1>10, <2>2 DEF Need, FrameLayout
    <3>2. x = 0
      BY <1>10, <3>1
    <3>3. m < 4 /\ ~(m >= 4)
      BY <1>8, <1>9, <3>1, <3>2
    <3>4. RequestIn(b) = truncated
      BY <1>10, <3>3 DEF RequestIn, parse_request
    <3>5. QED BY <2>1, <3>4 DEF Cut
  <2>3. CASE pc \in BodyStates
    <3>1. RequestHead(f)
      BY <1>10, <2>3 DEF AgreeInv, FieldsRead
    <3>2. \/ f[4] = Domain /\ m < 5
          \/ HasAddr(f) /\ m < HeaderEnd(f)
      <4>1. CASE pc = "addr4"
        <5>1. n = 4 /\ f[4] = V4 /\ x = 4
          BY <1>10, <4>1 DEF Need, AgreeInv, FieldsRead
        <5>2. HasAddr(f) /\ HeaderEnd(f) = 10
          BY <5>1, EndsAt
        <5>3. QED BY <1>8, <1>9, <5>1, <5>2
      <4>2. CASE pc = "addr16"
        <5>1. n = 16 /\ f[4] = V6 /\ x = 4
          BY <1>10, <4>2 DEF Need, AgreeInv, FieldsRead
        <5>2. HasAddr(f) /\ HeaderEnd(f) = 22
          BY <5>1, EndsAt
        <5>3. QED BY <1>8, <1>9, <5>1, <5>2
      <4>3. CASE pc = "dlen"
        <5>1. n = 1 /\ f[4] = Domain /\ x = 4
          BY <1>10, <4>3 DEF Need, AgreeInv, FieldsRead
        <5>2. QED BY <1>8, <1>9, <5>1
      <4>4. CASE pc = "domain"
        <5>1. n = Last(f) /\ f[4] = Domain /\ x = 5
          BY <1>10, <4>4 DEF Need, AgreeInv, FieldsRead
        <5>2. n = f[5] /\ Len(f) >= 5 /\ ~(Len(f) < 5)
          <6>1. Len(f) = 5 /\ n = f[Len(f)]
            BY <1>10, <5>1 DEF Last
          <6>2. QED BY <6>1
        <5>3. HasAddr(f) /\ HeaderEnd(f) = 7 + n
          BY <5>1, <5>2, EndsAt
        <5>4. QED BY <1>3, <1>8, <1>9, <5>1, <5>3
      <4>5. CASE pc = "port"
        <5>1. n = 2 /\ HasAddr(f) /\ HeaderEnd(f) = x + 2
          BY <1>10, <4>5 DEF Need, AgreeInv, FieldsRead
        <5>2. QED BY <1>9, <5>1
      <4>6. QED BY <1>1, <2>3, <4>1, <4>2, <4>3, <4>4, <4>5 DEF BodyStates, Reading
    <3>3. RequestIn(b) = truncated
      BY <1>6, <1>10, <3>1, <3>2, RequestCut
    <3>4. QED BY <2>1, <3>3 DEF Cut
  <2>4. QED BY <1>13, <2>2, <2>3
<1>14. QED BY <1>1, <1>11, <1>12, <1>13
           DEF Reading, GreetingStates, LoginStates, BodyStates

\* Every step keeps the invariant.
LEMMA AgreeInvHolds == Spec => []AgreeInv
<1>1. ASSUME NegInv, AgreeInv, [Next]_vars
      PROVE  AgreeInv'
  <2>1. CASE Deliver \/ CloseInput
    BY <1>1, <2>1, ClientAgrees
  <2>2. CASE ReaderStep
    BY <1>1, <2>2, EofAgrees, GreetingAgrees, MethodAgrees, SelectAgrees, FieldAgrees,
       VerdictAgrees, RequestAgrees, ParseAgrees DEF ReaderStep
  <2>3. CASE UNCHANGED <<clientVars, readVars>>
    BY <1>1, <2>3 DEF AgreeInv, ReadSoFar, FieldsRead, Ahead, Start, clientVars, readVars
  <2>4. QED BY <1>1, <2>1, <2>2, <2>3
            DEF Next, AnswerRequest, ForwardDatagram, ReturnDatagram, vars
<1>2. QED BY <1>1, InitAgreeInv, NegInvHolds, PTL DEF Spec

\* However the bytes of a client arrive and wherever they end, the stream
\* readers (negotiate, auth and from_stream) reach the verdict the slice parsers
\* reach on the bytes that have arrived and, unless it is that bytes are missing,
\* on all the client will send; what follows the request is left to the byte.
THEOREM ReadersAndParsersAgree == Spec => []ReadersAgree
<1>1. ASSUME NegInv, AgreeInv PROVE ReadersAgree
  <2> DEFINE arrived == SubSeq(input, 1, avail)
             end == Len(input)
  <2>1. /\ input \in Seq(Byte) /\ pos \in Nat /\ avail \in Nat /\ end \in Nat
        /\ pos <= avail /\ avail <= end /\ pos <= end
    BY <1>1, Placed
  <2>2. avail \in pos..end /\ end \in pos..end
    BY <2>1
  <2>3. SubSeq(input, 1, end) = input /\ Skip(input, pos) = SubSeq(input, pos + 1, end)
    BY <2>1 DEF Skip
  <2>4. /\ Parsed(arrived) = StreamIn(auth_methods, SubSeq(input, 1, avail))
        /\ Parsed(input) = StreamIn(auth_methods, SubSeq(input, 1, end))
    <3>1. /\ Parsed(arrived) = StreamIn(auth_methods, arrived)
          /\ Parsed(input) = StreamIn(auth_methods, input)
      BY ParsedInStages
    <3>2. QED BY <2>3, <3>1
  <2>5. ASSUME pc = "ready"
        PROVE  /\ Parsed(arrived) = Ok(req, SubSeq(input, pos + 1, avail))
               /\ Parsed(input) = Ok(req, Skip(input, pos))
               /\ SubSeq(input, 1, pos) = greeting \o login \o RequestFrame(req, frame[3])
    <3>1. /\ Settled(auth_methods, input, pos, req) /\ frame = RequestFrame(req, frame[3])
          /\ SoFar(input, pos, greeting, login, frame)
      BY <1>1, <2>5 DEF AgreeInv, Ahead, ReadSoFar
    <3>2. SubSeq(input, 1, pos) = (greeting \o login) \o frame
      BY <2>1, <3>1, AllRead
    <3>3. /\ StreamIn(auth_methods, SubSeq(input, 1, avail))
               = Ok(req, SubSeq(input, pos + 1, avail))
          /\ StreamIn(auth_methods, SubSeq(input, 1, end))
               = Ok(req, SubSeq(input, pos + 1, end))
      BY <2>2, <3>1 DEF Settled
    <3>4. QED BY <2>3, <2>4, <3>1, <3>2, <3>3
  <2>6. ASSUME pc = "failed"
        PROVE  /\ Parsed(arrived) = Err(err)
               /\ err # "UnexpectedEof" => Parsed(input) = Err(err)
    <3>1. IF err = "UnexpectedEof" THEN Cut(auth_methods, input, avail)
          ELSE Refused(auth_methods, input, pos, err)
      BY <1>1, <2>6 DEF AgreeInv, Ahead
    <3>2. CASE err = "UnexpectedEof"
      BY <2>4, <3>1, <3>2 DEF Cut, truncated
    <3>3. CASE err # "UnexpectedEof"
      BY <2>2, <2>4, <3>1, <3>3 DEF Refused
    <3>4. QED BY <3>2, <3>3
  <2>7. QED BY <2>5, <2>6 DEF ReadersAgree
<1>2. QED BY <1>1, NegInvHolds, AgreeInvHolds, PTL
=============================================================================
