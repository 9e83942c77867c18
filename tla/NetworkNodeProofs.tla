------------------------- MODULE NetworkNodeProofs -------------------------
(***************************************************************************)
(* The order on nodes is total and a table keyed by nodes is exact, for    *)
(* every set of inputs, width of size_t and size of the table.             *)
(*                                                                         *)
(* Every node, wherever it came from, is the node that rehash() makes of   *)
(* its protocol and its address: the hash says nothing that they do not.   *)
(***************************************************************************)
EXTENDS NetworkNode, SequenceLemmas, FiniteSetTheorems, TLAPS

Words(n) == {s \in Seq(Nat) : Len(s) = n}
Addresses ==
    {NoAddress} \cup {Address4(port, words) : port \in Nat, words \in Words(1)}
      \cup {Address6(port, words, flow, scope) :
               port \in Nat, words \in Words(4), flow \in Nat, scope \in Nat}
Nodes == {NewNode(protocol, address) : protocol \in Protocol, address \in Addresses}

-----------------------------------------------------------------------------
(* The order of sequences by the first element that differs.                *)

\* Of two sequences of one length that differ, one precedes the other.
LEMMA PrecedesTotal ==
    ASSUME NEW s \in Seq(Nat), NEW t \in Seq(Nat), Len(s) = Len(t)
    PROVE  Precedes(s, t) \/ Precedes(t, s) \/ s = t
<1> DEFINE D == {i \in 1..Len(s) : s[i] # t[i]}
<1>1. CASE D = {}
  <2>1. \A i \in 1..Len(s) : s[i] = t[i]
    BY <1>1
  <2>2. QED
    BY <2>1
<1>2. CASE D # {}
  <2>1. D \in SUBSET Nat
    OBVIOUS
  <2>2. PICK i \in D : \A j \in D : i <= j
    BY <1>2, <2>1, LeastNat
  <2>3. /\ i \in 1..Len(s) /\ i \in 1..Len(t) /\ i \in Nat
        /\ s[i] \in Nat /\ t[i] \in Nat /\ s[i] # t[i]
    BY <2>2
  <2>4. \A j \in 1..(i - 1) : s[j] = t[j]
    BY <2>2, <2>3
  <2>5. s[i] < t[i] \/ t[i] < s[i]
    BY <2>3
  <2>6. QED
    BY <2>3, <2>4, <2>5 DEF Precedes
<1>3. QED
  BY <1>1, <1>2

\* No sequence precedes itself, nor one that precedes it.
LEMMA PrecedesStrict ==
    ASSUME NEW s \in Seq(Nat), NEW t \in Seq(Nat), Len(s) = Len(t), Precedes(s, t)
    PROVE  ~Precedes(t, s) /\ s # t
<1>1. PICK i \in 1..Len(s) : s[i] < t[i] /\ \A j \in 1..(i - 1) : s[j] = t[j]
  BY DEF Precedes
<1>2. s[i] \in Nat /\ t[i] \in Nat /\ s # t
  BY <1>1
<1>3. ASSUME NEW k \in 1..Len(t), t[k] < s[k], \A j \in 1..(k - 1) : t[j] = s[j]
      PROVE  FALSE
  <2>1. s[k] \in Nat /\ t[k] \in Nat /\ k \in Nat /\ i \in Nat
    BY <1>3
  <2>2. k = i \/ k \in 1..(i - 1) \/ i \in 1..(k - 1)
    BY <2>1
  <2>3. QED
    BY <1>1, <1>2, <1>3, <2>1, <2>2, SMTT(30)
<1>4. QED
  BY <1>2, <1>3 DEF Precedes

\* What precedes is preceded by what precedes it.
LEMMA PrecedesTransitive ==
    ASSUME NEW s \in Seq(Nat), NEW t \in Seq(Nat), NEW u \in Seq(Nat),
           Len(s) = Len(t), Len(t) = Len(u), Precedes(s, t), Precedes(t, u)
    PROVE  Precedes(s, u)
<1>1. PICK i \in 1..Len(s) : s[i] < t[i] /\ \A j \in 1..(i - 1) : s[j] = t[j]
  BY DEF Precedes
<1>2. PICK k \in 1..Len(t) : t[k] < u[k] /\ \A j \in 1..(k - 1) : t[j] = u[j]
  BY DEF Precedes
<1>3. /\ i \in Nat /\ k \in Nat /\ i \in 1..Len(t) /\ k \in 1..Len(s)
      /\ i \in 1..Len(u) /\ k \in 1..Len(u)
      /\ s[i] \in Nat /\ t[i] \in Nat /\ u[i] \in Nat
      /\ s[k] \in Nat /\ t[k] \in Nat /\ u[k] \in Nat
  <2>1. /\ i \in Nat /\ k \in Nat /\ i \in 1..Len(t) /\ k \in 1..Len(s)
        /\ i \in 1..Len(u) /\ k \in 1..Len(u)
    OBVIOUS
  <2>2. s[i] \in Nat /\ t[i] \in Nat /\ u[i] \in Nat
    BY <2>1, SMTT(30)
  <2>3. s[k] \in Nat /\ t[k] \in Nat /\ u[k] \in Nat
    BY <2>1, SMTT(30)
  <2>4. QED
    BY <2>1, <2>2, <2>3
<1>4. CASE i < k
  <2>1. i \in 1..(k - 1) /\ \A j \in 1..(i - 1) : j \in 1..(k - 1)
    BY <1>3, <1>4
  <2>2. s[i] < u[i] /\ \A j \in 1..(i - 1) : s[j] = u[j]
    BY <1>1, <1>2, <1>3, <2>1
  <2>3. QED
    BY <1>3, <2>2 DEF Precedes
<1>5. CASE i = k
  <2>1. s[i] < u[i] /\ \A j \in 1..(i - 1) : s[j] = u[j]
    BY <1>1, <1>2, <1>3, <1>5
  <2>2. QED
    BY <1>3, <2>1 DEF Precedes
<1>6. CASE k < i
  <2>1. k \in 1..(i - 1) /\ \A j \in 1..(k - 1) : j \in 1..(i - 1)
    BY <1>3, <1>6
  <2>2. s[k] < u[k] /\ \A j \in 1..(k - 1) : s[j] = u[j]
    BY <1>1, <1>2, <1>3, <2>1
  <2>3. QED
    BY <1>3, <2>2 DEF Precedes
<1>7. QED
  BY <1>3, <1>4, <1>5, <1>6

-----------------------------------------------------------------------------
(* Addresses.                                                               *)

\* The inputs are made into addresses with the fields of their family.
LEMMA AddressType == Address \subseteq Addresses
<1>1. ASSUME NEW raw \in Raw PROVE FromRaw(raw) \in Addresses
  <2>1. CASE raw.family = INET /\ raw.size \in {"in", "in6"}
    <3>1. raw.port \in Nat /\ raw.words \in Words(1)
      BY <2>1, InputAssumption DEF Inet, Words
    <3>2. FromRaw(raw) = Address4(raw.port, raw.words)
      BY <2>1 DEF FromRaw, INET, INET6
    <3>3. QED
      BY <3>1, <3>2 DEF Addresses
  <2>2. CASE raw.family = INET6 /\ raw.size = "in6"
    <3>1. raw.port \in Nat /\ raw.words \in Words(4) /\ raw.flow \in Nat /\ raw.scope \in Nat
      BY <2>2, InputAssumption DEF Inet6, Words
    <3>2. FromRaw(raw) = Address6(raw.port, raw.words, raw.flow, raw.scope)
      BY <2>2 DEF FromRaw, INET, INET6
    <3>3. QED
      BY <3>1, <3>2 DEF Addresses
  <2>3. CASE /\ ~(raw.family = INET /\ raw.size \in {"in", "in6"})
             /\ ~(raw.family = INET6 /\ raw.size = "in6")
    BY <2>3 DEF FromRaw, Addresses
  <2>4. QED
    BY <2>1, <2>2, <2>3
<1>2. ASSUME NEW name \in Name PROVE FromName(name) \in Addresses
  <2>1. CASE ~name.valid
    BY <2>1 DEF FromName, Addresses
  <2>2. CASE name.valid /\ ~name.colon
    <3>1. name.port \in Nat /\ name.words \in Words(1)
      BY <2>2, InputAssumption DEF Inet, Words
    <3>2. FromName(name) = Address4(name.port, name.words)
      BY <2>2 DEF FromName
    <3>3. QED
      BY <3>1, <3>2 DEF Addresses
  <2>3. CASE name.valid /\ name.colon
    <3>1. name.port \in Nat /\ name.words \in Words(4) /\ name.scope \in Nat
      BY <2>3, InputAssumption DEF Inet6, Words
    <3>2. FromName(name) = Address6(name.port, name.words, 0, name.scope)
      BY <2>3 DEF FromName
    <3>3. \A flow \in Nat : Address6(name.port, name.words, flow, name.scope) \in Addresses
      BY <3>1 DEF Addresses
    <3>4. QED
      BY <3>2, <3>3
  <2>4. QED
    BY <2>1, <2>2, <2>3
<1>3. QED
  BY <1>1, <1>2 DEF Address

\* Sequences with the same elements are the same.
LEMMA SameSequence ==
    ASSUME NEW S, NEW s \in Seq(S), NEW t \in Seq(S), Len(s) = Len(t),
           \A i \in 1..Len(s) : s[i] = t[i]
    PROVE  s = t
OBVIOUS

\* What a concatenation has where.
LEMMA Joined ==
    ASSUME NEW s \in Seq(Nat), NEW t \in Seq(Nat)
    PROVE  /\ s \o t \in Seq(Nat) /\ Len(s \o t) = Len(s) + Len(t)
           /\ \A i \in 1..Len(s) : (s \o t)[i] = s[i]
           /\ \A i \in 1..Len(t) : (s \o t)[Len(s) + i] = t[i]
OBVIOUS

\* The fields of sockaddr_in.
LEMMA FieldsInet ==
    ASSUME NEW port \in Nat, NEW words \in Words(1)
    PROVE  LET f == Fields(Address4(port, words)) IN
           f \in Seq(Nat) /\ Len(f) = 2 /\ f[1] = port /\ f[2] = words[1]
<1> DEFINE first == <<port>>
<1>1. Fields(Address4(port, words)) = first \o words
  BY DEF Fields, Address4, INET, INET6
<1>2. first \in Seq(Nat) /\ Len(first) = 1 /\ first[1] = port
  OBVIOUS
<1>3. words \in Seq(Nat) /\ Len(words) = 1
  BY DEF Words
<1> HIDE DEF first
<1>4. /\ first \o words \in Seq(Nat) /\ Len(first \o words) = 2
      /\ \A i \in 1..1 : (first \o words)[i] = first[i]
      /\ \A i \in 1..1 : (first \o words)[1 + i] = words[i]
  BY <1>2, <1>3, Joined
<1>5. (first \o words)[1] = first[1] /\ (first \o words)[1 + 1] = words[1]
  BY <1>4
<1>6. QED
  BY <1>1, <1>2, <1>4, <1>5

\* The words of an IPv6 address are numbers.
LEMMA FourWords ==
    ASSUME NEW w \in Words(4)
    PROVE  w[1] \in Nat /\ w[2] \in Nat /\ w[3] \in Nat /\ w[4] \in Nat
<1>1. w \in Seq(Nat) /\ Len(w) = 4
  BY DEF Words
<1>2. \A i \in 1..4 : w[i] \in Nat
  BY <1>1, ElementOfSeq
<1>3. QED
  BY <1>2

\* The fields of sockaddr_in6.
LEMMA FieldsInet6 ==
    ASSUME NEW port \in Nat, NEW words \in Words(4), NEW flow \in Nat, NEW scope \in Nat
    PROVE  /\ Fields(Address6(port, words, flow, scope)) =
                 <<port, words[1], words[2], words[3], words[4], flow, scope>>
           /\ Fields(Address6(port, words, flow, scope)) \in Seq(Nat)
<1> DEFINE first == <<port>>
           f == first \o words
           rest == <<flow, scope>>
<1>1. Fields(Address6(port, words, flow, scope)) = f \o rest
  BY DEF Fields, Address6, INET, INET6
<1>2. first \in Seq(Nat) /\ Len(first) = 1 /\ first[1] = port
  OBVIOUS
<1>3. words \in Seq(Nat) /\ Len(words) = 4
  BY DEF Words
<1>4. rest \in Seq(Nat) /\ Len(rest) = 2 /\ rest[1] = flow /\ rest[2] = scope
  OBVIOUS
<1> HIDE DEF first, rest
<1>5. /\ f \in Seq(Nat) /\ Len(f) = 5
      /\ \A i \in 1..1 : f[i] = first[i]
      /\ \A i \in 1..4 : f[1 + i] = words[i]
  <2>1. /\ f \in Seq(Nat) /\ Len(f) = Len(first) + Len(words)
        /\ \A i \in 1..Len(first) : f[i] = first[i]
        /\ \A i \in 1..Len(words) : f[Len(first) + i] = words[i]
    BY <1>2, <1>3, Joined
  <2> HIDE DEF f
  <2>2. QED
    BY <1>2, <1>3, <2>1
<1> HIDE DEF f
<1> DEFINE g == f \o rest
<1>6. /\ g \in Seq(Nat) /\ Len(g) = Len(f) + Len(rest)
      /\ \A i \in 1..Len(f) : g[i] = f[i]
      /\ \A i \in 1..Len(rest) : g[Len(f) + i] = rest[i]
  BY <1>4, <1>5, Joined
<1>7. Fields(Address6(port, words, flow, scope)) = g
  BY <1>1
<1> HIDE DEF g
<1>8. Len(g) = 7 /\ (\A i \in 1..5 : g[i] = f[i]) /\ \A i \in 1..2 : g[5 + i] = rest[i]
  BY <1>4, <1>5, <1>6
<1>9. g[1] = port
  BY <1>2, <1>5, <1>8
<1>10. g[2] = words[1] /\ g[3] = words[2] /\ g[4] = words[3] /\ g[5] = words[4]
  <2>1. f[1 + 1] = words[1] /\ f[1 + 2] = words[2] /\ f[1 + 3] = words[3] /\ f[1 + 4] = words[4]
    BY <1>5
  <2>2. g[2] = f[2] /\ g[3] = f[3] /\ g[4] = f[4] /\ g[5] = f[5]
    BY <1>8
  <2>3. QED
    BY <2>1, <2>2
<1>11. g[6] = flow /\ g[7] = scope
  <2>1. g[5 + 1] = rest[1] /\ g[5 + 2] = rest[2]
    BY <1>8
  <2>2. QED
    BY <1>4, <2>1
<1> DEFINE h == <<port, words[1], words[2], words[3], words[4], flow, scope>>
<1>12. /\ h \in Seq(Nat) /\ Len(h) = 7
       /\ h[1] = port /\ h[2] = words[1] /\ h[3] = words[2] /\ h[4] = words[3]
       /\ h[5] = words[4] /\ h[6] = flow /\ h[7] = scope
  BY FourWords
<1> HIDE DEF h
<1>13. \A i \in 1..7 : i \in {1, 2, 3, 4, 5, 6, 7}
  OBVIOUS
<1>14. \A i \in 1..7 : g[i] = h[i]
  BY <1>9, <1>10, <1>11, <1>12, <1>13
<1>15. Len(g) = Len(h) /\ \A i \in 1..Len(g) : g[i] = h[i]
  BY <1>8, <1>12, <1>14
<1>16. g = h
  BY <1>6, <1>12, <1>15, SameSequence
<1>17. QED
  BY <1>6, <1>7, <1>16 DEF h

\* The kinds of addresses.
LEMMA Kinds ==
    ASSUME NEW a \in Addresses
    PROVE  /\ a.family \in {None, INET, INET6}
           /\ a.family = None => a = NoAddress
           /\ a.family = INET => \E port \in Nat, words \in Words(1) : a = Address4(port, words)
           /\ a.family = INET6 =>
                 \E port \in Nat, words \in Words(4), flow \in Nat, scope \in Nat :
                    a = Address6(port, words, flow, scope)
BY DEF Addresses, NoAddress, Address4, Address6, None, INET, INET6

\* An IPv6 address and its fields.
LEMMA Kinds6 ==
    ASSUME NEW a \in Addresses, a.family = INET6
    PROVE  /\ \E port \in Nat, words \in Words(4), flow \in Nat, scope \in Nat :
                 /\ a = Address6(port, words, flow, scope)
                 /\ Fields(a) = <<port, words[1], words[2], words[3], words[4], flow, scope>>
           /\ Fields(a) \in Seq(Nat)
           /\ Len(Fields(a)) = 7
<1>1. PICK p \in Nat, w \in Words(4), f \in Nat, t \in Nat : a = Address6(p, w, f, t)
  BY Kinds
<1>2. Fields(a) = <<p, w[1], w[2], w[3], w[4], f, t>>
  BY <1>1, FieldsInet6
<1>3. Fields(a) \in Seq(Nat)
  BY <1>1, FieldsInet6
<1>4. Len(Fields(a)) = 7
  BY <1>2
<1>5. QED
  BY <1>1, <1>2, <1>3, <1>4

\* Addresses of one family have as many fields.
LEMMA FieldsType ==
    ASSUME NEW a \in Addresses
    PROVE  /\ Fields(a) \in Seq(Nat)
           /\ Len(Fields(a)) = IF a.family = INET THEN 2 ELSE IF a.family = INET6 THEN 7 ELSE 0
<1>1. CASE a.family = INET
  <2>1. PICK p \in Nat, w \in Words(1) : a = Address4(p, w)
    BY <1>1, Kinds
  <2>2. QED
    BY <1>1, <2>1, FieldsInet
<1>2. CASE a.family = INET6
  BY <1>2, Kinds6 DEF INET, INET6
<1>3. CASE a.family = None
  BY <1>3 DEF Fields, None, INET, INET6
<1>4. QED
  BY <1>1, <1>2, <1>3, Kinds DEF None

\* Nothing that makes two addresses differ is left out of the comparison.
LEMMA FieldsInjective ==
    ASSUME NEW a \in Addresses, NEW b \in Addresses, a.family = b.family, Fields(a) = Fields(b)
    PROVE  a = b
<1>1. CASE a.family = INET
  <2>1. PICK p \in Nat, w \in Words(1) : a = Address4(p, w)
    BY <1>1, Kinds
  <2>2. PICK q \in Nat, v \in Words(1) : b = Address4(q, v)
    BY <1>1, Kinds
  <2>3. p = q /\ w[1] = v[1]
    BY <2>1, <2>2, FieldsInet
  <2>4. w = v
    BY <2>3 DEF Words
  <2>5. QED
    BY <2>1, <2>2, <2>3, <2>4
<1>2. CASE a.family = INET6
  <2>1. PICK p \in Nat, w \in Words(4), f \in Nat, s \in Nat :
            a = Address6(p, w, f, s) /\ Fields(a) = <<p, w[1], w[2], w[3], w[4], f, s>>
    BY <1>2, Kinds6
  <2>2. PICK q \in Nat, v \in Words(4), g \in Nat, t \in Nat :
            b = Address6(q, v, g, t) /\ Fields(b) = <<q, v[1], v[2], v[3], v[4], g, t>>
    BY <1>2, Kinds6
  <2>5. <<p, w[1], w[2], w[3], w[4], f, s>> = <<q, v[1], v[2], v[3], v[4], g, t>>
    BY <2>1, <2>2
  <2>6. p = q /\ w[1] = v[1] /\ w[2] = v[2] /\ w[3] = v[3] /\ w[4] = v[4] /\ f = g /\ s = t
    BY <2>5
  <2>7. w = v
    <3>1. w \in Seq(Nat) /\ v \in Seq(Nat) /\ Len(w) = 4 /\ Len(v) = 4
      BY DEF Words
    <3>2. \A i \in 1..4 : i \in {1, 2, 3, 4}
      OBVIOUS
    <3>3. \A i \in 1..4 : w[i] = v[i]
      BY <2>6, <3>2
    <3>4. QED
      BY <3>1, <3>3, SMTT(30)
  <2>8. QED
    BY <2>1, <2>2, <2>6, <2>7
<1>3. CASE a.family = None
  BY <1>3, Kinds
<1>4. QED
  BY <1>1, <1>2, <1>3, Kinds

\* The hash of an address is a number.
LEMMA HashType ==
    ASSUME NEW a \in Addresses, NEW hash \in Nat
    PROVE  AddressHash(a, hash) \in Nat
<1>1. \A n \in Nat : n % Word \in Nat
  BY HashAssumption
<1>2. \A h, w \in Nat : WithWord(h, w) \in Nat
  <2>1. \A h, w \in Nat : h * (PortRange - 1) + w \in Nat
    BY HashAssumption
  <2>2. QED
    BY <1>1, <2>1 DEF WithWord
<1>3. \A h, w \in Nat : WithPort(h, w) \in Nat
  <2>1. \A h \in Nat : h * PortRange \in Nat
    BY HashAssumption
  <2>2. QED
    BY <1>1, <2>1 DEF WithPort
<1>4. CASE a.family = INET
  <2>1. a.port \in Nat /\ a.words[1] \in Nat
    BY <1>4, Kinds DEF Address4, Words
  <2>2. (hash + a.words[1]) % Word \in Nat
    BY <1>1, <2>1
  <2>3. AddressHash(a, hash) = WithPort((hash + a.words[1]) % Word, a.port)
    BY <1>4 DEF AddressHash, INET, INET6
  <2>4. QED
    BY <1>3, <2>1, <2>2, <2>3
<1>5. CASE a.family = INET6
  <2>1. a.port \in Nat /\ \A i \in 1..4 : a.words[i] \in Nat
    BY <1>5, Kinds DEF Address6, Words
  <2> DEFINE first == (hash + a.words[1]) % Word
             mixed == WithWord(WithWord(WithWord(first, a.words[2]), a.words[3]), a.words[4])
  <2>2. first \in Nat
    BY <1>1, <2>1
  <2> HIDE DEF first
  <2>3. mixed \in Nat
    <3>1. a.words[2] \in Nat /\ a.words[3] \in Nat /\ a.words[4] \in Nat
      BY <2>1
    <3>2. WithWord(first, a.words[2]) \in Nat
      BY <1>2, <2>2, <3>1
    <3>3. WithWord(WithWord(first, a.words[2]), a.words[3]) \in Nat
      BY <1>2, <3>1, <3>2
    <3>4. QED
      BY <1>2, <3>1, <3>3
  <2> HIDE DEF mixed
  <2>4. WithPort(mixed, a.port) \in Nat
    BY <1>3, <2>1, <2>3
  <2>5. AddressHash(a, hash) = WithPort(mixed, a.port)
    BY <1>5 DEF AddressHash, INET, INET6, mixed, first
  <2>6. QED
    BY <2>4, <2>5
<1>6. CASE a.family = None
  BY <1>1, <1>6 DEF AddressHash, None, INET, INET6
<1>7. QED
  BY <1>4, <1>5, <1>6, Kinds

-----------------------------------------------------------------------------
(* The order of addresses.                                                  *)

\* Csockaddr::operator== is equality.
LEMMA AddressEqualIsEquality ==
    ASSUME NEW a \in Addresses, NEW b \in Addresses
    PROVE  AddressEqual(a, b) <=> a = b
BY FieldsInjective DEF AddressEqual

\* Of two different addresses one is less.
LEMMA AddressTotal ==
    ASSUME NEW a \in Addresses, NEW b \in Addresses
    PROVE  AddressLess(a, b) \/ AddressLess(b, a) \/ a = b
<1>1. CASE a.family # b.family
  <2>1. a.family \in Nat /\ b.family \in Nat
    BY Kinds DEF None, INET, INET6
  <2>2. QED
    BY <1>1, <2>1 DEF AddressLess
<1>2. CASE a.family = b.family
  <2>1. /\ Fields(a) \in Seq(Nat) /\ Fields(b) \in Seq(Nat)
        /\ Len(Fields(a)) = Len(Fields(b))
    BY <1>2, FieldsType
  <2>2. Precedes(Fields(a), Fields(b)) \/ Precedes(Fields(b), Fields(a)) \/ Fields(a) = Fields(b)
    BY <2>1, PrecedesTotal
  <2>3. QED
    BY <1>2, <2>2, FieldsInjective DEF AddressLess
<1>3. QED
  BY <1>1, <1>2

\* Less excludes greater and equal.
LEMMA AddressStrict ==
    ASSUME NEW a \in Addresses, NEW b \in Addresses, AddressLess(a, b)
    PROVE  ~AddressLess(b, a) /\ a # b
<1>1. CASE a.family # b.family
  <2>1. a.family \in Nat /\ b.family \in Nat
    BY Kinds DEF None, INET, INET6
  <2>2. QED
    BY <1>1, <2>1 DEF AddressLess
<1>2. CASE a.family = b.family
  <2>1. /\ Fields(a) \in Seq(Nat) /\ Fields(b) \in Seq(Nat)
        /\ Len(Fields(a)) = Len(Fields(b))
    BY <1>2, FieldsType
  <2>2. Precedes(Fields(a), Fields(b))
    BY <1>2 DEF AddressLess
  <2>3. ~Precedes(Fields(b), Fields(a)) /\ Fields(a) # Fields(b)
    BY <2>1, <2>2, PrecedesStrict
  <2>4. QED
    BY <1>2, <2>3 DEF AddressLess
<1>3. QED
  BY <1>1, <1>2

\* Less is transitive.
LEMMA AddressTransitive ==
    ASSUME NEW a \in Addresses, NEW b \in Addresses, NEW c \in Addresses,
           AddressLess(a, b), AddressLess(b, c)
    PROVE  AddressLess(a, c)
<1>1. a.family \in Nat /\ b.family \in Nat /\ c.family \in Nat
  BY Kinds DEF None, INET, INET6
<1>2. CASE a.family = b.family /\ b.family = c.family
  <2>1. /\ Fields(a) \in Seq(Nat) /\ Fields(b) \in Seq(Nat) /\ Fields(c) \in Seq(Nat)
        /\ Len(Fields(a)) = Len(Fields(b)) /\ Len(Fields(b)) = Len(Fields(c))
    BY <1>2, FieldsType
  <2>2. Precedes(Fields(a), Fields(b)) /\ Precedes(Fields(b), Fields(c))
    BY <1>2 DEF AddressLess
  <2>3. Precedes(Fields(a), Fields(c))
    BY <2>1, <2>2, PrecedesTransitive
  <2>4. QED
    BY <1>2, <2>3 DEF AddressLess
<1>3. CASE ~(a.family = b.family /\ b.family = c.family)
  <2>1. a.family <= b.family /\ b.family <= c.family
    BY <1>1 DEF AddressLess
  <2>2. a.family < c.family
    BY <1>1, <1>3, <2>1
  <2>3. QED
    BY <1>1, <2>2 DEF AddressLess
<1>4. QED
  BY <1>2, <1>3

-----------------------------------------------------------------------------
(* Nodes.                                                                   *)

\* A node has what rehash() makes of its protocol and address.
LEMMA NodeType ==
    ASSUME NEW n \in Nodes
    PROVE  /\ n.protocol \in Protocol /\ n.address \in Addresses
           /\ n.hash \in Nat
           /\ n = NewNode(n.protocol, n.address)
<1>1. PICK protocol \in Protocol, address \in Addresses : n = NewNode(protocol, address)
  BY DEF Nodes
<1>2. n.protocol = protocol /\ n.address = address
  BY <1>1 DEF NewNode
<1>3. protocol * 31 \in Nat
  BY DEF Protocol, TCP, UDP
<1>4. AddressHash(address, protocol * 31) \in Nat
  BY <1>3, HashType
<1>5. n.hash = AddressHash(address, protocol * 31)
  BY <1>1 DEF NewNode
<1>6. QED
  BY <1>1, <1>2, <1>4, <1>5

\* A node that was never given an address has the hash that rehash() would compute.
LEMMA DefaultType == DefaultNode \in Nodes
<1>1. AddressHash(NoAddress, TCP * 31) = 0
  <2>1. AddressHash(NoAddress, TCP * 31) = (TCP * 31 + None) % Word
    BY DEF AddressHash, NoAddress, None, INET, INET6
  <2>2. TCP * 31 + None = 0
    BY DEF TCP, None
  <2>3. 0 % Word = 0
    BY HashAssumption
  <2>4. QED
    BY <2>1, <2>2, <2>3
<1>2. DefaultNode = NewNode(TCP, NoAddress)
  BY <1>1 DEF DefaultNode, NewNode
<1>3. TCP \in Protocol /\ NoAddress \in Addresses
  BY DEF Protocol, Addresses
<1>4. QED
  BY <1>2, <1>3 DEF Nodes

\* The hash adds nothing to what a node is.
LEMMA SameIdentity ==
    ASSUME NEW a \in Nodes, NEW b \in Nodes
    PROVE  Identity(a) = Identity(b) <=> a = b
<1>1. CASE Identity(a) = Identity(b)
  <2>1. a.protocol = b.protocol /\ a.address = b.address
    BY <1>1 DEF Identity
  <2>2. a = NewNode(a.protocol, a.address) /\ b = NewNode(b.protocol, b.address)
    BY NodeType
  <2>3. QED
    BY <1>1, <2>1, <2>2
<1>2. QED
  BY <1>1

\* CnetworkNode::operator== is equality.
LEMMA NodeEqualIsEquality ==
    ASSUME NEW a \in Nodes, NEW b \in Nodes
    PROVE  NodeEqual(a, b) <=> a = b
<1>1. a.address \in Addresses /\ b.address \in Addresses
  BY NodeType
<1>2. NodeEqual(a, b) => Identity(a) = Identity(b)
  BY <1>1, AddressEqualIsEquality DEF NodeEqual, Identity
<1>3. a = b => NodeEqual(a, b)
  BY <1>1, AddressEqualIsEquality DEF NodeEqual
<1>4. QED
  BY <1>2, <1>3, SameIdentity

\* Of two different nodes one is less.
LEMMA NodeTotal ==
    ASSUME NEW a \in Nodes, NEW b \in Nodes
    PROVE  NodeLess(a, b) \/ NodeLess(b, a) \/ a = b
<1>1. /\ a.hash \in Nat /\ b.hash \in Nat /\ a.protocol \in Nat /\ b.protocol \in Nat
      /\ a.address \in Addresses /\ b.address \in Addresses
  BY NodeType DEF Protocol, TCP, UDP
<1>2. AddressLess(a.address, b.address) \/ AddressLess(b.address, a.address)
         \/ a.address = b.address
  BY <1>1, AddressTotal
<1>3. NodeLess(a, b) \/ NodeLess(b, a) \/ Identity(a) = Identity(b)
  BY <1>1, <1>2 DEF NodeLess, Identity
<1>4. QED
  BY <1>3, SameIdentity

\* Less excludes greater and equal.
LEMMA NodeStrict ==
    ASSUME NEW a \in Nodes, NEW b \in Nodes, NodeLess(a, b)
    PROVE  ~NodeLess(b, a) /\ a # b
<1>1. /\ a.hash \in Nat /\ b.hash \in Nat /\ a.protocol \in Nat /\ b.protocol \in Nat
      /\ a.address \in Addresses /\ b.address \in Addresses
  BY NodeType DEF Protocol, TCP, UDP
<1>2. AddressLess(a.address, b.address) =>
         ~AddressLess(b.address, a.address) /\ a.address # b.address
  BY <1>1, AddressStrict
<1>3. QED
  BY <1>1, <1>2 DEF NodeLess

\* Less is transitive.
LEMMA NodeTransitive ==
    ASSUME NEW a \in Nodes, NEW b \in Nodes, NEW c \in Nodes, NodeLess(a, b), NodeLess(b, c)
    PROVE  NodeLess(a, c)
<1>1. /\ a.hash \in Nat /\ b.hash \in Nat /\ c.hash \in Nat
      /\ a.protocol \in Nat /\ b.protocol \in Nat /\ c.protocol \in Nat
      /\ a.address \in Addresses /\ b.address \in Addresses /\ c.address \in Addresses
  BY NodeType DEF Protocol, TCP, UDP
<1>2. AddressLess(a.address, b.address) /\ AddressLess(b.address, c.address) =>
         AddressLess(a.address, c.address)
  BY <1>1, AddressTransitive
<1>3. QED
  BY <1>1, <1>2 DEF NodeLess

-----------------------------------------------------------------------------
(* The invariant.                                                           *)

KeysAreNodes ==
    /\ node \in [Object -> Nodes]
    /\ table \subseteq Nodes /\ IsFiniteSet(table)
    /\ {Identity(k) : k \in table} = present

\* find() returns the key itself, if it is there.
LEMMA FoundIsKey ==
    ASSUME NEW n \in Nodes, table \subseteq Nodes
    PROVE  Found(n) = table \cap {n}
<1>1. \A k \in table : NodeEqual(k, n) <=> k = n
  BY NodeEqualIsEquality
<1>2. QED
  BY <1>1 DEF Found

\* Objects start with no address, and the table empty.
LEMMA InitKeys == Init => KeysAreNodes
BY DefaultType, FS_EmptySet DEF Init, KeysAreNodes

\* Every operation keeps it.
LEMMA NextKeys == KeysAreNodes /\ [Next]_vars => KeysAreNodes'
<1> SUFFICES ASSUME KeysAreNodes, [Next]_vars PROVE KeysAreNodes'
  OBVIOUS
<1>1. CASE UNCHANGED vars
  BY <1>1 DEF KeysAreNodes, vars
<1>2. ASSUME NEW o \in Object, NEW n \in Nodes, node' = [node EXCEPT ![o] = n],
             UNCHANGED <<table, present>>
      PROVE  KeysAreNodes'
  BY <1>2 DEF KeysAreNodes
<1>3. ASSUME NEW o \in Object, NEW protocol \in Protocol, NEW address \in Address
      PROVE  NewNode(protocol, address) \in Nodes
  BY AddressType DEF Nodes
<1>4. ASSUME NEW o \in Object, Construct(o) PROVE KeysAreNodes'
  BY <1>2, <1>3, <1>4 DEF Construct
<1>5. ASSUME NEW o \in Object, Set(o) PROVE KeysAreNodes'
  BY <1>2, <1>3, <1>5 DEF Set
<1>6. ASSUME NEW o \in Object, Default(o) PROVE KeysAreNodes'
  BY <1>2, <1>6, DefaultType DEF Default
<1>7. ASSUME NEW o \in Object, NEW from \in Object, Copy(o, from) PROVE KeysAreNodes'
  <2>1. node[from] \in Nodes
    BY DEF KeysAreNodes
  <2>2. QED
    BY <1>2, <1>7, <2>1 DEF Copy
<1>8. ASSUME NEW o \in Object, Insert(o) PROVE KeysAreNodes'
  <2>1. node[o] \in Nodes /\ table \subseteq Nodes /\ IsFiniteSet(table)
    BY DEF KeysAreNodes
  <2>2. Found(node[o]) = table \cap {node[o]}
    BY <2>1, FoundIsKey
  <2>3. table' = table \cup {node[o]}
    BY <1>8, <2>2 DEF Insert
  <2>4. IsFiniteSet(table')
    BY <2>1, <2>3, FS_AddElement
  <2>5. {Identity(k) : k \in table'} = {Identity(k) : k \in table} \cup {Identity(node[o])}
    BY <2>3
  <2>6. QED
    BY <1>8, <2>1, <2>3, <2>4, <2>5 DEF Insert, KeysAreNodes
<1>9. ASSUME NEW o \in Object, Erase(o) PROVE KeysAreNodes'
  <2>1. node[o] \in Nodes /\ table \subseteq Nodes /\ IsFiniteSet(table)
    BY DEF KeysAreNodes
  <2>2. Found(node[o]) = table \cap {node[o]}
    BY <2>1, FoundIsKey
  <2>3. table' = table \ {node[o]}
    BY <1>9, <2>2 DEF Erase
  <2>4. IsFiniteSet(table')
    BY <2>1, <2>3, FS_RemoveElement
  <2>5. \A k \in table : Identity(k) = Identity(node[o]) <=> k = node[o]
    BY <2>1, SameIdentity
  <2>6. {Identity(k) : k \in table'} = {Identity(k) : k \in table} \ {Identity(node[o])}
    BY <2>3, <2>5
  <2>7. QED
    BY <1>9, <2>1, <2>3, <2>4, <2>6 DEF Erase, KeysAreNodes
<1>10. ASSUME NEW o \in Object, CopyKey(o) PROVE KeysAreNodes'
  <2>1. PICK k \in table : node' = [node EXCEPT ![o] = k]
    BY <1>10 DEF CopyKey
  <2>2. k \in Nodes
    BY DEF KeysAreNodes
  <2>3. QED
    BY <1>2, <1>10, <2>1, <2>2 DEF CopyKey
<1>11. QED
  BY <1>1, <1>4, <1>5, <1>6, <1>7, <1>8, <1>9, <1>10 DEF Next

\* With it, a table is exact.
LEMMA KeysImplyTable == KeysAreNodes => TableIsExact
<1> SUFFICES ASSUME KeysAreNodes PROVE TableIsExact
  OBVIOUS
<1>1. Cardinality(table) = Cardinality(present)
  <2> DEFINE f == [k \in table |-> Identity(k)]
  <2>1. f \in Bijection(table, present)
    <3>1. f \in [table -> present] /\ \A i \in present : \E k \in table : f[k] = i
      BY DEF KeysAreNodes
    <3>2. \A k, l \in table : f[k] = f[l] => k = l
      BY SameIdentity DEF KeysAreNodes
    <3>3. QED
      BY <3>1, <3>2 DEF Bijection, Injection, Surjection, IsInjective
  <2>2. ExistsBijection(table, present)
    BY <2>1 DEF ExistsBijection
  <2>3. QED
    BY <2>2, FS_Bijection DEF KeysAreNodes
<1>2. ASSUME NEW o \in Object
      PROVE  Found(node[o]) # {} <=> Identity(node[o]) \in present
  <2>1. node[o] \in Nodes /\ table \subseteq Nodes
    BY DEF KeysAreNodes
  <2>2. Found(node[o]) = table \cap {node[o]}
    BY <2>1, FoundIsKey
  <2>3. \A k \in table : Identity(k) = Identity(node[o]) <=> k = node[o]
    BY <2>1, SameIdentity
  <2>4. QED
    BY <2>2, <2>3 DEF KeysAreNodes
<1>3. QED
  BY <1>1, <1>2 DEF TableIsExact, KeysAreNodes

\* With it, the nodes in use are totally ordered.
LEMMA KeysImplyOrder == KeysAreNodes => OrderIsTotal
<1> SUFFICES ASSUME KeysAreNodes PROVE OrderIsTotal
  OBVIOUS
<1>1. {node[o] : o \in Object} \cup table \subseteq Nodes
  BY DEF KeysAreNodes
<1>2. \A a, b \in Nodes :
         /\ Identity(a) = Identity(b) <=> NodeEqual(a, b)
         /\ ~(NodeLess(a, b) /\ NodeLess(b, a)) /\ ~(NodeLess(a, b) /\ NodeEqual(a, b))
         /\ NodeLess(a, b) \/ NodeLess(b, a) \/ NodeEqual(a, b)
  BY SameIdentity, NodeEqualIsEquality, NodeStrict, NodeTotal
<1>3. \A a, b, c \in Nodes : NodeLess(a, b) /\ NodeLess(b, c) => NodeLess(a, c)
  BY NodeTransitive
<1>4. QED
  BY <1>1, <1>2, <1>3 DEF OrderIsTotal

\* A table keyed by nodes holds exactly what was put in, each once, for every set of
\* inputs and however many of their hashes collide (std::unordered_map with
\* CnetworkNode::Chash and operator==).
THEOREM TablesAreExact == Spec => []TableIsExact
<1>1. Spec => []KeysAreNodes
  BY InitKeys, NextKeys, PTL DEF Spec
<1>2. QED
  BY <1>1, KeysImplyTable, PTL

\* operator< is a strict total order whose equality is operator==, for every set of
\* inputs.
THEOREM OrderTotal == Spec => []OrderIsTotal
<1>1. Spec => []KeysAreNodes
  BY InitKeys, NextKeys, PTL DEF Spec
<1>2. QED
  BY <1>1, KeysImplyOrder, PTL

=============================================================================
