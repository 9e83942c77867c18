------------------------------ MODULE NetworkNode ------------------------------
(***************************************************************************)
(* Csockaddr and CnetworkNode (src/network_node.h): an address with its    *)
(* protocol and a hash that is computed once and copied ever after.  Nodes *)
(* are the keys of every table of the pool and of the HTTP server; one such*)
(* std::unordered_map is modelled by what it does with a key: it compares  *)
(* stored hashes, then keys.                                               *)
(***************************************************************************)
EXTENDS Integers, Sequences, FiniteSets

CONSTANTS Object,     \* CnetworkNode objects other than the keys of the table
          Raw,        \* sockaddr structures the system may hand over, with their size
          Name,       \* addresses an application may spell out, with a port
          Word,       \* values of size_t
          PortRange,  \* values of an unsigned short, 2^16 in the code
          MaxKeys     \* bound: keys in the table

ASSUME HashAssumption ==
    /\ Word \in Nat \ {0} /\ PortRange \in Nat \ {0}
    /\ Word % PortRange = 0

TCP == 0
UDP == 1
Protocol == {TCP, UDP}

\* The values of sa_family that matter.
None == 0
INET == 2
INET6 == 10

\* What the inputs hold: a port, one word or four, and for four the rest.
Inet(in) == in.port \in Nat /\ in.words \in Seq(Nat) /\ Len(in.words) = 1
Inet6(in) == in.port \in Nat /\ in.words \in Seq(Nat) /\ Len(in.words) = 4 /\ in.scope \in Nat

ASSUME InputAssumption ==
    /\ MaxKeys \in Nat
    /\ \A raw \in Raw : /\ raw.family = INET => Inet(raw)
                        /\ raw.family = INET6 /\ raw.size = "in6" => Inet6(raw) /\ raw.flow \in Nat
    /\ \A name \in Name : /\ name.valid \in BOOLEAN
                          /\ name.valid => name.colon \in BOOLEAN
                          /\ name.valid => IF name.colon THEN Inet6(name) ELSE Inet(name)

VARIABLES node,    \* the objects
          table,   \* the keys in the table, with the hash each was stored with
          present  \* what was put into the table and not taken out

vars == <<node, table, present>>

-----------------------------------------------------------------------------
(* Csockaddr.                                                               *)

NoAddress == [family |-> None]

\* sockaddr_in: a port and one word; sockaddr_in6: a port and four words, the
\* flow label and the scope.
Address4(port, words) == [family |-> INET, port |-> port, words |-> words]
Address6(port, words, flow, scope) ==
    [family |-> INET6, port |-> port, words |-> words, flow |-> flow, scope |-> scope]

\* init(raw, size): size says which structures the caller has room for.
FromRaw(raw) ==
    CASE raw.family = INET /\ raw.size \in {"in", "in6"} -> Address4(raw.port, raw.words)
      [] raw.family = INET6 /\ raw.size = "in6" ->
            Address6(raw.port, raw.words, raw.flow, raw.scope)
      [] OTHER -> NoAddress

\* init(ip, port): what libuv makes of the text; there is no flow label in it.
FromName(name) ==
    CASE ~name.valid -> NoAddress
      [] name.valid /\ ~name.colon -> Address4(name.port, name.words)
      [] name.valid /\ name.colon -> Address6(name.port, name.words, 0, name.scope)

\* Mutant: an address is compared as far as sockaddr_in goes.
FieldsOfInet(a) ==
    CASE a.family = INET -> <<a.port>> \o a.words
      [] a.family = INET6 -> <<a.port>> \o a.words
      [] OTHER -> <<>>

\* The fields that are compared, in the order in which they are.
Fields(a) ==
    CASE a.family = INET -> <<a.port>> \o a.words
      [] a.family = INET6 -> <<a.port>> \o a.words \o <<a.flow, a.scope>>
      [] OTHER -> <<>>

\* The first field that differs decides.
Precedes(s, t) ==
    \E i \in 1..Len(s) : s[i] < t[i] /\ \A j \in 1..(i - 1) : s[j] = t[j]

AddressLess(a, b) ==
    IF a.family # b.family THEN a.family < b.family ELSE Precedes(Fields(a), Fields(b))
AddressEqual(a, b) == a.family = b.family /\ Fields(a) = Fields(b)

\* getHash(hash), in the arithmetic of size_t.
WithPort(hash, port) == ((hash * PortRange) % Word) + port
WithWord(hash, word) == (hash * (PortRange - 1) + word) % Word
AddressHash(a, hash) ==
    LET first == (hash + a.words[1]) % Word IN
    CASE a.family = INET -> WithPort(first, a.port)
      [] a.family = INET6 ->
            WithPort(WithWord(WithWord(WithWord(first, a.words[2]), a.words[3]), a.words[4]),
                     a.port)
      [] OTHER -> (hash + a.family) % Word

-----------------------------------------------------------------------------
(* CnetworkNode.                                                            *)

\* A node right after rehash().
NewNode(protocol, address) ==
    [protocol |-> protocol, address |-> address,
     hash |-> AddressHash(address, protocol * 31)]

\* CnetworkNode(): no call of rehash().
DefaultNode == [protocol |-> TCP, address |-> NoAddress, hash |-> 0]

NodeLess(a, b) ==
    IF a.hash # b.hash THEN a.hash < b.hash
    ELSE IF a.protocol # b.protocol THEN a.protocol < b.protocol
    ELSE AddressLess(a.address, b.address)
NodeEqual(a, b) ==
    a.hash = b.hash /\ a.protocol = b.protocol /\ AddressEqual(a.address, b.address)

\* What the constructors and set() are given: a structure or a text.
Address == {FromRaw(raw) : raw \in Raw} \cup {FromName(name) : name \in Name}

Construct(o) ==
    /\ \E protocol \in Protocol, address \in Address :
          node' = [node EXCEPT ![o] = NewNode(protocol, address)]
    /\ UNCHANGED <<table, present>>

\* Mutant: the hash is not computed anew.
SetKeepsHash(o) ==
    /\ \E protocol \in Protocol, address \in Address :
          node' = [node EXCEPT ![o].protocol = protocol, ![o].address = address]
    /\ UNCHANGED <<table, present>>

\* set(), with rehash().  Where the address is not valid there is none.
Set(o) ==
    /\ \E protocol \in Protocol, address \in Address :
          node' = [node EXCEPT ![o] = NewNode(protocol, address)]
    /\ UNCHANGED <<table, present>>

\* A default constructor.  A move is a copy.
Default(o) ==
    /\ node' = [node EXCEPT ![o] = DefaultNode]
    /\ UNCHANGED <<table, present>>
Copy(o, from) ==
    /\ node' = [node EXCEPT ![o] = node[from]]
    /\ UNCHANGED <<table, present>>

-----------------------------------------------------------------------------
(* A table with nodes as keys.                                              *)

\* What find() returns: the stored keys that are equal.
Found(n) == {k \in table : k.hash = n.hash /\ NodeEqual(k, n)}

Identity(n) == <<n.protocol, n.address>>

Insert(o) ==
    /\ Found(node[o]) # {} \/ Cardinality(table) < MaxKeys
    /\ table' = IF Found(node[o]) = {} THEN table \cup {node[o]} ELSE table
    /\ present' = present \cup {Identity(node[o])}
    /\ UNCHANGED node

Erase(o) ==
    /\ table' = table \ Found(node[o])
    /\ present' = present \ {Identity(node[o])}
    /\ UNCHANGED node

\* A key is copied out of the table: `node` of a range-for, or of a task.
CopyKey(o) ==
    /\ \E k \in table : node' = [node EXCEPT ![o] = k]
    /\ UNCHANGED <<table, present>>

-----------------------------------------------------------------------------
Init ==
    /\ node = [o \in Object |-> DefaultNode]
    /\ table = {}
    /\ present = {}

Next ==
    \E o \in Object :
        \/ Construct(o) \/ Set(o) \/ Default(o)
        \/ \E from \in Object : Copy(o, from)
        \/ Insert(o) \/ Erase(o) \/ CopyKey(o)

Spec == Init /\ [][Next]_vars

-----------------------------------------------------------------------------
(* Safety.                                                                  *)

\* A table keyed by nodes is a set of addresses: it holds exactly what was put in,
\* each once, however the objects used to put it in and to take it out came by
\* their value and their hash.
TableIsExact ==
    /\ {Identity(k) : k \in table} = present
    /\ Cardinality(table) = Cardinality(present)
    /\ \A o \in Object : Found(node[o]) # {} <=> Identity(node[o]) \in present

\* operator< is a strict total order, of which operator== is the equality: of two
\* nodes exactly one of <, == and > holds, and < is transitive.
OrderIsTotal ==
    \A a, b, c \in {node[o] : o \in Object} \cup table :
        /\ Identity(a) = Identity(b) <=> NodeEqual(a, b)
        /\ ~(NodeLess(a, b) /\ NodeLess(b, a)) /\ ~(NodeLess(a, b) /\ NodeEqual(a, b))
        /\ NodeLess(a, b) \/ NodeLess(b, a) \/ NodeEqual(a, b)
        /\ NodeLess(a, b) /\ NodeLess(b, c) => NodeLess(a, c)

=============================================================================
