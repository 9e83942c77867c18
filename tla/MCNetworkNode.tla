---------------------------- MODULE MCNetworkNode ----------------------------
(***************************************************************************)
(* An instance of NetworkNode with colliding hashes: a size_t of eight     *)
(* bits, ports of two.                                                     *)
(***************************************************************************)
EXTENDS NetworkNode, TLC

Raw4(size) == [family |-> INET, size |-> size, port |-> 1, words |-> <<1>>]
Raw6(size, last, flow, scope) ==
    [family |-> INET6, size |-> size, port |-> 1, words |-> <<0, 0, 0, last>>,
     flow |-> flow, scope |-> scope]

\* An IPv4 address, a truncated one, and IPv6 addresses that differ in one field.
Raws == {Raw4("in"), Raw4("less"), Raw6("in", 0, 0, 0)}
          \cup {Raw6("in6", 0, 0, 0), Raw6("in6", 1, 0, 0),
                Raw6("in6", 0, 1, 0), Raw6("in6", 0, 0, 1)}

Spelled(colon, port, words) ==
    [valid |-> TRUE, colon |-> colon, port |-> port, words |-> words, scope |-> 0]

\* Text that is no address, one that Raws has too, and another port and word that
\* have its hash.
Names == {[valid |-> FALSE], Spelled(FALSE, 1, <<1>>), Spelled(FALSE, 1, <<65>>),
          Spelled(FALSE, 2, <<1>>), Spelled(TRUE, 1, <<0, 0, 0, 1>>)}

\* Two keys of the table, or of the inputs, have the same hash.
ASSUME Collision ==
    \E r \in Raws, n \in Names :
        /\ FromRaw(r) # FromName(n)
        /\ AddressHash(FromRaw(r), 0) = AddressHash(FromName(n), 0)

\* Objects are interchangeable.
Symmetry == Permutations(Object)
=============================================================================
