----------------------------- MODULE MCDexRoutes ----------------------------
(* Routes as the IDL encodes them, whole and cut short, and a route of every
   tag a byte can hold. *)
EXTENDS DexRoutes, DexIdl

Rfq == [tag |-> 117, body |-> RfqBody(1, 1, 1)]

\* One route of every kind, between two RFQ legs or before another of those
\* with a body.
Bodied == {r \in IdlRoutes : r.body # <<>> /\ r.tag # 126}
RouteLists ==
    UNION {{<<r>> : r \in IdlRoutes}, {<<Rfq, r, Rfq>> : r \in IdlRoutes},
           {<<p, q, Rfq>> : p, q \in {b \in Bodied : 117 \in {b.body[i] : i \in DOMAIN b.body}}}}

Whole(rs, rest) == [routes |-> rs, data |-> Encode(rs) \o rest]

\* The arguments that follow SwapArgs.
FurtherArgs == {<<>>, <<117, 0, 117>>}

Cut(rs, k) == [routes |-> rs, data |-> SubSeq(Encode(rs), 1, k)]

Cuts(rs) == {Cut(rs, k) : k \in 0 .. Len(Encode(rs)) - 1}

\* One representative of each tag, and the RFQ legs of every length.
Representatives == {r \in IdlRoutes : r.tag \in {0, 23, 117, 119, 133, 134}}
                     \cup {[tag |-> 126, body |-> LenPrefix(1) \o c \o m] :
                             c \in Candidates(117), m \in Modes(117)}

\* Tags that no version of the enums has: the input must be refused.
Unknown ==
    {[tag |-> t, body |-> <<>>] : t \in 141 .. 255}
      \cup {[tag |-> 126, body |-> LenPrefix(1) \o <<c, 0>>] : c \in 18 .. 255}
      \cup {[tag |-> 126, body |-> LenPrefix(0) \o <<m, 0>>] : m \in 3 .. 255}

MCInputs ==
    UNION ({{Whole(rs, rest) : rs \in RouteLists, rest \in FurtherArgs},
            {Whole(<<Rfq, r, Rfq>>, <<>>) : r \in Unknown}}
             \cup {Cuts(<<r>>) : r \in Representatives})

\* Bytes that no IDL need describe: any tag, any candidate, any mode.
MCRawInputs ==
    {Whole(<<[tag |-> t, body |-> Copies(0, n)]>>, Copies(0, 8)) : t \in 0 .. 255, n \in {0, 1}}
      \cup {Whole(<<[tag |-> 126, body |-> LenPrefix(1) \o <<c>> \o Copies(0, n) \o <<m>>]>>, <<>>) :
              c \in 0 .. 20, n \in {0, 8, 16, 96, 99}, m \in 0 .. 3}

\* An input that ends inside the arguments is refused: no route, and no RFQ leg,
\* is made up from bytes that are not there (read_exact in skip_exact).
TruncatedRefused == state = "done" => Len(data) >= Len(Encode(input.routes))

\* "Variant indices and body layouts are confirmed against the aggregator's Dex
\* enum and embedded IDL" (idl_types.rs:62): a route that is accepted is of a
\* variant the embedded IDL declares.
OnlyDeclaredVariants == \A k \in DOMAIN routes : routes[k].tag \in Variants

=============================================================================
