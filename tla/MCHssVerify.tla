------------------------------ MODULE MCHssVerify ------------------------------
(***************************************************************************)
(* Keys of one to four levels with trees of height 1 and 2, everything     *)
(* their signers can make for messages of up to two pieces, and what       *)
(* arrives at the verifier: that, cut short, extended, with one word       *)
(* changed, or put together from two signatures.                           *)
(***************************************************************************)
EXTENDS HssVerify, SequencesExt

Heights == 5 :> 1 @@ 6 :> 2

Shapes == { << <<5, 1>> >>, << <<6, 2>> >>, << <<6, 1>>, <<5, 2>> >>,
            << <<5, 1>>, <<5, 2>>, <<5, 1>> >>,
            << <<5, 1>>, <<5, 1>>, <<5, 1>>, <<5, 1>> >> }

\* The tree of a key that leaves above it lead to, its nodes and its public key.
Name(shape, above) == <<"I", shape, above>>

Node(I, h) ==
  LET node[r \in 1 .. 2 ^ (h + 1) - 1] ==
        IF r >= 2 ^ h THEN LeafHash(I, r, OtsKey(I, Num(r - 2 ^ h)))
                      ELSE NodeHash(I, r, node[2 * r], node[2 * r + 1])
  IN  node

LmPublicKey(shape, above) ==
  LET type == shape[Len(above) + 1] I == Name(shape, above)
  IN  <<Num(type[1]), Num(type[2]), I, Node(I, Heights[type[1]])[1]>>

PublicKey(shape) == <<Num(Len(shape))>> \o LmPublicKey(shape, <<>>)

Signs(shape, above, q, message) ==
  LET type == shape[Len(above) + 1]
      h == Heights[type[1]]
      I == Name(shape, above)
      C == <<"C", I, q>>
      node == Node(I, h)
      path == [k \in 1 .. h |->
                 LET r == (2 ^ h + q) \div 2 ^ (k - 1)
                 IN  node[IF r % 2 = 1 THEN r - 1 ELSE r + 1]]
  IN  <<Num(q), Num(type[2]), C, OtsSignature(I, Num(q), Digest(I, Num(q), C, message)),
        Num(type[1])>> \o path

Signature(shape, leaves, message) ==
  LET L == Len(shape)
      part(k) == LET above == SubSeq(leaves, 1, k - 1)
                     below == SubSeq(leaves, 1, k)
                 IN  IF k = L THEN Signs(shape, above, leaves[k], message)
                     ELSE Signs(shape, above, leaves[k], LmPublicKey(shape, below))
                          \o LmPublicKey(shape, below)
  IN  FlattenSeq(<< <<Num(L - 1)>> >> \o [k \in 1 .. L |-> part(k)])

Leaves(shape) == {q \in [1 .. Len(shape) -> 0 .. 3] :
                    \A k \in 1 .. Len(shape) : q[k] < 2 ^ Heights[shape[k][1]]}

Supported == {s \in Shapes : Len(s) <= MaxLevels}

AnyMessage == UNION {[1 .. n -> Pieces] : n \in 0 .. MaxPieces}

\* Two signatures of every key; the verifier gets the first one or something like it.
Message == <<"a", "b">>
Backwards == <<"b", "a">>
TwoMessages == {Message, Backwards}

Base(shape) == Signature(shape, [k \in 1 .. Len(shape) |-> 1], Message)
Other(shape) == Signature(shape, [k \in 1 .. Len(shape) |-> k % 2], Backwards)

Junk == <<"junk">>

Spliced(s, t) == {SubSeq(s, 1, n) \o SubSeq(t, n + 1, Len(t)) : n \in 0 .. Len(s)}

Cut(s) == {SubSeq(s, 1, n) : n \in 0 .. Len(s)} \cup {Append(s, w) : w \in {Num(0), Junk}}

Changed(s, t) == {[s EXCEPT ![k] = w] : k \in 1 .. Len(s), w \in {Num(2), Junk}}
                 \cup {[s EXCEPT ![k] = t[k]] : k \in 1 .. Len(s)}

\* What an application has: the genuine signature and one that is like it, or another key.
Presented(shape) ==
  LET made == {<<Signature(shape, q, m), m>> : q \in Leaves(shape), m \in AnyMessage}
      key == PublicKey(shape)
      good == Base(shape)
      With(s) == [public_key |-> key, signature |-> s,
                  signed |-> {g[2] : g \in {h \in made : h[1] = s}}]
      tried == Spliced(good, Other(shape)) \cup Cut(good)
               \cup (IF Len(shape) > 1 THEN Changed(good, Other(shape)) ELSE {})
      keys == {PublicKey(t) : t \in Shapes} \cup {[key EXCEPT ![1] = Num(n)] : n \in 0 .. 4}
  IN  {{With(good), With(s)} : s \in tried}
      \cup {{With(good), [public_key |-> k, signature |-> good, signed |-> {}]} :
              k \in keys \ {key}}

AllApplications ==
  UNION {Presented(shape) : shape \in Supported}
  \cup {{[public_key |-> PublicKey(s), signature |-> Base(s), signed |-> {}]} : s \in Shapes \ Supported}

AnyMemory == {Junk} \cup {<<"C", Name(s, [k \in 1 .. Len(s) - 1 |-> 1]), 1>> : s \in Supported}

\* The hypothesis of the theorem about KeepsPromise.
ASSUME GenuineAssumption == \A application \in AllApplications : Genuine(application)
=============================================================================
