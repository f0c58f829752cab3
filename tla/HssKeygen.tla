------------------------------- MODULE HssKeygen -------------------------------
(***************************************************************************)
(* hss_generate_private_key: it stores the private key, then computes the  *)
(* root tree to get the public key, keeping on the way the levels the      *)
(* caller wants as auxiliary data.  The application saves the auxiliary    *)
(* data when the call has returned.  The process may end at any point, a   *)
(* write or an allocation may fail, and an auxiliary file may get damaged. *)
(* A private key is named by its number; its root tree by RootTree.        *)
(***************************************************************************)
EXTENDS HssAux, HssParam

CONSTANTS
  Params,     \* the lists of [lm, ots] that keys are generated with
  Rooms,      \* how many hashes the caller's aux buffer holds, or NoBuffer
  NoBuffer,
  Tracks,     \* what hss_thread_num_tracks returns
  MaxKeys     \* bound: the number of keys that are generated

ASSUME ParamsAssumption == Params \subseteq Seq([lm : Nat, ots : Nat])
ASSUME RoomsAssumption == Rooms \subseteq Nat \cup {NoBuffer} /\ NoBuffer \notin Nat
ASSUME KeysAssumption == MaxKeys \in Nat

VARIABLES
  nv,         \* the private key in NV storage: [field, key]
  keys,       \* the number of keys generated so far
  pc, call,   \* where the call stands, and its local variables
  auxBuf,     \* the caller's aux buffer
  auxFile,    \* the auxiliary data the application has saved
  pub         \* history: the last public key returned, with the parameters asked for

keygenVars == <<nv, keys, pc, call, auxBuf, auxFile, pub>>

RootTree(k) == <<k, 1, 0>>
Height == call.p[1].lm
NoCall == [key |-> 0]
NoAux == Marked({})
NoPub == [key |-> 0, p |-> <<>>, root |-> Junk]
HasBuffer == call.room # NoBuffer

KeygenTypeOK ==
  /\ nv.key \in 0 .. keys
  /\ keys \in 0 .. MaxKeys
  /\ pc \in {"idle", "choose", "combine", "returned"}
  /\ auxBuf.levels \cup auxFile.levels \subseteq 1 .. 24
  /\ pc \in {"choose", "combine"} => call.level \in 1 .. Height - 1

KeygenInit ==
  /\ nv = [field |-> BlankField, key |-> 0]
  /\ keys = 0
  /\ pc = "idle"
  /\ call = NoCall
  /\ auxBuf = NoAux
  /\ auxFile = NoAux
  /\ pub = NoPub

\* hss_store_aux_marker: the rest of the buffer keeps what it held.
StoreMarker(levels) == IF levels = auxBuf.levels THEN auxBuf ELSE Marked(levels)

\* The private key is formatted and written; unless that fails, the aux marker too.
Generate(p, room, tracks, written) ==
  /\ pc = "idle"
  /\ keys < MaxKeys
  /\ CanCompress(p)
  /\ keys' = keys + 1
  /\ nv' = IF written = "failed" THEN nv ELSE [field |-> Compress(p), key |-> keys']
  /\ IF written = "ok"
     THEN /\ pc' = "choose"
          /\ call' = [key |-> keys', p |-> p, room |-> room, tracks |-> tracks,
                      level |-> p[1].lm - 1]
          /\ auxBuf' = IF room = NoBuffer THEN auxBuf ELSE StoreMarker(AuxLevels(p[1].lm, room))
     ELSE UNCHANGED <<pc, call, auxBuf>>
  /\ UNCHANGED <<auxFile, pub>>

(* The level that is computed in parallel: the lowest one in the aux data,  *)
(* or the first one that still keeps all the cores busy.                    *)
AtAuxLevel == HasBuffer /\ call.level \in auxBuf.levels
BusyBelow == 2 ^ call.level < 4 * call.tracks

\* "dest": the nodes go directly into the aux data, into a temporary buffer if it can
\* be allocated, and at level 1 into the small buffer on the stack.
Place ==
  IF call.level > 1 /\ AtAuxLevel THEN {"aux"}
  ELSE IF call.level > 1 /\ BusyBelow THEN {"temp"}
  ELSE IF call.level = 1 THEN {"small"} ELSE {}

NextLevelPastOne ==
  /\ pc = "choose"
  /\ ~AtAuxLevel
  /\ call' = [call EXCEPT !.level = @ - 1]
  /\ UNCHANGED <<nv, keys, pc, auxBuf, auxFile, pub>>

NextLevel ==
  /\ pc = "choose"
  /\ call.level > 1
  /\ ~AtAuxLevel                      \* too many nodes here, or malloc fails
  /\ call' = [call EXCEPT !.level = @ - 1]
  /\ UNCHANGED <<nv, keys, pc, auxBuf, auxFile, pub>>

\* The work items have computed all nodes of the level.
RowOf(k, level) ==
  [n \in 0 .. 2 ^ level - 1 |-> ComputeInternalNode(RootTree(k), Height, 2 ^ level + n)]

GenerateNodes(dest) ==
  LET row == RowOf(call.key, call.level) IN
  /\ pc = "choose"
  /\ dest \in Place
  /\ pc' = "combine"
  /\ auxBuf' = IF dest = "aux" THEN [auxBuf EXCEPT !.node[call.level] = row] ELSE auxBuf
  /\ call' = [key |-> call.key, p |-> call.p, room |-> call.room, tracks |-> call.tracks,
              level |-> call.level, row |-> row, leaf |-> 0,
              stack |-> [s \in 0 .. call.level |-> Junk]]
  /\ UNCHANGED <<nv, keys, auxFile, pub>>

\* A work item reports an error: the stored key is overwritten with zeroes.
GenerateFailed(written) ==
  /\ pc = "choose"
  /\ Place # {}
  /\ nv' = IF written = "failed" THEN nv ELSE [field |-> BlankField, key |-> 0]
  /\ pc' = "idle"
  /\ call' = NoCall
  /\ UNCHANGED <<keys, auxBuf, auxFile, pub>>

\* The next node of the level completes some nodes above it, which are offered to the
\* aux data; the node itself is not, as it is taken to be there already.
SaveClimb(up, leaf) ==
  LET saved[s \in DOMAIN up] ==
        IF s = 0 THEN auxBuf ELSE Save(saved[s - 1], call.level - s, leaf \div 2 ^ s, up[s])
  IN  saved[TrailingOnes(leaf)]

CombineLeaf ==
  LET off == TrailingOnes(call.leaf)
      up == Climb(call.stack, call.row[call.leaf], RootTree(call.key),
                  2 ^ call.level + call.leaf, off)
  IN
  /\ pc = "combine"
  /\ call.leaf < 2 ^ call.level
  /\ call' = [call EXCEPT !.leaf = @ + 1, !.stack[off] = up[off]]
  /\ auxBuf' = IF HasBuffer THEN SaveClimb(up, call.leaf) ELSE auxBuf
  /\ UNCHANGED <<nv, keys, pc, auxFile, pub>>

\* The MAC of the aux data, and the public key; the top of the stack is the root.
Finalize ==
  /\ pc = "combine"
  /\ call.leaf = 2 ^ call.level
  /\ auxBuf' = IF HasBuffer THEN Finalized(auxBuf, call.key) ELSE auxBuf
  /\ pub' = [key |-> call.key, p |-> call.p, root |-> call.stack[call.level]]
  /\ pc' = IF HasBuffer THEN "returned" ELSE "idle"
  /\ call' = NoCall
  /\ UNCHANGED <<nv, keys, auxFile>>

SaveAux ==
  /\ pc = "returned"
  /\ auxFile' = auxBuf
  /\ pc' = "idle"
  /\ UNCHANGED <<nv, keys, call, auxBuf, pub>>

\* The process ends: what is stored stays.
Crash ==
  /\ pc # "idle"
  /\ pc' = "idle"
  /\ call' = NoCall
  /\ auxBuf' = NoAux
  /\ UNCHANGED <<nv, keys, auxFile, pub>>

\* The saved data is damaged: one node, or the marker.
Damage ==
  /\ pc = "idle"
  /\ \/ \E l \in auxFile.levels : \E n \in {0, 2 ^ l - 1} :
          auxFile' = [auxFile EXCEPT !.node[l][n] = Junk]
     \/ \E l \in auxFile.levels :
          auxFile' = [auxFile EXCEPT !.levels = @ \ {l}, !.node = [m \in DOMAIN @ \ {l} |-> @[m]]]
  /\ UNCHANGED <<nv, keys, pc, call, auxBuf, pub>>

KeygenNext ==
  \/ \E p \in Params, room \in Rooms, tracks \in Tracks,
        written \in {"ok", "failed", "failed_written"} : Generate(p, room, tracks, written)
  \/ NextLevel
  \/ \E dest \in {"aux", "temp", "small"} : GenerateNodes(dest)
  \/ \E written \in {"ok", "failed"} : GenerateFailed(written)
  \/ CombineLeaf
  \/ Finalize
  \/ SaveAux
  \/ Crash
  \/ Damage

\* The public key that is handed out is the root of the tree it names.
PublicKeyIsRoot == pub.key # 0 => pub.root = Node(RootTree(pub.key), 1)

\* Auxiliary data that loading would accept holds the right nodes of the key's root
\* tree, whatever happened to the buffer and to the file since.
AuxIsRight ==
  Accepts(auxFile, nv.key) =>
    \A l \in auxFile.levels : \A n \in DOMAIN auxFile.node[l] :
      auxFile.node[l][n] = Node(RootTree(nv.key), 2 ^ l + n)
=============================================================================
