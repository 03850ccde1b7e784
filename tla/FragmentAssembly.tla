-------------------------- MODULE FragmentAssembly --------------------------
(***************************************************************************)
(* Reassembly of fragmented entity messages (STATE, COMMAND), as           *)
(* bridge_protocol.cpp and remote_protocol.cpp do it: one assembly per     *)
(* entity in a bounded table, with a running total of reserved bytes.      *)
(*                                                                         *)
(* A fragment carries at most max_entity_fragment bytes and every          *)
(* reservation is a multiple of that, so bytes are counted in fragments.   *)
(* The length checks of store_fragment_ then never fail: an active         *)
(* assembly has room for its count of full fragments.                      *)
(*                                                                         *)
(* A part is <<index, message>>: the payload is abstracted to the message  *)
(* the sender cut it from, which is what lets a property see two messages  *)
(* mixed into one value.                                                   *)
(***************************************************************************)
EXTENDS Integers, FiniteSets

CONSTANTS
  Entities,     \* entity indices
  MaxAssembly,  \* max_assembly_bytes / max_entity_fragment: 6 in the code
  MaxTotal,     \* max_total_fragment_bytes / max_entity_fragment: 24
  MaxPending,   \* ESPNOW_MAX_PENDING_FRAGMENT_ASSEMBLIES: 8
  CounterSpan,  \* 2^32: tx_counter is a uint32_t
  SizeSpan      \* 2^32 bytes: the reserved total is an unsigned size_t

ASSUME AssemblyAssumption ==
  /\ MaxAssembly \in Nat \ {0} /\ MaxTotal \in Nat /\ MaxPending \in Nat \ {0}
  /\ CounterSpan \in Nat \ {0} /\ SizeSpan \in Nat \ {0}
  /\ MaxTotal + MaxAssembly < SizeSpan

\* Mutant: any other counter counts as newer.
CounterDiffers(candidate, previous) == candidate # previous

\* static_cast<int32_t>(candidate - previous) > 0
CounterIsNewer(candidate, previous) ==
  (candidate - previous) % CounterSpan \in 1 .. (CounterSpan \div 2) - 1

\* std::max on counters compares them as plain unsigned numbers.
LaterCounter(a, b) == IF a >= b THEN a ELSE b

MessageTxBase(tx, index) == (tx - index) % CounterSpan

-----------------------------------------------------------------------------
\* espnow_fragment_assembly_t; flag is MORE_DIRTY.
Inactive == [active |-> FALSE, base |-> 0, count |-> 0, parts |-> {}, flag |-> FALSE]

NoEntry == [none |-> TRUE]

EmptyTable == [asm |-> [e \in Entities |-> NoEntry], reserved |-> 0]

Entries(t) == {e \in Entities : t.asm[e] # NoEntry}

Indices(asm) == {part[1] : part \in asm.parts}

\* Mutant: message_tx_base is not compared.
StoreRefusedByCount(asm, f) == IF asm.active THEN asm.count # f.count ELSE f.count > MaxAssembly

\* store_fragment_ refuses: a new message too long, or a fragment of another
\* message than the one being assembled.
StoreRefused(asm, f) ==
  IF asm.active THEN asm.base # f.base \/ asm.count # f.count
                ELSE f.count > MaxAssembly

\* The bridge takes the flags of the last fragment over those of the first seen.
BridgeStore(asm, f) ==
  LET a == IF asm.active THEN asm
           ELSE [active |-> TRUE, base |-> f.base, count |-> f.count, parts |-> {},
                 flag |-> f.flag]
      b == IF f.index = f.count - 1 THEN [a EXCEPT !.flag = f.flag] ELSE a
  IN IF f.index \in Indices(b) THEN b
     ELSE [b EXCEPT !.parts = @ \cup {<<f.index, f.msg>>}]

\* The remote keeps the flags of the first fragment seen.
RemoteStore(asm, f) ==
  LET a == IF asm.active THEN asm
           ELSE [active |-> TRUE, base |-> f.base, count |-> f.count, parts |-> {},
                 flag |-> f.flag]
  IN IF f.index \in Indices(a) THEN a
     ELSE [a EXCEPT !.parts = @ \cup {<<f.index, f.msg>>}]

\* Mutant: the last fragment is waited for one index too far.
CompleteTooLate(asm) == asm.active /\ Indices(asm) = 0 .. asm.count

Complete(asm) == asm.active /\ Indices(asm) = 0 .. asm.count - 1

\* assemble_fragment_payload_
Assembled(asm) == {part[2] : part \in asm.parts}

-----------------------------------------------------------------------------
\* The table once the fragment's entity has an entry: a new entry reserves its
\* bytes; an unfinished older message gives way, and keeps its reservation.
Admit(t, f) ==
  LET asm == t.asm[f.entity] IN
  IF asm = NoEntry
    THEN [asm |-> [t.asm EXCEPT ![f.entity] = Inactive],
          reserved |-> (t.reserved + f.count) % SizeSpan]
  ELSE IF asm.active /\ asm.base # f.base /\ asm.base < f.base
    THEN [t EXCEPT !.asm[f.entity] = Inactive]
  ELSE t

\* The byte cap counts the bytes a new entry has just reserved a second time.
OverCap(t, f) ==
  ~t.asm[f.entity].active /\ (t.reserved + f.count) % SizeSpan > MaxTotal

\* What is left of the table when a message is complete or has expired.
Release(t, e) ==
  [asm |-> [t.asm EXCEPT ![e] = NoEntry],
   reserved |-> (t.reserved - t.asm[e].count) % SizeSpan]

\* One fragment against the table, as handle_state_ (at the bridge) and
\* handle_command_ (at a remote) do it.  stored: the fragment counts
\* as seen; whole: the messages in a payload that is now complete.
Receive(t, f, atBridge) ==
  LET full  == t.asm[f.entity] = NoEntry /\ Cardinality(Entries(t)) >= MaxPending
      u     == Admit(t, f)
      asm   == IF atBridge THEN BridgeStore(u.asm[f.entity], f) ELSE RemoteStore(u.asm[f.entity], f)
      w     == [u EXCEPT !.asm[f.entity] = asm]
      drop(x) == [table |-> x, stored |-> FALSE, done |-> FALSE, whole |-> {}, flag |-> FALSE]
  IN IF full THEN drop(t)
     ELSE IF OverCap(u, f) \/ StoreRefused(u.asm[f.entity], f) THEN drop(u)
     ELSE IF ~Complete(asm)
       THEN [table |-> w, stored |-> TRUE, done |-> FALSE, whole |-> {}, flag |-> FALSE]
     ELSE [table |-> Release(w, f.entity), stored |-> TRUE, done |-> TRUE,
           whole |-> Assembled(asm), flag |-> asm.flag]

\* Assemblies that saw no fragment for ESPNOW_FRAGMENT_ASSEMBLY_TIMEOUT_MS.
\* An entry left inactive by a refusal has no timer and stays.
Expired(t, e) == IF t.asm[e] # NoEntry /\ t.asm[e].active THEN Release(t, e) ELSE t

-----------------------------------------------------------------------------
AssemblyType(messages) ==
  [active : BOOLEAN, base : Nat, count : 0 .. MaxAssembly,
   parts : SUBSET ((0 .. MaxAssembly - 1) \X messages), flag : BOOLEAN]

TableType(messages) ==
  [asm : [Entities -> {NoEntry} \cup AssemblyType(messages)], reserved : 0 .. SizeSpan - 1]
=============================================================================
