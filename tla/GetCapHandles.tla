---------------------------- MODULE GetCapHandles ----------------------------
(***************************************************************************)
(* The virtualised TPM2_GetCapability(TPM2_CAP_HANDLES, transient range)   *)
(* of src/src/resource-manager.c: get_cap_handles walks the connection's   *)
(* HandleMap keys, sorted with handle_compare, through                     *)
(* vhandle_iterator_callback, and build_cap_handles_response lays the      *)
(* result out as the response parameter area.                              *)
(*                                                                         *)
(* Both are pure functions of (keys, prop, prop_count).  The state below   *)
(* is one input, chosen in Init and never changed, so TLC evaluates the    *)
(* properties on every input of the bounded domain.                        *)
(*                                                                         *)
(* Transient handles are TPM2_HT_TRANSIENT << 24 plus an offset; the       *)
(* model carries the offset and puts the handle type back in when it       *)
(* encodes bytes (a full handle does not fit TLC's 32-bit signed ints).    *)
(***************************************************************************)
EXTENDS Naturals, Sequences, SequencesExt, TLC

CONSTANTS
  MaxVHandleOffset, \* vhandles are TPM2_HT_TRANSIENT handles 0..this offset
  MaxPropCount      \* largest propertyCount a client asks for

ASSUME MaxVHandleOffset \in Nat /\ MaxPropCount \in Nat

TPM2_HT_TRANSIENT == 128  \* top byte of every transient handle
TPM_HEADER_SIZE == 10
TPM2_CAP_HANDLES == 1

VOffsets == 0..MaxVHandleOffset

VARIABLES
  keyList,   \* handle_map_get_keys: the map's vhandles, in hash-table order
  prop,      \* the command's property (first handle wanted), as an offset
  propCount  \* the command's propertyCount

vars == <<keyList, prop, propCount>>

\* handle_compare: three-way comparison of two handles.
HandleCompare(a, b) == IF a < b THEN -1 ELSE IF a > b THEN 1 ELSE 0

\* Mutant: the collection bound tested with <= instead of <.
VhandleIteratorCallbackOffByOne(state, vhandle) ==
  IF vhandle < state.start_handle THEN state
  ELSE IF ~(Len(state.handles) <= state.max_count)
       THEN [state EXCEPT !.more_data = TRUE]
       ELSE [state EXCEPT !.handles = Append(@, vhandle)]

\* vhandle_iterator_callback: skip handles below start_handle; once
\* max_count handles are collected only record that more exist.
VhandleIteratorCallback(state, vhandle) ==
  IF vhandle < state.start_handle THEN state
  ELSE IF ~(Len(state.handles) < state.max_count)
       THEN [state EXCEPT !.more_data = TRUE]
       ELSE [state EXCEPT !.handles = Append(@, vhandle)]

\* get_cap_handles: g_list_sort with handle_compare, then g_list_foreach.
GetCapHandles(keys, p, count) ==
  FoldLeft(VhandleIteratorCallback,
           [handles |-> <<>>, max_count |-> count,
            more_data |-> FALSE, start_handle |-> p],
           SortSeq(keys, LAMBDA a, b : HandleCompare(a, b) < 0))

\* htobe32 of a 32-bit value, and of a transient handle given as an offset.
Bytes32(v) == <<(v \div 2^24) % 256, (v \div 2^16) % 256, (v \div 2^8) % 256, v % 256>>

\* Mutant: HANDLE_SET without htobe32 (host order on a little-endian host).
HandleBytesHostOrder(off) ==
  <<off % 256, (off \div 2^8) % 256, (off \div 2^16) % 256, TPM2_HT_TRANSIENT + off \div 2^24>>
HandleBytes(off) ==
  <<TPM2_HT_TRANSIENT + off \div 2^24, (off \div 2^16) % 256, (off \div 2^8) % 256, off % 256>>

\* CAP_RESP_SIZE: header, TPMI_YES_NO, TPM2_CAP, count, the handles.
CapRespSize(n) == TPM_HEADER_SIZE + 1 + 4 + 4 + 4 * n

\* build_cap_handles_response: the size written in the header and the
\* parameter bytes after it (YES_NO_SET, CAP_SET, HANDLE_COUNT_SET,
\* HANDLE_SET).
BuildCapHandlesResponse(st) ==
  [size   |-> CapRespSize(Len(st.handles)),
   params |-> <<IF st.more_data THEN 1 ELSE 0>>
              \o Bytes32(TPM2_CAP_HANDLES)
              \o Bytes32(Len(st.handles))
              \o FlattenSeq([i \in DOMAIN st.handles |-> HandleBytes(st.handles[i])])]

Init ==
  /\ keyList \in UNION {SetToSeqs(S) : S \in SUBSET VOffsets}
  /\ prop \in 0..MaxVHandleOffset + 1
  /\ propCount \in 0..MaxPropCount

Next == UNCHANGED vars

Spec == Init /\ [][Next]_vars

-----------------------------------------------------------------------------
(* Reference definitions, from TPM2 Part 3 GetCapability.                  *)

\* The handles >= property in ascending order, at most propertyCount of
\* them; moreData says whether any were left out.
ExpectedHandles(keys, p, count) ==
  LET sel == SetToSortSeq({k \in Range(keys) : k >= p}, <)
  IN [handles   |-> SubSeq(sel, 1, IF count < Len(sel) THEN count ELSE Len(sel)),
      more_data |-> Len(sel) > count]

\* A client's unmarshalling of the response parameters.
Be32At(s, i) == ((s[i] * 256 + s[i + 1]) * 256 + s[i + 2]) * 256 + s[i + 3]
HandleAt(s, i) == Be32At(<<s[i] - TPM2_HT_TRANSIENT, s[i + 1], s[i + 2], s[i + 3]>>, 1)
ParseCapHandles(r) ==
  LET n == Be32At(r.params, 6) IN
  [more_data  |-> r.params[1] = 1,
   capability |-> Be32At(r.params, 2),
   handles    |-> [k \in 1..n |-> HandleAt(r.params, 10 + 4 * (k - 1))]]

-----------------------------------------------------------------------------
(* Properties.                                                              *)

Result == GetCapHandles(keyList, prop, propCount)

\* get_cap_handles returns exactly the handles >= prop, ascending, never
\* more than prop_count of them, and sets more_data exactly when it left
\* some out -- whatever order the HandleMap hands its keys over in.
GetCapHandlesCorrect ==
  [handles |-> Result.handles, more_data |-> Result.more_data]
    = ExpectedHandles(keyList, prop, propCount)

\* The response build_cap_handles_response lays out is as long as the size
\* it declares, and a client parsing it gets back the capability, the
\* more_data flag and the handles get_cap_handles collected.
CapResponseRoundTrip ==
  LET r == BuildCapHandlesResponse(Result) IN
  /\ TPM_HEADER_SIZE + Len(r.params) = r.size
  /\ ParseCapHandles(r) = [more_data  |-> Result.more_data,
                           capability |-> TPM2_CAP_HANDLES,
                           handles    |-> Result.handles]
=============================================================================
