---------------------------- MODULE MCSerialHost ----------------------------
(* SerialProtocol and its SDO servers for TLC: four servers with one of    *)
(* two tables in their memory.                                             *)
EXTENDS SerialHost, TLC

Record(state, size, bufsize, app, tog) ==
  [state |-> state, size |-> size, bufsize |-> bufsize, bufcnt |-> 0,
   app |-> app, at |-> 0, tog |-> tog]

(* A download to a buffer that is smaller than a segment, and one whose    *)
(* toggle bits 0 and 4 differ; an upload with a short last segment, and    *)
(* one with none.  Or records that are out of order.                       *)
MCMemory == {0 :> Record("WRITECB", 9, 4, TRUE, {}) @@ 1 :> Record("READ", 9, 9, FALSE, {0, 4})
             @@ 2 :> Record("WRITE", 9, 9, FALSE, {4}) @@ 3 :> Record("READ", 7, 7, FALSE, {}),
             0 :> Record("WRITE", 7, 0, TRUE, {0}) @@ 1 :> Record("READ", 9, 4, TRUE, {})
             @@ 2 :> Record("OTHER", 7, 7, FALSE, {}) @@ 3 :> Record("READ", 0, 0, FALSE, {})}

(* The device has three transfers open at first; that of server 3 is only  *)
(* open on the host, that of server 2, in the second table, on the device. *)
MCOpened == {{0, 1, 2}}

Part(tog, n, last) == [cmd |-> "download", tog |-> tog, n |-> n, last |-> last]
Other(cmd, tog) == [cmd |-> cmd, tog |-> tog, n |-> 0, last |-> FALSE]
ToServer(s, r) == [letter |-> "F", server |-> s, request |-> r]
MCUnasked ==
  {ToServer(0, r) : r \in {Part(0, 7, FALSE), Part(1, 2, TRUE), Part(1, 7, FALSE),
                           Other("abort", 0), Other("unknown", 0)}}
  \union {ToServer(1, r) : r \in {Other("upload", 0), Other("upload", 1), Part(0, 7, FALSE)}}
  \union {ToServer(2, Part(0, 7, FALSE)), ToServer(3, Other("upload", 0)),
          ToServer(4, Other("other", 0)), [letter |-> "D"], [letter |-> "empty"]}
=============================================================================
