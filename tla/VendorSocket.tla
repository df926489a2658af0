---------------------------- MODULE VendorSocket ----------------------------
(***************************************************************************)
(* A client socket of the ws package, as the speech adapters use it.  The  *)
(* package is not part of the repository: this is the part of its          *)
(* behaviour that open(), send(), close() and the handlers rely on.        *)
(*                                                                         *)
(*   "connecting"  the handshake runs                                      *)
(*   "open"        both ways                                               *)
(*   "closing"     this side has called close(): messages still come in    *)
(*   "aborting"    this side has called close() during the handshake       *)
(*   "lost"        the peer has closed, or the connection broke: only the  *)
(*                 close event is still to come                            *)
(*   "closed"      that event has been handled                             *)
(***************************************************************************)
EXTENDS Sequences

Sock == {"connecting", "open", "closing", "aborting", "lost", "closed"}

\* close(), at any time
WsClose(sock) ==
    CASE sock = "connecting" -> "aborting"
      [] sock = "open" -> "closing"
      [] OTHER -> sock

\* send(), once the handshake is over: what cannot be sent is dropped silently
Sent(sock, wire, frames) == IF sock = "open" THEN wire \o frames ELSE wire

MayOpen(sock) == sock = "connecting"
MayReceive(sock) == sock \in {"open", "closing"}
MayFail(sock) == sock \in {"connecting", "aborting", "open"}   \* an error event
MayEnd(sock) == sock = "open"               \* the peer's close frame comes in
MayClose(sock) == sock \in {"closing", "lost"}                 \* the close event
=============================================================================
