------------------------------- MODULE MCFqdp -------------------------------
(***************************************************************************)
(* An instance of Fqdp for TLC: bytes 0 to 3, two-byte lengths, Handshakes *)
(* whose payload begins with one byte for the version and one for the      *)
(* token's length, and streams with every kind of frame in them.            *)
(***************************************************************************)
EXTENDS Fqdp, TLC

Texts == 1 :> 1 @@ 2 :> 0 @@ 3 :> 2 @@ 4 :> 1

\* A Handshake without payload and one with a token, one whose token is cut off.
Handshakes == {<<0, 1, 1, 1, 0, 1, 0, 1, 2>>, <<0, 3, 1, 3, 1>>}
\* A frame of another type; that, before or after an empty frame, itself, a
\* Handshake without token length, a frame that is too long, one that is torn.
Simple == <<0, 1, 3>>
Pieces == {<<0, 0>>, Simple, <<0, 2, 1, 0>>, <<2, 0, 0, 1>>}
Streams == Handshakes \cup {piece \o Simple : piece \in Pieces}
                      \cup {Simple \o piece : piece \in Pieces \cup {<<0>>}}

\* One client sends any of them, the other nothing.
CONSTANTS c1, c2
StreamOf == c1 :> Streams @@ c2 :> {<<>>}
=============================================================================
