----------------------------- MODULE MCFraming -----------------------------
(***************************************************************************)
(* Framing with messages of every class, chosen so that the buffers of the *)
(* sender and of the receiver must grow or not, the key fits KeyLen or     *)
(* not, and the receiver understands the message or not.                   *)
(***************************************************************************)
EXTENDS Framing

F == <<222, 173, 190, 239>>  \* flags
X == <<202, 254, 186, 190>>  \* expiration

MCOutgoing ==
  {Request(kOpGet, <<>>, <<>>, <<1>>, <<>>),
   Request(kOpGet, <<>>, <<>>, <<1, 2, 3, 4>>, <<>>),
   Request(kOpSet, F, X, <<1>>, <<7>>),
   Request(kOpSet, F, X, <<1>>, <<7, 8, 9>>),
   Request(kOpSet, F, X, <<1>>, <<>>),
   Request(kOpSet, F, X, <<1, 2, 3, 4, 5>>, <<7, 8>>),
   Request(2, F, X, <<1>>, <<7>>),
   Response(kOpGet, 0, F, <<7, 8>>),
   Response(kOpGet, 1, Fill(0, 4), <<>>),
   Response(kOpSet, 0, <<>>, <<>>)}
=============================================================================
