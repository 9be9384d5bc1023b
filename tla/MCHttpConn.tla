----------------------------- MODULE MCHttpConn -----------------------------
(* Clients for TLC: two requests on one connection, one with a body, one   *)
(* without a request line, one with a bare line end, one that is too long. *)
EXTENDS HttpConn

Line(w) == <<w, "cr", "lf">>
End == <<"cr", "lf">>
Keep == Line("GET") \o Line("keep") \o End
Post == Line("GET") \o Line("length") \o End \o <<"body">>
Bad == Line("other") \o End
Bare == <<"GET", "cr">> \o Line("keep") \o End
Long == Line("GET") \o Line("other") \o Line("other") \o End
MCClients == {<<Keep, Keep>>, <<Post>>, <<Bad>>, <<Bare>>, <<Long>>}
=============================================================================
