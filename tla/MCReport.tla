------------------------------ MODULE MCReport ------------------------------
(***************************************************************************)
(* One consumer, pages of two records and up to three records, in each of  *)
(* the five reports.  The records have the shapes the parser tells apart:  *)
(* fields a model declares and one it does not, an empty text, repeated    *)
(* actions and products, a nested plan.  The third subscription has no     *)
(* plan, and its element is empty.  An error page is HTML: it may be XML   *)
(* as well, or not.                                                        *)
(***************************************************************************)
EXTENDS Report, TLC

CONSTANT c1

MCConsumers == {c1}

Id(r, n) == IdField[r] :> Text(ToString(n))

Action(type) == Record([action_type |-> Text(type), success |-> Text("1")])
Product(sku) == Record([sku |-> Text(sku)])
Gold == Record([plan_id |-> Text("gold"), plan_amount |-> Text("49.00")])

MCContent ==
  [transaction |->
     << Id("transaction", 1) @@ [actions |-> List(<<Action("sale"), Action("settle")>>)],
        Id("transaction", 2)
          @@ [actions |-> List(<<Action("auth")>>), order_id |-> Text(""),
              products |-> List(<<Product("RS-100"), Product("RS-200")>>)],
        Id("transaction", 3) >>,
   customer |->
     << Id("customer", 1) @@ [first_name |-> Text("Jane")],
        Id("customer", 2) @@ [loyalty |-> Text("7")],
        Id("customer", 3) @@ [loyalty |-> Record([points |-> Text("7")])] >>,
   subscription |->
     << Id("subscription", 1) @@ [plan |-> Gold],
        Id("subscription", 2),
        Id("subscription", 3) @@ [plan |-> Text("")] >>,
   plan |->
     << Id("plan", 1) @@ [plan_name |-> Text("Gold")], Id("plan", 2), Id("plan", 3) >>,
   invoice |->
     << Id("invoice", 1) @@ [status |-> Text("open")],
        Id("invoice", 2)
          @@ [products |-> List(<<Product("RS-100"), Product("RS-200")>>)],
        Id("invoice", 3) >>]

\* A body that cannot be decoded, redirects (which a borrowed httpx client may
\* follow), a closed httpx client, and interruptions of a task or the program.
MCUncaught ==
  {"DecodingError", "TooManyRedirects", "InvalidURL", "RuntimeError", "CancelledError",
   "KeyboardInterrupt"}

MCBrokenPages == {Malformed}
MCXmlPages == {Xml(Node("html", <<Node("body", <<Leaf("h1", "502 Bad Gateway")>>)>>))}
=============================================================================
