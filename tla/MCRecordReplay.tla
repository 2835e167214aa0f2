--------------------------- MODULE MCRecordReplay ---------------------------
(***************************************************************************)
(* Programs for the model checker.  In Distinct no two tasks can make the  *)
(* same request; in Alike they can.                                        *)
(***************************************************************************)
EXTENDS RecordReplay

call(r)  == [op |-> "call", of |-> r]
pass(r)  == [op |-> "pass", of |-> r]
spawn(k) == [op |-> "spawn", of |-> k]
await(k) == [op |-> "await", of |-> k]
compute  == [op |-> "compute", of |-> 0]
stop     == [op |-> "stop", of |-> 0]

Prog(p0, p1, p2) == [t \in Task |-> CASE t = 0 -> p0 [] t = 1 -> p1 [] OTHER -> p2]

Both == <<spawn(1), spawn(2), await(1), await(2)>>

Distinct ==
  { Prog(<<call("a"), pass("b"), compute, pass("b"), call("a"), pass("b")>>, <<>>, <<>>),
    Prog(<<call("a"), pass("d"), call("y"), pass("b")>>, <<>>, <<>>),
    Prog(<<spawn(1), call("c"), await(1)>>, <<call("a"), call("y"), pass("d")>>, <<>>),
    Prog(Both, <<call("a"), pass("b")>>, <<compute, call("c")>>),
    Prog(<<spawn(1), call("c"), pass("c"), await(1)>>, <<call("a"), pass("b")>>, <<>>),
    Prog(<<spawn(1), call("c"), stop, await(1)>>, <<call("a"), pass("b")>>, <<>>),
    Prog(<<spawn(1), await(1), pass("c")>>, <<spawn(2), call("a"), await(2)>>, <<call("b")>>) }

Alike ==
  { Prog(Both, <<call("a"), call("x")>>, <<compute, call("x")>>) }

(* "y" is refused always, "d" when it passes "w" on.                       *)
Refusable == {<<"y", Nothing>>, <<"d", "w">>}

=============================================================================
