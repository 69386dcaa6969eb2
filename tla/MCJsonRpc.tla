----------------------------- MODULE MCJsonRpc ------------------------------
\* Two clients of a server with methods like those of app_servidor1 and 2.
EXTENDS JsonRpc, TLC

CONSTANTS c1, c2

Taking(r, t, v) == [required |-> r, total |-> t, variadic |-> v]
MCMethods ==
  [mix |-> Taking(1, 2, FALSE), divide |-> Taking(2, 2, FALSE),
   sum |-> Taking(0, 1, TRUE)]

Named(m, n, notify) == [method |-> m, args |-> n, notify |-> notify]
MCCalls ==
  (<<c1, 1>> :> {Named("mix", 0, FALSE), Named("divide", 2, FALSE)})
  @@ (<<c1, 2>> :> {Named("sum", 3, TRUE)})
  @@ (<<c2, 1>> :> {Named("sum", 2, FALSE)})
MCMaxCalls == c1 :> 2 @@ c2 :> 1
=============================================================================
