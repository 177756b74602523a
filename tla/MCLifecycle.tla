---------------------------- MODULE MCLifecycle ----------------------------
(* A daemon, a --stop, and a third run: another daemon, the mediator and    *)
(* the rating engine in the foreground, or a --test.                        *)
EXTENDS Lifecycle, TLC

CONSTANTS d, k, x

Cmd(m, s) == [mode |-> m, services |-> s]
MCLoads == {Services, {"cc", "cdrm"}}
MCOptions ==
  d :> {Cmd("bg", {"cc"})} @@ k :> {Cmd("stop", {})}
    @@ x :> {Cmd("bg", {"rt"}), Cmd("fg", {"cdrm", "rt"}), Cmd("test", {})}
=============================================================================
