---------------------------- MODULE MCEventLoop ----------------------------
(* Two threads and the loop itself post two functors; one channel.          *)
EXTENDS EventLoop
CONSTANTS f1, f2, t1, t2, c1
MCTwoFunctors == {f1, f2}
MCTwoThreads == {t1, t2}
MCOneChannel == {c1}
============================================================================
