------------------------------ MODULE MCDeviceApi -----------------------------
(***************************************************************************)
(* Threads that share one device.                                          *)
(***************************************************************************)
EXTENDS DeviceApi

CONSTANTS t1, t2, dev, b1, b2, f1, f2, e1, e2, n1, n2

\* The user retains at most one of the objects.
OneHandle == [o \in Objects |-> 1]
TwoToOne == [o \in Objects |-> IF o = b1 THEN 2 ELSE 1]

\* Bound: the second filter exists only while the second thread is in no call, the
\* user has one handle to the buffer, no parameter of the device has been set since
\* its commit and there is no error function.
SmallCrowd ==
  f2 \in live => Idle(t2) /\ user[b1] < 2 /\ ~dirty /\ errorFunc = Nothing
===============================================================================
