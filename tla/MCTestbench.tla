----------------------------- MODULE MCTestbench -----------------------------
EXTENDS PinwheelTB, MCCore

MCMessage == [k \in 0 .. 1 |-> LowByte(IF k = 0 THEN 65 ELSE 10)]

(* Hart 0 starts and stops hart 1, loads and stores; so does hart 1.       *)
DeviceImages == Images({1, 5, 6}, {6}) \union Images({1, 5}, {5, 6})

(* r3 of the two harts points to a console, to the data RAM, to the        *)
(* registers of the UART or to the debug register.                         *)
TBFile(q0, q1) == [File(0, q0) EXCEPT ![7] = q1]

TxData == 176 + 1
RxData == 176 + 5
DeviceFiles == {TBFile(64, TxData), TBFile(128 + 1, RxData), TBFile(240, 128)}
=============================================================================
