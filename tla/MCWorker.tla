------------------------------ MODULE MCWorker ------------------------------
(* Model-checking instance of Worker: SIGABRT and SIGSEGV crash, SIGTERM   *)
(* and the signal 32, which libc reserves, terminate, and the guest exits  *)
(* with codes that look like reports.                                      *)
EXTENDS Worker

MCCrashSignals == {6, 11}
MCOtherSignals == {15, 32}
MCReservedSignals == {32}
MCSIGKILL == 9
MCExitCodes == {0, 126, 139, 256}
=============================================================================
