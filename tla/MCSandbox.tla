------------------------------ MODULE MCSandbox ------------------------------
(***************************************************************************)
(* Three bits, one of them not granted.  The operations stand for the      *)
(* kinds that occur: one bit (fs.read, fs.write), two bits at once         *)
(* (fs.open), a bit that is missing (net.fetch) and a binding, decided by  *)
(* any bit of its group (__koss_bindings("fs")).                           *)
(***************************************************************************)
EXTENDS Sandbox

MCCap == {"FS_READ", "FS_WRITE", "NET_FETCH"}
MCGranted == {"FS_READ", "FS_WRITE"}
MCOp == {"fs.read", "fs.write", "fs.open", "net.fetch", "binding"}
MCNeed ==
  [op \in MCOp |->
     CASE op = "fs.read" -> {"FS_READ"}
       [] op = "fs.write" -> {"FS_WRITE"}
       [] op \in {"fs.open", "binding"} -> {"FS_READ", "FS_WRITE"}
       [] op = "net.fetch" -> {"NET_FETCH"}]
MCAnyBit == {"binding"}
=============================================================================
