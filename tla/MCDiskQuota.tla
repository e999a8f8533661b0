---------------------------- MODULE MCDiskQuota ----------------------------
EXTENDS DiskQuota

(* Below the warning, both sides of 95 percent, and above the limit.       *)
MCPercents == {80, 92, 97, 105}
=============================================================================
