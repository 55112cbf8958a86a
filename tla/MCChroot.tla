------------------------------- MODULE MCChroot -------------------------------
\* Small instances of Chroot for TLC.
EXTENDS Chroot, TLC

=============================================================================
