------------------------------- MODULE MCBoot -------------------------------
\* A stick with the payload and no label, a disk that has the label and not the
\* payload, a stick with both, and a device without a file system.
EXTENDS Boot

CONSTANTS copied, decoy, flashed, blank

MCDevices  == {copied, decoy, flashed, blank}
MCCarriers == {copied, flashed}
MCForeign  == {decoy}
MCLabelled == {decoy, flashed}
=============================================================================
