---------------------------- MODULE MCImageBuild ----------------------------
(***************************************************************************)
(* The lists of os/config, as far as a step relies on one, and the one for *)
(* --gpu nvidia, which has no file.                                        *)
(***************************************************************************)
EXTENDS ImageBuild

MCLists == {"base", "boot", "graphics", "java", "nvidia"}
MCPresent == {"base", "boot", "graphics", "java"}

\* The initramfs hook is copied into a directory that initramfs-tools makes;
\* systemctl is in the base list and the unit seatd.service in graphics.
MCNeeds == [bootstrap |-> {"boot"}, configure |-> {"base", "graphics"}]

MCRequests == [lists : {<<"base", "boot", "graphics", "java">>, <<"base", "boot">>},
               nvidia : BOOLEAN, keepRootfs : BOOLEAN, allowNoAgent : BOOLEAN]
=============================================================================
