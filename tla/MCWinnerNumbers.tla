-------------------------- MODULE MCWinnerNumbers --------------------------
(***************************************************************************)
(* WinnerNumbers for TLC.  The 64 words and the bound of 64 winners are    *)
(* scaled to 4 together; the arguments run over every case of the clamp    *)
(* (no member, fewer members than prizes, as many, more), one call above   *)
(* the bound of get_seeds, and a member count above 255, where the index   *)
(* no longer fits winner_num.                                              *)
(***************************************************************************)
EXTENDS WinnerNumbers

\* Words of the hash: small ones, the largest, one whose upper half is not
\* zero and that the generator sends to 0, and the members of the short
\* cycles of the generator (0 and 43878 are fixed points, 960 and 42918
\* exchange each other).
MCSeedValues ==
    { U32(0, 0), U32(0, 1), U32(0, 2), U32(0, 7), U32(0, 960), U32(0, 42918),
      U32(0, 43878), U32(64631, 42627), U32(65535, 65535), U32(4660, 22136) }

MCMemberCounts == {0, 1, 2, 3, 4, 5, 300}
MCWinnerCounts == 0 .. 5

\* Known answers of the C expressions, computed with uint32_t arithmetic.
ASSUME Reseed(U32(0, 1)) = U32(0, 16838)
ASSUME Reseed(U32(0, 960)) = U32(0, 42918)
ASSUME Reseed(U32(0, 42918)) = U32(0, 960)
ASSUME Reseed(U32(0, 43878)) = U32(0, 43878)
ASSUME Reseed(U32(64631, 42627)) = U32(0, 0)
ASSUME Reseed(U32(65535, 65535)) = U32(0, 48697)
ASSUME Reseed(U32(4660, 22136)) = U32(0, 2929)
ASSUME Mod32(U32(65535, 65535), 300) = 195
ASSUME Mod32(U32(4660, 22136), 7) = 5
=============================================================================
