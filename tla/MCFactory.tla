----------------------------- MODULE MCFactory -----------------------------
(* A small instance of Factory: two signers, three, or two of them listed as three. *)
EXTENDS Factory, TLC

CONSTANTS s1, s2, s3, gov

Lists == {<<>>, <<s1, s2>>, <<s1, s2, s3>>, <<s1, s2, s1>>}

\* Every group of two signers, one of them in both orders; nobody, one signer, the
\* setter alone, a signer twice, and a signer with a stranger.
Groups ==
    {<<>>, <<s1>>, <<s2>>, <<gov>>, <<s1, s2>>, <<s2, s1>>, <<s2, s3>>, <<s3, s1>>,
     <<s2, s2>>, <<s1, gov>>}

Symmetry == Permutations(Tokens)
=============================================================================
