------------------------------ MODULE MCSettings ------------------------------
EXTENDS Settings, TLC

Symmetry == Permutations(Procs)

\* No file, one with old and impossible values, one with relative paths and
\* more digits than are printed, one with a key twice and unknown keys.
Files ==
  {<<>>,
   <<<<"clip_length", "soon">>, <<"audio", "off">>, <<"video", "x11">>,
     <<"encoder", "vaapi">>, <<"keybind", "">>>>,
   <<<<"directory", "clips">>, <<"sound_path", "clips">>,
     <<"volume", "0.1234567">>, <<"audio_source", "">>>>,
   <<<<"clip_length", "60">>, <<"theme", "dark">>, <<"clip_length", "0">>,
     <<"audio", "on">>, <<"audio", "maybe">>, <<"volume", "2">>>>}
=============================================================================
