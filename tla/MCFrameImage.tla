---------------------------- MODULE MCFrameImage ------------------------------
(* The presets in the resolutions their videos come back in. *)
EXTENDS FrameImage

Video(preset, width, height) == [preset |-> preset, width |-> width, height |-> height]

MCVideos ==
       {Video("weave", s[1], s[2]) :
          s \in {<<426, 240>>, <<640, 360>>, <<854, 480>>, <<1280, 720>>}}
  \cup {Video("tiktok", s[1], s[2]) :
          s \in {<<480, 854>>, <<576, 1024>>, <<720, 1280>>}}
  \cup {Video("hq", 1280, 720), Video("square", 720, 720), Video("dense", 1280, 720),
        Video("default", 854, 480)}

MCShifts == {s \in (-3..3) \X (-3..3) : s[1] * s[1] + s[2] * s[2] <= 9}

Light(black, white, noise, blur) ==
  [black |-> black, white |-> white, noise |-> noise, blur |-> blur]

MCLights == {Light(0, 255, 0, 0), Light(16, 235, 8, 1), Light(60, 160, 8, 1)}

(* The grid the comment on TikTokFrameConfig computes for both ends. *)
ASSUME TikTokGrid == Columns(TikTok) = 24 /\ Rows(TikTok) = 40
=============================================================================
