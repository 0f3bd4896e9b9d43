------------------------------ MODULE FrameImage ------------------------------
(***************************************************************************)
(* A frame as a picture.  The encoder draws a bar of black and white       *)
(* quarters and below it a grid of gray squares.  The video comes back in  *)
(* another resolution, shifted, blurred, with other levels and with noise, *)
(* and the decoder looks for the squares: it knows the grid of each        *)
(* candidate configuration, scales it to the picture, takes its thresholds *)
(* from the bar, and tries small changes of each until a checksum fits.    *)
(*                                                                         *)
(* Only edges and levels are modelled, one axis at a time: a sampled pixel *)
(* is pure when all it shows lies in the square it is taken for, and what  *)
(* an impure pixel shows is left open.                                     *)
(***************************************************************************)
EXTENDS Integers, Sequences, FiniteSets

CONSTANTS
  Videos,  (* the preset and the size of the picture that comes back       *)
  Shifts,  (* pixels the picture is shifted by, to the right and down      *)
  Lights   (* what black and white come back as, the noise around them and *)
           (* the blur: how many pixels around one show in it              *)

ASSUME ImageAssumption ==
  /\ \A v \in Videos : /\ v.width \in Nat /\ v.width >= 32
                       /\ v.height \in Nat /\ v.height >= 32
  /\ \A s \in Shifts : s[1] \in Int /\ s[2] \in Int
  /\ \A l \in Lights : 0 <= l.black /\ l.black <= l.white /\ l.white <= 255
                       /\ l.noise \in Nat /\ l.blur \in Nat

VARIABLES
  video, shift, light,  (* the picture                              *)
  candidate,            (* the configuration that is tried          *)
  attempt,              (* the attempt with it                      *)
  outcome               (* "reading", "read" or "failed"            *)

picture == <<video, shift, light>>
imageVars == <<video, shift, light, candidate, attempt, outcome>>

-----------------------------------------------------------------------------
(* The configurations, and those a decoder tries for a preset *)

FrameConfig(width, height, macro, bar, levels) ==
  [Width |-> width, Height |-> height, MacroSize |-> macro,
   CalibrationHeight |-> bar, GrayLevels |-> levels]

Default     == FrameConfig(1280, 720, 16, 16, 2)
HighDensity == FrameConfig(1280, 720, 10, 16, 4)
Compact     == FrameConfig(640, 360, 8, 8, 2)
HQ          == FrameConfig(1920, 1080, 24, 16, 2)
Square      == FrameConfig(1080, 1080, 24, 24, 2)
TikTok      == FrameConfig(1080, 1920, 45, 90, 2)

ConfigOf(preset) ==
  CASE preset = "weave"  -> Compact
    [] preset = "tiktok" -> TikTok
    [] preset = "hq"     -> HQ
    [] preset = "square" -> Square
    [] preset = "dense"  -> HighDensity
    [] OTHER             -> Default

Candidates ==
  <<ConfigOf(video.preset)>> \o
    CASE video.preset = "tiktok" -> <<HQ, Default, Square>>
      [] video.preset = "weave"  -> <<HighDensity, Default, HQ>>
      [] video.preset = "hq"     -> <<TikTok>>
      [] OTHER                    -> <<>>

Drawn == ConfigOf(video.preset)

Columns(cfg) == cfg.Width \div cfg.MacroSize
Rows(cfg) == (cfg.Height - cfg.CalibrationHeight) \div cfg.MacroSize

(* The gray values of the squares. *)
GrayLevels(cfg) == IF cfg.GrayLevels = 2 THEN <<0, 255>> ELSE <<32, 96, 160, 224>>

(* What an attempt changes. *)
Change(x, y, bar, threshold) ==
  [x |-> x, y |-> y, bar |-> bar, threshold |-> threshold, differential |-> FALSE]

Differential == [Change(0, 0, 0, 0) EXCEPT !.differential = TRUE]

Attempts ==
  <<Change(0, 0, 0, 0), Change(0, -1, 0, 0), Change(0, 1, 0, 0), Change(-1, 0, 0, 0),
    Change(1, 0, 0, 0), Change(0, 0, -1, 0), Change(0, 0, 1, 0), Change(0, 0, 0, -10),
    Change(0, 0, 0, 10)>>
  \o (IF video.preset \in {"weave", "tiktok"} THEN <<>>
      ELSE <<Change(0, 0, 0, -20), Change(0, 0, 0, 20)>>)
  \o <<Differential>>

-----------------------------------------------------------------------------
(* Numbers.  a/b to the nearest integer; a quotient of floats that is meant *)
(* to lie half way may lie on either side, so both results are looked at.   *)
Halves == {0, 1}

Round(a, b, half) == (2 * a + b - half) \div (2 * b)

Larger(a, b) == IF a < b THEN b ELSE a

Clamp(v, low, high) == IF v < low THEN low ELSE IF v > high THEN high ELSE v

Scaled(length, to, from) == Larger(4, (length * to + from \div 2) \div from)

(* Mutant: the bar keeps the height it was drawn with. *)
UnscaledBar(cfg) == cfg.CalibrationHeight

(* getScaledConfigFor *)
BarHeight(cfg) ==
  IF video.width = cfg.Width /\ video.height = cfg.Height THEN cfg.CalibrationHeight
  ELSE Scaled(cfg.CalibrationHeight, video.height, cfg.Height)

ScaledMacro(cfg) ==
  IF video.width = cfg.Width /\ video.height = cfg.Height THEN cfg.MacroSize
  ELSE Scaled(cfg.MacroSize, video.width, cfg.Width)

BarFor(cfg, change) == BarHeight(cfg) + change.bar * ScaledMacro(cfg)

-----------------------------------------------------------------------------
(* Where the decoder looks: intervals of pixels, <<first, behind the last>> *)

(* An interval between two edges is kept in the picture and not empty. *)
Span(from, to, limit) ==
  LET start == Clamp(from, 0, limit)
      end == Clamp(to, 0, limit)
  IN  <<start, IF end <= start THEN Clamp(start + 1, 0, limit) ELSE end>>

(* Its middle half, if that has two pixels. *)
Inset(span) ==
  LET length == span[2] - span[1]
      margin == IF length - 2 * (length \div 4) < 2 THEN 0 ELSE length \div 4
  IN  <<span[1] + margin, span[2] - margin>>

(* Mutant: squares of the scaled size are put side by side, so that the     *)
(* rounding of one adds up over all of them.                                *)
ColumnBySize(cfg, col, change, halves) ==
  Span(col * ScaledMacro(cfg) + change.x, (col + 1) * ScaledMacro(cfg) + change.x, video.width)

(* scaledMacroBounds: the edges of a column and of a row. *)
Column(cfg, col, change, halves) ==
  LET Edge(k, half) == Round(k * cfg.MacroSize * video.width, cfg.Width, half) + change.x
  IN  Span(Edge(col, halves[1]), Edge(col + 1, halves[2]), video.width)

Row(cfg, row, change, halves) ==
  LET bar == BarFor(cfg, change)
      Edge(k, half) ==
        bar + Round(k * cfg.MacroSize * (video.height - bar),
                    cfg.Height - cfg.CalibrationHeight, half) + change.y
  IN  Span(Edge(row, halves[1]), Edge(row + 1, halves[2]), video.height)

(* The parts of the bar that are measured: black, then white. *)
BarRows(cfg) ==
  LET margin == BarHeight(cfg) \div 4 IN <<margin, BarHeight(cfg) - margin>>

BarColumns(quarter) ==
  LET section == video.width \div 4
      margin == section \div 4
  IN  <<quarter * section + margin, (quarter + 1) * section - margin>>

-----------------------------------------------------------------------------
(* What is there to see.  Pixel p of a picture of `size` pixels shows       *)
(* source pixels of a drawing of `drawn` pixels: pure, if they lie between  *)
(* two edges of the drawing.                                                *)
Pure(p, moved, size, drawn, from, to) ==
  /\ (p - moved - light.blur) * drawn >= from * size
  /\ (p - moved + 1 + light.blur) * drawn <= to * size

PureColumn(p, from, to) == Pure(p, shift[1], video.width, Drawn.Width, from, to)
PureRow(p, from, to) == Pure(p, shift[2], video.height, Drawn.Height, from, to)

Pixels(span) == span[1]..(span[2] - 1)

(* How many of the pixels sampled for a column or a row are pure. *)
ColumnShare(col, change, halves) ==
  LET sample == Pixels(Inset(Column(Drawn, col, change, halves)))
  IN  [all |-> Cardinality(sample),
       pure |-> Cardinality({p \in sample :
                  PureColumn(p, col * Drawn.MacroSize, (col + 1) * Drawn.MacroSize)})]

RowShare(row, change, halves) ==
  LET sample == Pixels(Inset(Row(Drawn, row, change, halves)))
      top == Drawn.CalibrationHeight + row * Drawn.MacroSize
  IN  [all |-> Cardinality(sample),
       pure |-> Cardinality({p \in sample : PureRow(p, top, top + Drawn.MacroSize)})]

ColumnShares(change) ==
  {ColumnShare(col, change, halves) : col \in 0..(Columns(Drawn) - 1), halves \in Halves \X Halves}

RowShares(change) ==
  {RowShare(row, change, halves) : row \in 0..(Rows(Drawn) - 1), halves \in Halves \X Halves}

(* The smallest share: a pixel is pure if its column and its row are. *)
Least(shares) ==
  CHOOSE s \in shares : \A t \in shares : s.pure * t.all <= t.pure * s.all

(* The share of the pure pixels of a quarter of the bar. *)
BarShare(quarter) ==
  LET rows == Pixels(BarRows(Drawn))
      columns == Pixels(BarColumns(quarter))
      section == Drawn.Width \div 4
  IN  [all |-> Cardinality(rows) * Cardinality(columns),
       pure |-> Cardinality({p \in rows : PureRow(p, 0, Drawn.CalibrationHeight)})
                * Cardinality({p \in columns :
                    PureColumn(p, quarter * section, (quarter + 1) * section)})]

-----------------------------------------------------------------------------
(* Levels *)

Level(gray) == light.black + (gray * (light.white - light.black)) \div 255

Noisy(level, sign) == Clamp(level + sign * light.noise, 0, 255)

(* calibrateFrame and adjustThreshold *)
Threshold(black, white, change) ==
  LET middle == (black + white) \div 2
  IN  Clamp((IF middle = 0 THEN 128 ELSE middle) + change.threshold, 0, 255)

(* calibrateLevels *)
LevelThresholds(black, white) ==
  IF white - black < 10 THEN <<64, 128, 192>>
  ELSE <<black + (white - black) \div 6, black + (white - black) \div 2,
         black + (5 * (white - black)) \div 6>>

Thresholds(black, white, change) ==
  IF Drawn.GrayLevels = 2 THEN <<Threshold(black, white, change)>>
  ELSE LevelThresholds(black, white)

Value(average, thresholds) ==
  Cardinality({k \in DOMAIN thresholds : thresholds[k] <= average})

(* The average of a square of which at least a share is pure lies between   *)
(* the two; the rest may be as dark or as bright as anything there is.      *)
Average(level, share, sign) ==
  LET any == Noisy(IF sign < 0 THEN light.black ELSE light.white, sign)
  IN  (share.pure * Noisy(level, sign) + (share.all - share.pure) * any) \div share.all

(* Whatever the bar is measured to be, each level is told from the others. *)
Separated(share, change) ==
  \A low, high \in {-1, 1} :
    LET black == Average(light.black, BarShare(0), low)
        white == Average(light.white, BarShare(3), high)
    IN  \A k \in DOMAIN GrayLevels(Drawn) : \A sign \in {-1, 1} :
          Value(Average(Level(GrayLevels(Drawn)[k]), share, sign), Thresholds(black, white, change))
            = k - 1

-----------------------------------------------------------------------------
(* The attempts *)

Current == Attempts[attempt]

(* Every square of the frame is read for what it is. *)
Legible(change) ==
  LET column == Least(ColumnShares(change))
      row == Least(RowShares(change))
      share == [all |-> column.all * row.all, pure |-> column.pure * row.pure]
  IN  /\ ~change.differential
      /\ share.all > 0 /\ Separated(share, change)

(* A bar that would not fit the picture: the attempt is left out. *)
Possible ==
  Current.bar # 0 =>
    BarFor(Candidates[candidate], Current) \in 0..(video.height - 1)

(* The frame is read when its checksum fits.  With another grid it never    *)
(* does, and with squares that are not legible it may.                      *)
Read ==
  /\ outcome = "reading" /\ Possible
  /\ Candidates[candidate] = Drawn /\ ~Current.differential
  /\ outcome' = "read"
  /\ UNCHANGED <<picture, candidate, attempt>>

Misread == ~Possible \/ Candidates[candidate] # Drawn \/ ~Legible(Current)

NextAttempt ==
  /\ outcome = "reading"
  /\ attempt < Len(Attempts)
  /\ Misread
  /\ attempt' = attempt + 1
  /\ UNCHANGED <<picture, candidate, outcome>>

NextCandidate ==
  /\ outcome = "reading"
  /\ attempt = Len(Attempts) /\ candidate < Len(Candidates)
  /\ Misread
  /\ candidate' = candidate + 1 /\ attempt' = 1
  /\ UNCHANGED <<picture, outcome>>

Fail ==
  /\ outcome = "reading"
  /\ attempt = Len(Attempts) /\ candidate = Len(Candidates)
  /\ Misread
  /\ outcome' = "failed"
  /\ UNCHANGED <<picture, candidate, attempt>>

ImageInit ==
  /\ video \in Videos /\ shift \in Shifts /\ light \in Lights
  /\ candidate = 1 /\ attempt = 1 /\ outcome = "reading"

ImageNext == Read \/ NextAttempt \/ NextCandidate \/ Fail

ImageSpec == ImageInit /\ [][ImageNext]_imageVars

-----------------------------------------------------------------------------
(* Properties *)

Distance(k) == IF k < 0 THEN -k ELSE k

(* The squares of the picture that came back have at least this size. *)
SquaresHave(pixels) ==
  /\ Drawn.MacroSize * video.width >= pixels * Drawn.Width
  /\ Drawn.MacroSize * video.height >= pixels * Drawn.Height

(* How far the picture may be shifted: the larger its squares, the more. *)
SmallShift ==
  LET right == Distance(shift[1]) down == Distance(shift[2])
  IN  \/ SquaresHave(5) /\ light.blur = 0 /\ right <= 1 /\ down <= 1
      \/ SquaresHave(8) /\ right + down <= 2
      \/ SquaresHave(16) /\ right <= 3 /\ down <= 3

(* Levels that are far enough apart for the noise: black and white twelve   *)
(* times as far, and hundred times if there are two levels between them.    *)
DistinctLevels ==
  light.white - light.black
    >= (IF Drawn.GrayLevels = 2 THEN 12 ELSE 100) * Larger(light.noise, 2)

(* Without shift and blur every sampled pixel lies inside its square, from  *)
(* the first column to the last and from the first row to the last, in a    *)
(* picture of any size in which squares have five pixels: the rounding of   *)
(* edges and of the height of the bar never adds up                         *)
(* (reconstructor.go:850-897, 949-961).                                     *)
SamplesStayInside ==
  shift = <<0, 0>> /\ light.blur = 0 /\ SquaresHave(5) =>
    \A share \in ColumnShares(Attempts[1]) \cup RowShares(Attempts[1]) :
      share.all > 0 /\ share.pure = share.all

(* A frame in another resolution, with a small shift, blur and other levels *)
(* is read in the end, because one of the attempts finds every square of it *)
(* (README.md:192; decoder/weave.go:105-164, reconstructor.go:260-335).     *)
FrameIsRead == outcome = "failed" => ~(SmallShift /\ DistinctLevels /\ light.blur <= 1)
=============================================================================
