---------------------- MODULE EntityTransformerProofs ----------------------
(***************************************************************************)
(* Theorems about EntityTransformer, for any number of layers and of        *)
(* callers that wait for a mutex.                                           *)
(***************************************************************************)
EXTENDS EntityTransformer, TLAPS

USE EntityTransformerAssumption

-----------------------------------------------------------------------------
(* The mutex. *)

LEMMA AcquiredMutex ==
    ASSUME NEW m \in Mutex, NEW p \in Purposes
    PROVE  /\ Acquired(m, p) \in Mutex
           /\ Acquired(m, p).locked
           /\ Acquired(m, p).granted = IF m.locked THEN m.granted ELSE p
           /\ Acquired(m, p).waiting = IF m.locked THEN Append(m.waiting, p) ELSE m.waiting
  <1>1. CASE m.locked
    <2>1. Append(m.waiting, p) \in Seq(Purposes)
      BY DEF Mutex
    <2> QED BY <1>1, <2>1 DEF Acquired, Mutex
  <1>2. CASE ~m.locked
    BY <1>2 DEF Acquired, Mutex
  <1> QED BY <1>1, <1>2

LEMMA ReleasedMutex ==
    ASSUME NEW m \in Mutex
    PROVE  /\ Released(m) \in Mutex
           /\ m.waiting = <<>> => ~Released(m).locked /\ Released(m).granted = m.granted
           /\ m.waiting # <<>> => /\ Released(m).locked = m.locked
                                  /\ Released(m).granted \in Purposes
  <1>1. CASE m.waiting = <<>>
    BY <1>1 DEF Released, Mutex
  <1>2. CASE m.waiting # <<>>
    <2>1. Head(m.waiting) \in Purposes /\ Tail(m.waiting) \in Seq(Purposes)
      BY <1>2 DEF Mutex
    <2> QED BY <1>2, <2>1 DEF Released, Mutex
  <1> QED BY <1>1, <1>2

\* A mutex that one more asks for and its holder releases goes to one that waits.
LEMMA HandedOn ==
    ASSUME NEW m \in Mutex, NEW p \in Purposes, m.locked
    PROVE  /\ Released(Acquired(m, p)) \in Mutex
           /\ Released(Acquired(m, p)).locked
           /\ Released(Acquired(m, p)).granted \in Purposes
  <1> DEFINE n == Acquired(m, p)
  <1>1. n \in Mutex /\ n.locked /\ n.waiting = Append(m.waiting, p)
    BY AcquiredMutex
  <1>2. n.waiting # <<>>
    BY <1>1 DEF Mutex
  <1> HIDE DEF n
  <1>3. Released(n) \in Mutex /\ Released(n).locked = n.locked /\ Released(n).granted \in Purposes
    BY <1>1, <1>2, ReleasedMutex
  <1> QED BY <1>1, <1>3 DEF n

-----------------------------------------------------------------------------
(* Holders. *)

\* At most one holds the mutex m, and it is locked if one does.
One(m, isTransforming, calc) ==
    /\ m.locked <=> m.granted # "nobody" \/ isTransforming \/ calc # "none"
    /\ m.granted # "nobody" => ~isTransforming /\ calc = "none"
    /\ isTransforming => calc = "none"

HeldOnce(a) == One(mutex[a], transform[a].isTransforming, rect[a].calc)

LEMMA HoldersOne ==
    ASSUME NEW a \in Adapters
    PROVE  (/\ mutex[a].locked <=> Holders(a) # {}
            /\ \A h, k \in Holders(a) : h = k)  <=>  HeldOnce(a)
  <1> DEFINE G == mutex[a].granted # "nobody"
             T == transform[a].isTransforming
             R == rect[a].calc # "none"
  <1>1. /\ "granted" \in Holders(a) <=> G
        /\ "transform" \in Holders(a) <=> T
        /\ "rect" \in Holders(a) <=> R
        /\ \A h \in Holders(a) : h = "granted" \/ h = "transform" \/ h = "rect"
    BY DEF Holders
  <1>2. Holders(a) # {} <=> G \/ T \/ R
    BY <1>1
  <1>3. (\A h, k \in Holders(a) : h = k) <=> ~(G /\ T) /\ ~(G /\ R) /\ ~(T /\ R)
    BY <1>1
  <1> QED BY <1>2, <1>3 DEF HeldOnce, One

EachHeldOnce == \A a \in Adapters : life[a] = "alive" => HeldOnce(a)

LEMMA MutexHeldMeans == MutexHeld <=> EachHeldOnce
  BY HoldersOne, Zenon DEF MutexHeld, EachHeldOnce

LEMMA MutexHeldMeansNext == MutexHeld' <=> EachHeldOnce'
  BY MutexHeldMeans, PTL

-----------------------------------------------------------------------------
(* Steps of one layer. *)

\* IInv, with MutexHeld in the form that steps are checked against.
JInv == TypeOK /\ PanelCanEnd /\ EachHeldOnce /\ RasterizedHeld /\ NewIsIdle

LEMMA LayerTypes ==
    ASSUME TypeOK, NEW a \in Adapters
    PROVE  /\ life[a] \in {"new", "alive", "destroyed"}
           /\ content[a] \in Content /\ mutex[a] \in Mutex
           /\ transform[a] \in Transform /\ rect[a] \in Rect
  BY DEF TypeOK

\* Nothing but layer a, which is not a new one, changes.
OnlyLayer(a) ==
    /\ life' = life /\ life[a] # "new"
    /\ \A b \in Adapters \ {a} :
         /\ mutex'[b] = mutex[b] /\ transform'[b] = transform[b]
         /\ rect'[b] = rect[b] /\ content'[b] = content[b]
    /\ transformingAdapter' \in {transformingAdapter, a, None}
    /\ rasterizingAdapter' \in {rasterizingAdapter, a, None}

LEMMA OneLayer ==
    ASSUME JInv, NEW a \in Adapters, OnlyLayer(a), TypeOK', PanelCanEnd', RasterizedHeld',
           life[a] = "alive" => HeldOnce(a)'
    PROVE  JInv'
  <1>1. EachHeldOnce'
    <2> SUFFICES ASSUME NEW b \in Adapters, life[b] = "alive"
                 PROVE  HeldOnce(b)'
      BY DEF EachHeldOnce, OnlyLayer
    <2>1. CASE b = a
      BY <2>1
    <2>2. CASE b # a
      BY <2>2 DEF JInv, EachHeldOnce, OnlyLayer, HeldOnce
    <2> QED BY <2>1, <2>2
  <1>2. NewIsIdle'
    <2> SUFFICES ASSUME NEW b \in Adapters, life[b] = "new"
                 PROVE  /\ mutex'[b] = FreeMutex
                        /\ transform'[b] = Idle
                        /\ rect'[b].calc = "none"
                        /\ ~content'[b].unrendered
                        /\ transformingAdapter' # b /\ rasterizingAdapter' # b
      BY DEF NewIsIdle, OnlyLayer
    <2> QED BY DEF JInv, NewIsIdle, OnlyLayer
  <1> QED BY <1>1, <1>2 DEF JInv

\* A layer that has been given its mutex, is calculating, transforming,
\* rasterizing or to be rendered is not a new one.
LEMMA BusyNotNew ==
    ASSUME JInv, NEW a \in Adapters,
           \/ mutex[a].granted # "nobody"
           \/ rect[a].calc # "none"
           \/ content[a].unrendered
           \/ transformingAdapter = a
           \/ rasterizingAdapter = a
    PROVE  life[a] # "new"
  BY DEF JInv, NewIsIdle, FreeMutex

LEMMA UpdateBboxType ==
    ASSUME NEW a \in Adapters, NEW c \in Content, NEW r
    PROVE  UpdateBbox(a, c, r) \in Content
  BY DEF UpdateBbox, Content

-----------------------------------------------------------------------------
(* The steps that transform. *)

LEMMA StartTransformKeeps ==
    ASSUME JInv, NEW a \in Adapters, NEW purpose \in {"start", "fit"}, StartTransform(a, purpose)
    PROVE  JInv'
  <1> USE DEF StartTransform
  <1>0. purpose \in Purposes
    BY DEF Purposes
  <1>1. mutex[a] \in Mutex
    BY LayerTypes DEF JInv
  <1>2. Acquired(mutex[a], purpose) \in Mutex /\ mutex'[a] = Acquired(mutex[a], purpose)
    BY <1>0, <1>1, AcquiredMutex DEF JInv, TypeOK
  <1>3. TypeOK'
    BY <1>2 DEF JInv, TypeOK
  <1>4. OnlyLayer(a)
    BY DEF OnlyLayer, JInv, TypeOK
  <1>5. life[a] = "alive" => HeldOnce(a)'
    <2>1. HeldOnce(a)
      BY DEF JInv, EachHeldOnce
    <2> QED BY <2>1, <1>0, <1>1, <1>2, AcquiredMutex DEF HeldOnce, One, Purposes
  <1>6. PanelCanEnd' /\ RasterizedHeld'
    BY DEF JInv, PanelCanEnd, RasterizedHeld
  <1> QED BY <1>3, <1>4, <1>5, <1>6, OneLayer

LEMMA StartKeeps ==
    ASSUME JInv, NEW a \in Adapters, Start(a)
    PROVE  JInv'
  <1> USE DEF Start
  <1>1. mutex[a] \in Mutex /\ transform[a] \in Transform
    BY LayerTypes DEF JInv
  <1>2. /\ mutex'[a] \in Mutex /\ mutex'[a].locked = mutex[a].locked
        /\ mutex'[a].granted = "nobody"
        /\ transform'[a] \in Transform /\ transform'[a].isTransforming
        /\ transform'[a].isProcessing = transform[a].isProcessing
    BY <1>1 DEF JInv, TypeOK, Mutex, Transform
  <1>3. TypeOK'
    BY <1>2 DEF JInv, TypeOK
  <1>4. OnlyLayer(a)
    BY BusyNotNew DEF OnlyLayer, JInv, TypeOK
  <1>5. life[a] = "alive" => HeldOnce(a)'
    BY <1>2 DEF JInv, EachHeldOnce, HeldOnce, One
  <1>6. PanelCanEnd'
    BY <1>2 DEF PanelCanEnd
  <1>7. RasterizedHeld'
    BY <1>2, <1>4 DEF JInv, RasterizedHeld, OnlyLayer
  <1> QED BY <1>3, <1>4, <1>5, <1>6, <1>7, OneLayer

\* A transform stops, with the mutex m: the layer's own, or that with one more
\* who waits.
LEMMA StopTransformKeeps ==
    ASSUME JInv, NEW a \in Adapters, NEW m \in Mutex, NEW c \in Content,
           StopTransform(a, m, c), life' = life, rect' = rect, life[a] # "new",
           rasterizingAdapter' \in {rasterizingAdapter, None},
           life[a] = "alive" => /\ transform[a].isTransforming
                                /\ m.locked /\ m.granted = mutex[a].granted
                                /\ rasterizingAdapter' # a
    PROVE  JInv'
  <1> USE DEF StopTransform
  <1>1. mutex[a] \in Mutex /\ transform[a] \in Transform
    BY LayerTypes DEF JInv
  <1>2. /\ mutex'[a] = Released(m) /\ Released(m) \in Mutex
        /\ transform'[a] \in Transform /\ ~transform'[a].isTransforming
        /\ UpdateBbox(a, c, rect[a]) \in Content
    BY <1>1, ReleasedMutex, UpdateBboxType DEF JInv, TypeOK, Transform
  <1>3. TypeOK'
    BY <1>2 DEF JInv, TypeOK
  <1>4. OnlyLayer(a)
    BY DEF OnlyLayer, JInv, TypeOK
  <1>5. ASSUME life[a] = "alive"
        PROVE  HeldOnce(a)'
    <2>1. HeldOnce(a) /\ transform[a].isTransforming /\ m.locked /\ m.granted = mutex[a].granted
      BY <1>5 DEF JInv, EachHeldOnce
    <2>2. m.granted = "nobody" /\ rect[a].calc = "none"
      BY <2>1 DEF HeldOnce, One
    <2>3. Released(m).locked <=> Released(m).granted # "nobody"
      BY <2>1, <2>2, ReleasedMutex DEF Purposes
    <2> QED BY <1>2, <2>2, <2>3 DEF HeldOnce, One
  <1>6. PanelCanEnd'
    BY DEF PanelCanEnd
  <1>7. RasterizedHeld'
    BY <1>4 DEF JInv, RasterizedHeld, OnlyLayer
  <1> QED BY <1>3, <1>4, <1>5, <1>6, <1>7, OneLayer

\* The mutex of a layer that is transforming, with one more who waits for it.
LEMMA AskedWhileTransforming ==
    ASSUME JInv, NEW a \in Adapters
    PROVE  /\ Acquired(mutex[a], "rect") \in Mutex
           /\ life[a] = "alive" /\ transform[a].isTransforming =>
                /\ mutex[a].locked
                /\ Acquired(mutex[a], "rect").locked
                /\ Acquired(mutex[a], "rect").granted = mutex[a].granted
  <1>1. mutex[a] \in Mutex /\ "rect" \in Purposes
    BY LayerTypes DEF JInv, Purposes
  <1> QED BY <1>1, AcquiredMutex DEF JInv, EachHeldOnce, HeldOnce, One

LEMMA FitKeeps ==
    ASSUME JInv, NEW a \in Adapters, Fit(a)
    PROVE  JInv'
  <1>1. mutex[a] \in Mutex /\ transform[a] \in Transform /\ content[a] \in Content
    BY LayerTypes DEF JInv
  <1>2. life[a] # "new" /\ life' = life /\ rect' = rect /\ mutex[a].granted = "fit"
    BY BusyNotNew DEF Fit
  <1>3. life[a] = "alive" => /\ mutex[a].locked /\ ~transform[a].isTransforming
                             /\ rect[a].calc = "none"
    BY <1>2 DEF JInv, EachHeldOnce, HeldOnce, One
  <1>4. CASE rasterizingAdapter = None
    <2>1. /\ mutex' = [mutex EXCEPT ![a].granted = "nobody"]
          /\ transform' = [transform EXCEPT ![a] =
                [isTransforming |-> TRUE, silent |-> TRUE, isProcessing |-> TRUE]]
          /\ transformingAdapter' = a /\ rasterizingAdapter' = a /\ content' = content
      BY <1>4 DEF Fit
    <2>2. /\ mutex'[a] \in Mutex /\ mutex'[a].locked = mutex[a].locked
          /\ mutex'[a].granted = "nobody"
          /\ transform'[a] \in Transform /\ transform'[a].isTransforming
          /\ transform'[a].isProcessing
      BY <1>1, <2>1 DEF JInv, TypeOK, Mutex, Transform
    <2>3. TypeOK'
      BY <1>2, <2>1, <2>2 DEF JInv, TypeOK
    <2>4. OnlyLayer(a)
      BY <1>2, <2>1 DEF OnlyLayer, JInv, TypeOK
    <2>5. life[a] = "alive" => HeldOnce(a)'
      BY <1>2, <1>3, <2>2 DEF HeldOnce, One
    <2>6. PanelCanEnd' /\ RasterizedHeld'
      BY <2>1, <2>2 DEF PanelCanEnd, RasterizedHeld
    <2> QED BY <2>3, <2>4, <2>5, <2>6, OneLayer
  <1>5. CASE rasterizingAdapter # None
    <2> DEFINE m == [mutex[a] EXCEPT !.granted = "nobody"]
    <2>1. /\ mutex' = [mutex EXCEPT ![a] = Released(Acquired(m, "rect"))]
          /\ transform' = [transform EXCEPT ![a] = [Idle EXCEPT !.silent = TRUE]]
          /\ content' = [content EXCEPT ![a] = UpdateBbox(a, content[a], rect[a])]
          /\ transformingAdapter' = None /\ rasterizingAdapter' = rasterizingAdapter
      BY <1>5 DEF Fit
    <2>2. m \in Mutex /\ m.locked = mutex[a].locked /\ "rect" \in Purposes
      BY <1>1 DEF Mutex, Purposes
    <2> HIDE DEF m
    <2>3. /\ Released(Acquired(m, "rect")) \in Mutex
          /\ m.locked => /\ Released(Acquired(m, "rect")).locked
                         /\ Released(Acquired(m, "rect")).granted \in Purposes
      <3>1. Acquired(m, "rect") \in Mutex
        BY <2>2, AcquiredMutex
      <3> QED BY <2>2, <3>1, ReleasedMutex, HandedOn
    <2>4. /\ mutex'[a] = Released(Acquired(m, "rect"))
          /\ transform'[a] \in Transform /\ ~transform'[a].isTransforming
          /\ UpdateBbox(a, content[a], rect[a]) \in Content
      BY <1>1, <2>1, UpdateBboxType DEF JInv, TypeOK, Transform, Idle
    <2>5. TypeOK'
      BY <1>2, <2>1, <2>3, <2>4 DEF JInv, TypeOK
    <2>6. OnlyLayer(a)
      BY <1>2, <2>1 DEF OnlyLayer, JInv, TypeOK
    <2>7. life[a] = "alive" => HeldOnce(a)'
      BY <1>2, <1>3, <2>2, <2>3, <2>4 DEF HeldOnce, One, Purposes
    <2>8. PanelCanEnd'
      BY <2>1 DEF PanelCanEnd
    <2>9. RasterizedHeld'
      BY <1>3, <2>1, <2>6 DEF JInv, RasterizedHeld, OnlyLayer
    <2> QED BY <2>5, <2>6, <2>7, <2>8, <2>9, OneLayer
  <1> QED BY <1>4, <1>5

LEMMA CancelTransformKeeps ==
    ASSUME JInv, NEW a \in Adapters, CancelTransform(a)
    PROVE  JInv'
  <1> USE DEF CancelTransform, Panel
  <1>1. mutex[a] \in Mutex /\ content[a] \in Content
    BY LayerTypes DEF JInv
  <1>2. life[a] # "new" /\ transform[a].isTransforming
    BY BusyNotNew DEF JInv, PanelCanEnd
  <1>3. life[a] = "alive" => mutex[a].locked /\ rasterizingAdapter # a
    BY <1>2 DEF JInv, EachHeldOnce, HeldOnce, One, RasterizedHeld
  <1> QED BY <1>1, <1>2, <1>3, StopTransformKeeps

LEMMA ApplyTransformKeeps ==
    ASSUME JInv, NEW a \in Adapters, ApplyTransform(a)
    PROVE  JInv'
  <1>1. content[a] \in Content /\ transform[a] \in Transform
    BY LayerTypes DEF JInv
  <1>2. /\ life[a] # "new" /\ life' = life /\ rect' = rect
        /\ transform[a].isTransforming /\ ~transform[a].isProcessing /\ transformingAdapter = a
    BY BusyNotNew DEF ApplyTransform, Panel
  <1>3. CASE rasterizingAdapter = None
    <2>1. /\ transform' = [transform EXCEPT ![a].isProcessing = TRUE]
          /\ rasterizingAdapter' = a
          /\ UNCHANGED <<content, mutex, transformingAdapter>>
      BY <1>3 DEF ApplyTransform
    <2>2. /\ transform'[a] \in Transform /\ transform'[a].isTransforming
          /\ transform'[a].isProcessing
      BY <1>1, <1>2, <2>1 DEF JInv, TypeOK, Transform
    <2>3. TypeOK'
      BY <1>2, <2>1, <2>2 DEF JInv, TypeOK
    <2>4. OnlyLayer(a)
      BY <1>2, <2>1 DEF OnlyLayer, JInv, TypeOK
    <2>5. life[a] = "alive" => HeldOnce(a)'
      BY <1>2, <2>1, <2>2 DEF JInv, EachHeldOnce, HeldOnce, One
    <2>6. PanelCanEnd' /\ RasterizedHeld'
      BY <1>2, <2>1, <2>2 DEF PanelCanEnd, RasterizedHeld
    <2> QED BY <2>3, <2>4, <2>5, <2>6, OneLayer
  <1>4. CASE rasterizingAdapter # None
    <2>1. /\ StopTransform(a, Acquired(mutex[a], "rect"), content[a])
          /\ rasterizingAdapter' = rasterizingAdapter
      BY <1>4 DEF ApplyTransform, EndApply
    <2>2. life[a] = "alive" => rasterizingAdapter # a
      BY <1>2 DEF JInv, RasterizedHeld
    <2> QED BY <1>1, <1>2, <2>1, <2>2, AskedWhileTransforming, StopTransformKeeps
  <1> QED BY <1>3, <1>4

LEMMA ApplyEndsKeeps ==
    ASSUME JInv, NEW a \in Adapters, ApplyEnds(a)
    PROVE  JInv'
  <1>1. PICK c \in Content : StopTransform(a, Acquired(mutex[a], "rect"), c)
    <2>1. content[a] \in Content
      BY LayerTypes DEF JInv
    <2>2. [NewObjects EXCEPT !.fits = content[a].fits] \in Content
      BY <2>1 DEF NewObjects, Content
    <2> QED BY <2>1, <2>2 DEF ApplyEnds, EndApply
  <1>2. /\ rasterizingAdapter = a /\ rasterizingAdapter' = None
        /\ life' = life /\ rect' = rect
    BY DEF ApplyEnds
  <1>3. life[a] # "new"
    BY <1>2, BusyNotNew
  <1>4. life[a] = "alive" => transform[a].isTransforming
    BY <1>2 DEF JInv, RasterizedHeld
  <1> QED BY <1>1, <1>2, <1>3, <1>4, AskedWhileTransforming, StopTransformKeeps

-----------------------------------------------------------------------------
(* The steps that measure. *)

\* One or two more ask for the mutex of a layer.
LEMMA AskedTwice ==
    ASSUME NEW m \in Mutex, NEW isTransforming \in BOOLEAN, NEW calc
    PROVE  /\ Acquired(m, "rect") \in Mutex
           /\ Acquired(Acquired(m, "rect"), "fit") \in Mutex
           /\ One(m, isTransforming, calc) =>
                /\ One(Acquired(m, "rect"), isTransforming, calc)
                /\ One(Acquired(Acquired(m, "rect"), "fit"), isTransforming, calc)
  <1>1. "rect" \in Purposes /\ "fit" \in Purposes /\ "nobody" \notin Purposes
    BY DEF Purposes
  <1>2. ASSUME NEW n \in Mutex, NEW p \in Purposes, One(n, isTransforming, calc)
        PROVE  One(Acquired(n, p), isTransforming, calc)
    BY <1>1, <1>2, AcquiredMutex DEF One
  <1> QED BY <1>1, <1>2, AcquiredMutex

LEMMA RenderedKeeps ==
    ASSUME JInv, NEW a \in Adapters, Rendered(a)
    PROVE  JInv'
  <1> USE DEF Rendered
  <1>1. /\ mutex[a] \in Mutex /\ rect[a] \in Rect /\ content[a] \in Content
        /\ transform[a].isTransforming \in BOOLEAN
    BY LayerTypes DEF JInv, Transform
  <1>2. mutex'[a] \in {Acquired(mutex[a], "rect"), Acquired(Acquired(mutex[a], "rect"), "fit")}
    BY DEF JInv, TypeOK
  <1>3. /\ mutex'[a] \in Mutex
        /\ rect'[a] \in Rect /\ rect'[a].calc = rect[a].calc
        /\ content'[a] \in Content
    BY <1>1, <1>2, AskedTwice DEF JInv, TypeOK, Rect, Content
  <1>4. TypeOK'
    <2>1. mutex' \in [Adapters -> Mutex]
      BY <1>3 DEF JInv, TypeOK
    <2>2. rect' \in [Adapters -> Rect] /\ content' \in [Adapters -> Content]
      BY <1>3 DEF JInv, TypeOK
    <2> QED BY <2>1, <2>2 DEF JInv, TypeOK
  <1>5. OnlyLayer(a)
    BY BusyNotNew DEF OnlyLayer, JInv, TypeOK
  <1>6. life[a] = "alive" => HeldOnce(a)'
    <2>1. life[a] = "alive" => One(mutex[a], transform[a].isTransforming, rect[a].calc)
      BY DEF JInv, EachHeldOnce, HeldOnce
    <2>2. life[a] = "alive" => One(mutex'[a], transform[a].isTransforming, rect[a].calc)
      BY <1>1, <1>2, <2>1, AskedTwice
    <2> QED BY <1>3, <2>2 DEF HeldOnce
  <1>7. PanelCanEnd' /\ RasterizedHeld'
    BY DEF JInv, PanelCanEnd, RasterizedHeld
  <1> QED BY <1>4, <1>5, <1>6, <1>7, OneLayer

LEMMA RequestRectKeeps ==
    ASSUME JInv, NEW a \in Adapters, RequestRect(a)
    PROVE  JInv'
  <1> USE DEF RequestRect
  <1>1. mutex[a] \in Mutex /\ rect[a] \in Rect
    BY LayerTypes DEF JInv
  <1>2. /\ mutex'[a] \in Mutex /\ mutex'[a].locked = mutex[a].locked
        /\ mutex'[a].granted = "nobody"
        /\ rect'[a] \in Rect /\ rect'[a].calc = "debounced"
    BY <1>1 DEF JInv, TypeOK, Mutex, Rect
  <1>3. TypeOK'
    BY <1>2 DEF JInv, TypeOK
  <1>4. OnlyLayer(a)
    BY BusyNotNew DEF OnlyLayer, JInv, TypeOK
  <1>5. life[a] = "alive" => HeldOnce(a)'
    BY <1>2 DEF JInv, EachHeldOnce, HeldOnce, One
  <1>6. PanelCanEnd' /\ RasterizedHeld'
    BY DEF JInv, PanelCanEnd, RasterizedHeld
  <1> QED BY <1>3, <1>4, <1>5, <1>6, OneLayer

LEMMA CalculatedRectKeeps ==
    ASSUME JInv, NEW a \in Adapters, NEW isEmpty \in BOOLEAN, NEW fresh \in BOOLEAN,
           rect[a].calc # "none", CalculatedRect(a, isEmpty, fresh),
           UNCHANGED <<life, transform, transformingAdapter, rasterizingAdapter>>
    PROVE  JInv'
  <1> DEFINE r == [calc |-> "none", pending |-> FALSE, isEmpty |-> isEmpty,
                   fresh |-> fresh, captured |-> FALSE]
  <1>1. mutex[a] \in Mutex /\ content[a] \in Content /\ transform[a] \in Transform
    BY LayerTypes DEF JInv
  <1>2. /\ rect' = [rect EXCEPT ![a] = r]
        /\ content' = [content EXCEPT ![a] = UpdateBbox(a, content[a], r)]
        /\ mutex' = [mutex EXCEPT ![a] = Released(mutex[a])]
    BY DEF CalculatedRect
  <1>3. r \in Rect /\ r.calc = "none"
    BY DEF Rect
  <1> HIDE DEF r
  <1>4. Released(mutex[a]) \in Mutex /\ UpdateBbox(a, content[a], r) \in Content
    BY <1>1, ReleasedMutex, UpdateBboxType
  <1>5. TypeOK'
    BY <1>2, <1>3, <1>4 DEF JInv, TypeOK
  <1>6. OnlyLayer(a)
    BY <1>2, BusyNotNew DEF OnlyLayer, JInv, TypeOK
  <1>7. ASSUME life[a] = "alive"
        PROVE  HeldOnce(a)'
    <2>1. /\ mutex[a].locked /\ mutex[a].granted = "nobody"
          /\ ~transform[a].isTransforming
      BY <1>7 DEF JInv, EachHeldOnce, HeldOnce, One
    <2>2. /\ mutex'[a] = Released(mutex[a]) /\ transform'[a] = transform[a]
          /\ rect'[a].calc = "none"
      BY <1>2, <1>3 DEF JInv, TypeOK
    <2>3. Released(mutex[a]).locked <=> Released(mutex[a]).granted # "nobody"
      BY <1>1, <2>1, ReleasedMutex DEF Purposes
    <2> QED BY <2>1, <2>2, <2>3 DEF HeldOnce, One
  <1>8. PanelCanEnd' /\ RasterizedHeld'
    BY DEF JInv, PanelCanEnd, RasterizedHeld
  <1> QED BY <1>5, <1>6, <1>7, <1>8, OneLayer

LEMMA CalculateRectKeeps ==
    ASSUME JInv, NEW a \in Adapters, CalculateRect(a)
    PROVE  JInv'
  <1>1. rect[a] \in Rect /\ content[a] \in Content
    BY LayerTypes DEF JInv
  <1>2. /\ rect[a].calc = "debounced"
        /\ UNCHANGED <<life, transform, transformingAdapter, rasterizingAdapter>>
    BY DEF CalculateRect
  <1>3. CASE CalculatedRect(a, ~content[a].hasObjects, TRUE)
    BY <1>2, <1>3, CalculatedRectKeeps
  <1>4. CASE /\ rect' = [rect EXCEPT ![a].calc = "worker", ![a].captured = TRUE]
             /\ UNCHANGED <<content, mutex>>
    <2>1. rect'[a] \in Rect /\ rect'[a].calc = "worker"
      BY <1>1, <1>4 DEF JInv, TypeOK, Rect
    <2>2. TypeOK'
      BY <1>2, <1>4, <2>1 DEF JInv, TypeOK
    <2>3. OnlyLayer(a)
      BY <1>2, <1>4, BusyNotNew DEF OnlyLayer, JInv, TypeOK
    <2>4. life[a] = "alive" => HeldOnce(a)'
      BY <1>2, <1>4, <2>1 DEF JInv, EachHeldOnce, HeldOnce, One
    <2>5. PanelCanEnd' /\ RasterizedHeld'
      BY <1>2 DEF JInv, PanelCanEnd, RasterizedHeld
    <2> QED BY <2>2, <2>3, <2>4, <2>5, OneLayer
  <1> QED BY <1>3, <1>4 DEF CalculateRect

LEMMA WorkerAnswersKeeps ==
    ASSUME JInv, NEW a \in Adapters, WorkerAnswers(a)
    PROVE  JInv'
  <1>1. rect[a] \in Rect
    BY LayerTypes DEF JInv
  <1>2. PICK isEmpty \in BOOLEAN : CalculatedRect(a, isEmpty, rect[a].captured)
    BY DEF WorkerAnswers
  <1>3. rect[a].captured \in BOOLEAN
    BY <1>1 DEF Rect
  <1> QED BY <1>2, <1>3, CalculatedRectKeeps DEF WorkerAnswers

-----------------------------------------------------------------------------
(* Layers come, change and go. *)

\* A layer that appears has a free mutex and is not being rasterized.
LEMMA NewIsFree ==
    ASSUME JInv, NEW a \in Adapters, life[a] = "new"
    PROVE  HeldOnce(a) /\ rasterizingAdapter # a
  BY DEF JInv, NewIsIdle, HeldOnce, One, FreeMutex, Idle

LEMMA AddLayerKeeps ==
    ASSUME JInv, NEW a \in Adapters, AddLayer(a)
    PROVE  JInv'
  <1> USE DEF AddLayer
  <1>1. TypeOK'
    BY DEF JInv, TypeOK, NewObjects, Content
  <1>2. PanelCanEnd'
    BY DEF JInv, PanelCanEnd
  <1>3. EachHeldOnce'
    BY NewIsFree DEF JInv, TypeOK, EachHeldOnce, HeldOnce
  <1>4. RasterizedHeld'
    BY NewIsFree DEF JInv, TypeOK, RasterizedHeld
  <1>5. NewIsIdle'
    BY DEF JInv, TypeOK, NewIsIdle
  <1> QED BY <1>1, <1>2, <1>3, <1>4, <1>5 DEF JInv

\* Layers that are gone no longer transform, and the panel closes on them.
LEMMA DestroyedPart ==
    ASSUME JInv, NEW gone \in SUBSET Adapters, Destroyed(gone)
    PROVE  /\ transform' \in [Adapters -> Transform]
           /\ \A b \in Adapters \ gone : transform'[b] = transform[b]
           /\ transformingAdapter' \in {transformingAdapter, None}
           /\ PanelCanEnd'
  <1>1. ASSUME NEW b \in gone
        PROVE  [transform[b] EXCEPT !.isTransforming = FALSE,
                                    !.isProcessing = @ /\ ~transform[b].isTransforming] \in Transform
    BY LayerTypes DEF JInv, Transform
  <1>2. /\ transform' \in [Adapters -> Transform]
        /\ \A b \in Adapters \ gone : transform'[b] = transform[b]
    BY <1>1 DEF Destroyed, JInv, TypeOK
  <1>3. transformingAdapter' \in {transformingAdapter, None}
    BY DEF Destroyed
  <1>4. PanelCanEnd'
    <2> SUFFICES ASSUME transformingAdapter' # None
                 PROVE  transform'[transformingAdapter'].isTransforming
      BY DEF PanelCanEnd
    <2>1. transformingAdapter' = transformingAdapter /\ transformingAdapter \in Adapters
      BY DEF Destroyed, JInv, TypeOK
    <2>2. transform[transformingAdapter].isTransforming
      BY <2>1 DEF JInv, PanelCanEnd
    <2>3. transformingAdapter \notin gone
      BY <2>1, <2>2 DEF Destroyed
    <2> QED BY <1>2, <2>1, <2>2, <2>3
  <1> QED BY <1>2, <1>3, <1>4

LEMMA StoppedPart ==
    ASSUME JInv, NEW gone \in SUBSET Adapters
    PROVE  /\ Stopped(gone) \in [Adapters -> Mutex]
           /\ \A b \in Adapters \ gone : Stopped(gone)[b] = mutex[b]
  <1>1. \A b \in Adapters : mutex[b] \in Mutex /\ Released(mutex[b]) \in Mutex
    BY LayerTypes, ReleasedMutex DEF JInv
  <1> QED BY <1>1 DEF Stopped

LEMMA NewCanvasKeeps ==
    ASSUME JInv, NEW a \in Adapters, NewCanvas(a)
    PROVE  JInv'
  <1> DEFINE gone == {b \in Adapters : life[b] = "alive"}
  <1>1. /\ life[a] = "new" /\ a \notin gone
        /\ Destroyed(gone)
        /\ life' = [b \in Adapters |-> IF b = a THEN "alive" ELSE
                                         IF b \in gone THEN "destroyed" ELSE life[b]]
        /\ mutex' = Stopped(gone)
        /\ content' = [content EXCEPT ![a] = [NewObjects EXCEPT !.fits = TRUE]]
        /\ UNCHANGED <<rect, rasterizingAdapter>>
    BY DEF NewCanvas
  <1>2. \A b \in Adapters : life[b] = "alive" <=> b \in gone
    OBVIOUS
  <1>3. gone \in SUBSET Adapters
    OBVIOUS
  <1> HIDE DEF gone
  <1>4. /\ transform' \in [Adapters -> Transform]
        /\ \A b \in Adapters \ gone : transform'[b] = transform[b]
        /\ transformingAdapter' \in {transformingAdapter, None}
        /\ PanelCanEnd'
    BY <1>1, <1>3, DestroyedPart
  <1>5. /\ mutex' \in [Adapters -> Mutex]
        /\ \A b \in Adapters \ gone : mutex'[b] = mutex[b]
    BY <1>1, <1>3, StoppedPart
  <1>6. [NewObjects EXCEPT !.fits = TRUE] \in Content
    BY DEF NewObjects, Content
  <1>7. TypeOK'
    <2>1. life' \in [Adapters -> {"new", "alive", "destroyed"}]
      BY <1>1 DEF JInv, TypeOK
    <2>2. content' \in [Adapters -> Content]
      BY <1>1, <1>6 DEF JInv, TypeOK
    <2> QED BY <1>1, <1>4, <1>5, <2>1, <2>2 DEF JInv, TypeOK
  <1>8. \A b \in Adapters : life'[b] = "alive" => b = a
    BY <1>1, <1>2
  <1>9. EachHeldOnce'
    BY <1>1, <1>4, <1>5, <1>8, NewIsFree DEF EachHeldOnce, HeldOnce
  <1>10. RasterizedHeld'
    BY <1>1, <1>8, NewIsFree DEF RasterizedHeld
  <1>11. NewIsIdle'
    <2> SUFFICES ASSUME NEW b \in Adapters, life'[b] = "new"
                 PROVE  /\ mutex'[b] = FreeMutex
                        /\ transform'[b] = Idle
                        /\ rect'[b].calc = "none"
                        /\ ~content'[b].unrendered
                        /\ transformingAdapter' # b /\ rasterizingAdapter' # b
      BY DEF NewIsIdle
    <2>1. b # a /\ b \notin gone /\ life[b] = "new"
      BY <1>1
    <2> QED BY <1>1, <1>4, <1>5, <2>1 DEF JInv, TypeOK, NewIsIdle
  <1> QED BY <1>4, <1>7, <1>9, <1>10, <1>11 DEF JInv

LEMMA DeleteLayerKeeps ==
    ASSUME JInv, NEW a \in Adapters, DeleteLayer(a)
    PROVE  JInv'
  <1>1. /\ life[a] = "alive" /\ life' = [life EXCEPT ![a] = "destroyed"]
        /\ Destroyed({a}) /\ mutex' = Stopped({a})
        /\ UNCHANGED <<content, rect, rasterizingAdapter>>
    BY DEF DeleteLayer
  <1>2. /\ transform' \in [Adapters -> Transform]
        /\ \A b \in Adapters \ {a} : transform'[b] = transform[b]
        /\ transformingAdapter' \in {transformingAdapter, None}
        /\ PanelCanEnd'
    BY <1>1, DestroyedPart
  <1>3. /\ mutex' \in [Adapters -> Mutex]
        /\ \A b \in Adapters \ {a} : mutex'[b] = mutex[b]
    BY <1>1, StoppedPart
  <1>4. TypeOK'
    BY <1>1, <1>2, <1>3 DEF JInv, TypeOK
  <1>5. \A b \in Adapters : life'[b] \in {"new", "alive"} => b # a /\ life'[b] = life[b]
    BY <1>1 DEF JInv, TypeOK
  <1>6. EachHeldOnce'
    BY <1>1, <1>2, <1>3, <1>5 DEF JInv, EachHeldOnce, HeldOnce
  <1>7. RasterizedHeld'
    BY <1>1, <1>2, <1>5 DEF JInv, RasterizedHeld
  <1>8. NewIsIdle'
    BY <1>1, <1>2, <1>3, <1>5 DEF JInv, NewIsIdle
  <1> QED BY <1>2, <1>4, <1>6, <1>7, <1>8 DEF JInv

LEMMA EditLayerKeeps ==
    ASSUME JInv, NEW a \in Adapters, EditLayer(a)
    PROVE  JInv'
  <1> USE DEF EditLayer
  <1>1. TypeOK'
    BY LayerTypes DEF JInv, TypeOK, Content
  <1>2. OnlyLayer(a)
    BY DEF OnlyLayer, JInv, TypeOK
  <1>3. life[a] = "alive" => HeldOnce(a)'
    BY DEF JInv, EachHeldOnce, HeldOnce
  <1>4. PanelCanEnd' /\ RasterizedHeld'
    BY DEF JInv, PanelCanEnd, RasterizedHeld
  <1> QED BY <1>1, <1>2, <1>3, <1>4, OneLayer

-----------------------------------------------------------------------------
LEMMA InitInv == Init => JInv
  <1> SUFFICES ASSUME Init PROVE JInv
    OBVIOUS
  <1> USE DEF Init
  <1>1. TypeOK
    BY DEF TypeOK, Content, NoObjects, Mutex, FreeMutex, Purposes, Transform, Idle, Rect
  <1>2. PanelCanEnd
    BY DEF PanelCanEnd
  <1>3. EachHeldOnce /\ RasterizedHeld
    BY DEF EachHeldOnce, RasterizedHeld
  <1>4. NewIsIdle
    BY DEF NewIsIdle, NoObjects
  <1> QED BY <1>1, <1>2, <1>3, <1>4 DEF JInv

LEMMA NextInv == JInv /\ [Next]_vars => JInv'
  <1> SUFFICES ASSUME JInv, [Next]_vars PROVE JInv'
    OBVIOUS
  <1>1. CASE UNCHANGED vars
    BY <1>1 DEF vars, JInv, TypeOK, PanelCanEnd, EachHeldOnce, HeldOnce, RasterizedHeld, NewIsIdle
  <1>2. CASE Continue
    <2>1. PICK a \in Adapters : Start(a) \/ Fit(a) \/ RequestRect(a)
      BY <1>2 DEF Continue
    <2> QED BY <2>1, StartKeeps, FitKeeps, RequestRectKeeps
  <1>3. ASSUME NEW a \in Adapters, Answer(a)
        PROVE  JInv'
    BY <1>3, RenderedKeeps, CalculateRectKeeps, WorkerAnswersKeeps, ApplyEndsKeeps DEF Answer
  <1>4. ASSUME NEW a \in Adapters, UseLayer(a)
        PROVE  JInv'
    BY <1>4, AddLayerKeeps, NewCanvasKeeps, DeleteLayerKeeps, EditLayerKeeps,
       StartTransformKeeps, CancelTransformKeeps, ApplyTransformKeeps DEF UseLayer
  <1> QED BY <1>1, <1>2, <1>3, <1>4 DEF Next

LEMMA InvAlways == Spec => []JInv
  BY InitInv, NextInv, PTL DEF Spec

\* Layers, their mutexes, transforms and rects, and the two shared adapters have
\* their types, for any number of layers and of callers that wait.
THEOREM TransformerTypeCorrect == Spec => []TypeOK
  <1>1. JInv => TypeOK
    BY DEF JInv
  <1> QED BY <1>1, InvAlways, PTL

\* The panel always shows a transform that can be ended: no start, fit, apply,
\* cancellation or deletion leaves $transformingAdapter at a layer that has stopped.
THEOREM PanelCanEndAlways == Spec => []PanelCanEnd
  <1>1. JInv => PanelCanEnd
    BY DEF JInv
  <1> QED BY <1>1, InvAlways, PTL

\* transformMutex excludes: of a layer's transform, its calculation and the
\* caller just granted at most one holds it, and it is free if none does.
THEOREM MutexHeldAlways == Spec => []MutexHeld
  <1>1. JInv => MutexHeld
    BY MutexHeldMeans DEF JInv
  <1> QED BY <1>1, InvAlways, PTL

-----------------------------------------------------------------------------
(* The rect. *)

\* Somebody waits for the mutex m to recalculate the rect, or was just given it.
Asked(m) == m.granted = "rect" \/ \E i \in 1 .. Len(m.waiting) : m.waiting[i] = "rect"

\* Nobody waits for a free mutex.
WaitsLocked(m) == m.waiting # <<>> => m.locked

\* Objects c that are rendered have their rect r, or it is asked for, or the
\* calculation that is under way will be of these objects.
Measured(c, m, r) ==
    ~c.unrendered => \/ Asked(m) \/ r.calc = "debounced"
                     \/ IF r.calc = "worker" THEN r.captured ELSE r.fresh

EachMeasured ==
    \A a \in Adapters : life[a] = "alive" =>
      WaitsLocked(mutex[a]) /\ Measured(content[a], mutex[a], rect[a])

LEMMA AcquiredAsks ==
    ASSUME NEW m \in Mutex, NEW p \in Purposes, WaitsLocked(m)
    PROVE  /\ WaitsLocked(Acquired(m, p))
           /\ Asked(m) /\ (m.locked \/ m.granted = "nobody") => Asked(Acquired(m, p))
           /\ p = "rect" => Asked(Acquired(m, p))
  <1>1. m.waiting \in Seq(Purposes)
    BY DEF Mutex
  <1>2. /\ Acquired(m, p).locked
        /\ Acquired(m, p).granted = IF m.locked THEN m.granted ELSE p
        /\ Acquired(m, p).waiting = IF m.locked THEN Append(m.waiting, p) ELSE m.waiting
    BY AcquiredMutex
  <1>3. CASE m.locked
    <2>1. /\ Len(Append(m.waiting, p)) = Len(m.waiting) + 1
          /\ Append(m.waiting, p)[Len(m.waiting) + 1] = p
          /\ \A i \in 1 .. Len(m.waiting) : Append(m.waiting, p)[i] = m.waiting[i]
          /\ Len(m.waiting) \in Nat
      BY <1>1
    <2> QED BY <1>2, <1>3, <2>1 DEF Asked, WaitsLocked
  <1>4. CASE ~m.locked
    <2>1. m.waiting = <<>>
      BY <1>4 DEF WaitsLocked
    <2>2. Len(m.waiting) = 0
      BY <2>1
    <2> QED BY <1>2, <1>4, <2>1, <2>2 DEF Asked, WaitsLocked
  <1> QED BY <1>3, <1>4

LEMMA ReleasedAsks ==
    ASSUME NEW m \in Mutex, WaitsLocked(m), m.granted = "nobody"
    PROVE  /\ WaitsLocked(Released(m))
           /\ Asked(m) => Asked(Released(m))
  <1>1. m.waiting \in Seq(Purposes)
    BY DEF Mutex
  <1>2. CASE m.waiting = <<>>
    <2>1. Released(m).waiting = m.waiting /\ Released(m).granted = m.granted
      BY <1>2 DEF Released, Mutex
    <2> QED BY <1>2, <2>1 DEF Asked, WaitsLocked
  <1>3. CASE m.waiting # <<>>
    <2>1. /\ Released(m).waiting = Tail(m.waiting) /\ Released(m).granted = Head(m.waiting)
          /\ Released(m).locked = m.locked
      BY <1>3 DEF Released, Mutex
    <2>2. /\ Len(m.waiting) \in Nat \ {0} /\ Len(Tail(m.waiting)) = Len(m.waiting) - 1
          /\ Head(m.waiting) = m.waiting[1]
          /\ \A i \in 2 .. Len(m.waiting) : Tail(m.waiting)[i - 1] = m.waiting[i]
      BY <1>1, <1>3
    <2>3. WaitsLocked(Released(m))
      BY <1>3, <2>1 DEF WaitsLocked
    <2>4. ASSUME Asked(m) PROVE Asked(Released(m))
      <3>1. PICK i \in 1 .. Len(m.waiting) : m.waiting[i] = "rect"
        BY <2>4 DEF Asked
      <3>2. CASE i = 1
        BY <2>1, <2>2, <3>1, <3>2 DEF Asked
      <3>3. CASE i # 1
        <4>1. i \in 2 .. Len(m.waiting) /\ i - 1 \in 1 .. Len(Tail(m.waiting))
          BY <2>2, <3>3
        <4> QED BY <2>1, <2>2, <3>1, <4>1 DEF Asked
      <3> QED BY <3>2, <3>3
    <2> QED BY <2>3, <2>4
  <1> QED BY <1>2, <1>3

\* A mutex that one more asks for, to recalculate the rect, and its holder
\* releases, is still asked for.
LEMMA HandedOnAsks ==
    ASSUME NEW m \in Mutex, WaitsLocked(m), m.granted = "nobody", m.locked
    PROVE  /\ WaitsLocked(Released(Acquired(m, "rect")))
           /\ Asked(Released(Acquired(m, "rect")))
  <1> DEFINE n == Acquired(m, "rect")
  <1>1. n \in Mutex /\ n.granted = "nobody" /\ WaitsLocked(n) /\ Asked(n)
    BY AcquiredMutex, AcquiredAsks DEF Purposes
  <1> HIDE DEF n
  <1>2. WaitsLocked(Released(n)) /\ Asked(Released(n))
    BY <1>1, ReleasedAsks
  <1> QED BY <1>2 DEF n

\* Cutting a layer loose that has no pixels leaves its new objects to render.
LEMMA UpdateBboxRenders ==
    ASSUME NEW a, NEW c \in Content, NEW r
    PROVE  UpdateBbox(a, c, r).unrendered \/ UpdateBbox(a, c, r) = c
  BY DEF UpdateBbox, Content

LEMMA OneMeasured ==
    ASSUME EachMeasured, NEW a \in Adapters,
           \A b \in Adapters \ {a} : /\ mutex'[b] = mutex[b] /\ content'[b] = content[b]
                                     /\ rect'[b] = rect[b],
           \A b \in Adapters \ {a} : life'[b] = "alive" => life[b] = "alive",
           life'[a] = "alive" => WaitsLocked(mutex'[a]) /\ Measured(content'[a], mutex'[a], rect'[a])
    PROVE  EachMeasured'
  <1>1. ASSUME NEW b \in Adapters \ {a}, life'[b] = "alive"
        PROVE  WaitsLocked(mutex'[b]) /\ Measured(content'[b], mutex'[b], rect'[b])
    BY <1>1 DEF EachMeasured
  <1> QED BY <1>1 DEF EachMeasured, WaitsLocked, Measured, Asked

\* What is known of a living layer before a step.
LEMMA LivingLayer ==
    ASSUME JInv, EachMeasured, NEW a \in Adapters, life[a] = "alive"
    PROVE  /\ content[a] \in Content /\ mutex[a] \in Mutex /\ rect[a] \in Rect
           /\ HeldOnce(a) /\ WaitsLocked(mutex[a])
           /\ Measured(content[a], mutex[a], rect[a])
           /\ DOMAIN mutex = Adapters /\ DOMAIN content = Adapters /\ DOMAIN rect = Adapters
  BY LayerTypes DEF JInv, TypeOK, EachHeldOnce, EachMeasured

\* A transform that ends, with or without a request for the rect.
LEMMA StopMeasured ==
    ASSUME NEW a \in Adapters, NEW c \in Content, NEW m \in Mutex, NEW r \in Rect, NEW n, NEW d,
           WaitsLocked(m), Measured(c, m, r), m.granted = "nobody", m.locked,
           d.unrendered \/ d = c,
           n \in {Released(m), Released(Acquired(m, "rect"))}
    PROVE  WaitsLocked(n) /\ Measured(d, n, r)
  <1>1. WaitsLocked(n) /\ (Asked(m) => Asked(n))
    BY ReleasedAsks, HandedOnAsks
  <1> QED BY <1>1 DEF Measured

LEMMA TransformMeasured ==
    ASSUME JInv, EachMeasured, NEW a \in Adapters,
           \/ CancelTransform(a) \/ ApplyTransform(a) \/ ApplyEnds(a)
    PROVE  EachMeasured'
  <1>1. /\ life' = life /\ rect' = rect
        /\ \A b \in Adapters \ {a} : mutex'[b] = mutex[b] /\ content'[b] = content[b]
    BY DEF CancelTransform, ApplyTransform, ApplyEnds, EndApply, StopTransform, JInv, TypeOK
  <1> SUFFICES ASSUME life[a] = "alive"
               PROVE  WaitsLocked(mutex'[a]) /\ Measured(content'[a], mutex'[a], rect'[a])
    BY <1>1, OneMeasured
  <1>2. /\ content[a] \in Content /\ mutex[a] \in Mutex /\ rect[a] \in Rect
        /\ HeldOnce(a) /\ WaitsLocked(mutex[a])
        /\ Measured(content[a], mutex[a], rect[a])
        /\ DOMAIN mutex = Adapters /\ DOMAIN content = Adapters
    BY LivingLayer
  <1>3. mutex[a].granted = "nobody" /\ mutex[a].locked
    <2>1. transform[a].isTransforming
      BY DEF CancelTransform, ApplyTransform, ApplyEnds, Panel, JInv, PanelCanEnd, RasterizedHeld
    <2> QED BY <1>2, <2>1 DEF HeldOnce, One
  <1>4. CASE UNCHANGED <<mutex, content>>
    BY <1>1, <1>2, <1>4
  <1>5. ASSUME NEW c \in Content, c.unrendered \/ c = content[a], NEW m,
               m = mutex[a] \/ m = Acquired(mutex[a], "rect"), StopTransform(a, m, c)
        PROVE  WaitsLocked(mutex'[a]) /\ Measured(content'[a], mutex'[a], rect'[a])
    <2>1. mutex'[a] = Released(m) /\ content'[a] = UpdateBbox(a, c, rect[a])
      BY <1>2, <1>5 DEF StopTransform
    <2>2. content'[a].unrendered \/ content'[a] = content[a]
      BY <1>5, <2>1, UpdateBboxRenders
    <2> QED BY <1>1, <1>2, <1>3, <1>5, <2>1, <2>2, StopMeasured
  <1>6. [NewObjects EXCEPT !.fits = content[a].fits] \in Content
        /\ [NewObjects EXCEPT !.fits = content[a].fits].unrendered
    BY <1>2 DEF NewObjects, Content
  <1>7. CASE CancelTransform(a)
    BY <1>2, <1>5, <1>7 DEF CancelTransform
  <1>8. CASE ApplyTransform(a)
    BY <1>2, <1>4, <1>5, <1>8 DEF ApplyTransform, EndApply
  <1>9. CASE ApplyEnds(a)
    BY <1>2, <1>5, <1>6, <1>9 DEF ApplyEnds, EndApply
  <1> QED BY <1>7, <1>8, <1>9

LEMMA GrantedMeasured ==
    ASSUME JInv, EachMeasured, NEW a \in Adapters, Start(a) \/ Fit(a) \/ RequestRect(a)
    PROVE  EachMeasured'
  <1>1. /\ life' = life
        /\ \A b \in Adapters \ {a} : /\ mutex'[b] = mutex[b] /\ content'[b] = content[b]
                                     /\ rect'[b] = rect[b]
    BY DEF Start, Fit, RequestRect, JInv, TypeOK
  <1> SUFFICES ASSUME life[a] = "alive"
               PROVE  WaitsLocked(mutex'[a]) /\ Measured(content'[a], mutex'[a], rect'[a])
    BY <1>1, OneMeasured
  <1>2. /\ content[a] \in Content /\ mutex[a] \in Mutex /\ rect[a] \in Rect
        /\ HeldOnce(a) /\ WaitsLocked(mutex[a])
        /\ Measured(content[a], mutex[a], rect[a])
        /\ DOMAIN mutex = Adapters /\ DOMAIN content = Adapters /\ DOMAIN rect = Adapters
    BY LivingLayer
  <1> DEFINE m == [mutex[a] EXCEPT !.granted = "nobody"]
  <1>3. /\ m \in Mutex /\ m.granted = "nobody" /\ m.locked = mutex[a].locked
        /\ m.waiting = mutex[a].waiting
    BY <1>2 DEF Mutex
  <1>4. WaitsLocked(m) /\ mutex[a].locked
    BY <1>2, <1>3 DEF WaitsLocked, HeldOnce, One, Start, Fit, RequestRect
  <1>5. mutex[a].granted # "rect" /\ Asked(mutex[a]) => Asked(m)
    BY <1>3 DEF Asked
  <1>6. mutex[a].granted # "rect" => Measured(content[a], m, rect[a])
    BY <1>2, <1>5 DEF Measured
  <1> HIDE DEF m
  <1>7. CASE Start(a)
    <2>1. mutex'[a] = m /\ content'[a] = content[a] /\ rect'[a] = rect[a]
      BY <1>2, <1>7 DEF Start, m
    <2> QED BY <1>4, <1>6, <1>7, <2>1 DEF Start
  <1>8. CASE Fit(a)
    <2>1. CASE rasterizingAdapter = None
      <3>1. mutex'[a] = m /\ content'[a] = content[a] /\ rect'[a] = rect[a]
        BY <1>2, <1>8, <2>1 DEF Fit, m
      <3> QED BY <1>4, <1>6, <1>8, <3>1 DEF Fit
    <2>2. CASE rasterizingAdapter # None
      <3>1. /\ mutex'[a] = Released(Acquired(m, "rect")) /\ rect'[a] = rect[a]
            /\ content'[a] = UpdateBbox(a, content[a], rect[a])
        BY <1>2, <1>8, <2>2 DEF Fit, m
      <3>2. content'[a].unrendered \/ content'[a] = content[a]
        BY <1>2, <3>1, UpdateBboxRenders
      <3> QED BY <1>2, <1>3, <1>4, <1>6, <1>8, <3>1, <3>2, StopMeasured DEF Fit
    <2> QED BY <2>1, <2>2
  <1>9. CASE RequestRect(a)
    <2>1. mutex'[a] = m /\ rect'[a].calc = "debounced"
      BY <1>2, <1>9 DEF RequestRect, m, Rect
    <2> QED BY <1>4, <2>1 DEF Measured
  <1> QED BY <1>7, <1>8, <1>9

LEMMA RectMeasured ==
    ASSUME JInv, EachMeasured, NEW a \in Adapters,
           Rendered(a) \/ CalculateRect(a) \/ WorkerAnswers(a)
    PROVE  EachMeasured'
  <1>1. /\ life' = life
        /\ \A b \in Adapters \ {a} : /\ mutex'[b] = mutex[b] /\ content'[b] = content[b]
                                     /\ rect'[b] = rect[b]
    BY DEF Rendered, CalculateRect, WorkerAnswers, CalculatedRect, JInv, TypeOK
  <1> SUFFICES ASSUME life[a] = "alive"
               PROVE  WaitsLocked(mutex'[a]) /\ Measured(content'[a], mutex'[a], rect'[a])
    BY <1>1, OneMeasured
  <1>2. /\ content[a] \in Content /\ mutex[a] \in Mutex /\ rect[a] \in Rect
        /\ HeldOnce(a) /\ WaitsLocked(mutex[a])
        /\ Measured(content[a], mutex[a], rect[a])
        /\ DOMAIN mutex = Adapters /\ DOMAIN content = Adapters /\ DOMAIN rect = Adapters
    BY LivingLayer
  <1>3. CASE Rendered(a)
    <2>1. mutex'[a] \in {Acquired(mutex[a], "rect"), Acquired(Acquired(mutex[a], "rect"), "fit")}
      BY <1>2, <1>3 DEF Rendered
    <2> DEFINE n == Acquired(mutex[a], "rect")
    <2>2. n \in Mutex /\ n.locked /\ WaitsLocked(n) /\ Asked(n)
      BY <1>2, AcquiredMutex, AcquiredAsks DEF Purposes
    <2> HIDE DEF n
    <2>3. WaitsLocked(Acquired(n, "fit")) /\ Asked(Acquired(n, "fit"))
      BY <2>2, AcquiredAsks DEF Purposes
    <2>4. WaitsLocked(mutex'[a]) /\ Asked(mutex'[a])
      BY <2>1, <2>2, <2>3 DEF n
    <2> QED BY <2>4 DEF Measured
  <1>4. ASSUME NEW isEmpty, NEW fresh, CalculatedRect(a, isEmpty, fresh), rect[a].calc # "none",
               rect[a].calc = "worker" => fresh = rect[a].captured,
               rect[a].calc = "debounced" => fresh = TRUE
        PROVE  WaitsLocked(mutex'[a]) /\ Measured(content'[a], mutex'[a], rect'[a])
    <2> DEFINE r == [calc |-> "none", pending |-> FALSE, isEmpty |-> isEmpty,
                     fresh |-> fresh, captured |-> FALSE]
    <2>1. /\ mutex'[a] = Released(mutex[a]) /\ rect'[a] = r
          /\ content'[a] = UpdateBbox(a, content[a], r)
      BY <1>2, <1>4 DEF CalculatedRect
    <2>2. r.calc = "none" /\ r.fresh = fresh
      OBVIOUS
    <2> HIDE DEF r
    <2>3. content'[a].unrendered \/ content'[a] = content[a]
      BY <1>2, <2>1, UpdateBboxRenders
    <2>4. mutex[a].granted = "nobody"
      BY <1>2, <1>4 DEF HeldOnce, One
    <2>5. WaitsLocked(mutex'[a]) /\ (Asked(mutex[a]) => Asked(mutex'[a]))
      BY <1>2, <2>1, <2>4, ReleasedAsks
    <2>6. ~content[a].unrendered => Asked(mutex[a]) \/ fresh
      BY <1>2, <1>4 DEF Measured, Rect
    <2> QED BY <2>1, <2>2, <2>3, <2>5, <2>6 DEF Measured
  <1>5. CASE CalculateRect(a)
    <2>1. CASE rect' = [rect EXCEPT ![a].calc = "worker", ![a].captured = TRUE]
               /\ UNCHANGED <<content, mutex>>
      <3>1. rect'[a].calc = "worker" /\ rect'[a].captured
        BY <1>2, <2>1 DEF Rect
      <3> QED BY <1>2, <2>1, <3>1 DEF Measured
    <2> QED BY <1>4, <1>5, <2>1 DEF CalculateRect
  <1>6. CASE WorkerAnswers(a)
    BY <1>4, <1>6 DEF WorkerAnswers
  <1> QED BY <1>3, <1>5, <1>6

LEMMA LayerMeasured ==
    ASSUME JInv, EachMeasured, NEW a \in Adapters,
           \/ AddLayer(a) \/ NewCanvas(a) \/ DeleteLayer(a) \/ EditLayer(a)
           \/ \E purpose \in {"start", "fit"} : StartTransform(a, purpose)
    PROVE  EachMeasured'
  <1>1. CASE AddLayer(a) \/ NewCanvas(a)
    <2>1. ASSUME NEW b \in Adapters, life'[b] = "alive", b # a
          PROVE  WaitsLocked(mutex'[b]) /\ Measured(content'[b], mutex'[b], rect'[b])
      <3>1. AddLayer(a)
        BY <1>1, <2>1 DEF NewCanvas
      <3>2. /\ life[b] = "alive" /\ mutex'[b] = mutex[b] /\ content'[b] = content[b]
            /\ rect'[b] = rect[b]
        BY <2>1, <3>1 DEF AddLayer, JInv, TypeOK
      <3> QED BY <3>2 DEF EachMeasured
    <2>2. content'[a].unrendered
      BY <1>1 DEF AddLayer, NewCanvas, NewObjects, JInv, TypeOK
    <2>3. mutex'[a] = FreeMutex
      BY <1>1 DEF AddLayer, NewCanvas, Stopped, JInv, NewIsIdle, Idle
    <2>4. WaitsLocked(mutex'[a]) /\ Measured(content'[a], mutex'[a], rect'[a])
      BY <2>2, <2>3 DEF Measured, WaitsLocked, FreeMutex
    <2> QED BY <2>1, <2>4 DEF EachMeasured, WaitsLocked, Measured, Asked
  <1>2. CASE DeleteLayer(a)
    <2>1. /\ life'[a] # "alive"
          /\ \A b \in Adapters \ {a} : life'[b] = life[b]
          /\ \A b \in Adapters \ {a} : /\ mutex'[b] = mutex[b] /\ content'[b] = content[b]
                                       /\ rect'[b] = rect[b]
      BY <1>2 DEF DeleteLayer, Stopped, JInv, TypeOK
    <2> QED BY <2>1, OneMeasured
  <1>3. CASE EditLayer(a)
    <2>1. /\ life' = life /\ content'[a].unrendered /\ UNCHANGED <<mutex, rect>>
          /\ \A b \in Adapters \ {a} : content'[b] = content[b]
      BY <1>3, LayerTypes DEF EditLayer, JInv, TypeOK, Content
    <2>2. life[a] = "alive" => WaitsLocked(mutex[a]) /\ Measured(content'[a], mutex[a], rect[a])
      BY <2>1 DEF EachMeasured, Measured
    <2> QED BY <2>1, <2>2, OneMeasured
  <1>4. ASSUME NEW purpose \in {"start", "fit"}, StartTransform(a, purpose)
        PROVE  EachMeasured'
    <2>1. /\ life[a] = "alive" /\ UNCHANGED <<life, content, rect>>
          /\ mutex' = [mutex EXCEPT ![a] = Acquired(mutex[a], purpose)]
      BY <1>4 DEF StartTransform
    <2>2. /\ mutex[a] \in Mutex /\ HeldOnce(a) /\ WaitsLocked(mutex[a])
          /\ Measured(content[a], mutex[a], rect[a]) /\ DOMAIN mutex = Adapters
      BY <2>1, LivingLayer
    <2>3. /\ WaitsLocked(Acquired(mutex[a], purpose))
          /\ Asked(mutex[a]) => Asked(Acquired(mutex[a], purpose))
      <3>1. mutex[a].locked \/ mutex[a].granted = "nobody"
        BY <2>2 DEF HeldOnce, One
      <3> QED BY <2>2, <3>1, AcquiredAsks DEF Purposes
    <2>4. WaitsLocked(mutex'[a]) /\ Measured(content'[a], mutex'[a], rect'[a])
      BY <2>1, <2>2, <2>3 DEF Measured
    <2> QED BY <2>1, <2>2, <2>4, OneMeasured
  <1> QED BY <1>1, <1>2, <1>3, <1>4

\* No change of a layer's objects goes unmeasured, whatever else asks for its
\* mutex, whenever the debounce ends and the worker answers.
THEOREM RectFreshAlways == Spec => []RectFresh
  <1>1. Init => EachMeasured
    BY DEF Init, EachMeasured
  <1>2. JInv /\ EachMeasured /\ [Next]_vars => EachMeasured'
    <2> SUFFICES ASSUME JInv, EachMeasured, [Next]_vars PROVE EachMeasured'
      OBVIOUS
    <2>1. CASE UNCHANGED vars
      BY <2>1 DEF vars, EachMeasured, Measured, WaitsLocked, Asked
    <2>2. CASE Next
      BY <2>2, GrantedMeasured, RectMeasured, TransformMeasured, LayerMeasured
         DEF Next, Continue, Answer, UseLayer
    <2> QED BY <2>1, <2>2
  <1>3. JInv /\ EachMeasured => RectFresh
    <2> SUFFICES ASSUME JInv, EachMeasured, NEW a \in Adapters,
                        life[a] = "alive", ~content[a].unrendered, ~mutex[a].locked
                 PROVE  rect[a].fresh
      BY DEF RectFresh
    <2>1. HeldOnce(a) /\ WaitsLocked(mutex[a]) /\ Measured(content[a], mutex[a], rect[a])
      BY LivingLayer
    <2>2. mutex[a].granted = "nobody" /\ rect[a].calc = "none" /\ mutex[a].waiting = <<>>
      BY <2>1 DEF HeldOnce, One, WaitsLocked
    <2>3. ~Asked(mutex[a])
      BY <2>2 DEF Asked
    <2> QED BY <2>1, <2>2, <2>3 DEF Measured
  <1> QED BY <1>1, <1>2, <1>3, InvAlways, PTL DEF Spec
=============================================================================
