\* One handle: a call and its cancellation, a subscription, close and loss.
SPECIFICATION FairSpec
CONSTANTS
  Calls = {c1}
  Closers = {k1}
  Subscribers = {s1}
  NoCall = NoCall
INVARIANTS
  TypeOK
  NothingSurvives
  AnswersAreTrue
PROPERTIES
  NeverReplayed
  ImplementsContract
  EverybodyIsServed
