------------------------------ MODULE MCPages ------------------------------
(***************************************************************************)
(* The pages of the browser, and the events of the broker they follow:     *)
(* parts that share no state, checked in one run.  A behaviour is one of a *)
(* single part, the scene, and the others stay as they begin, so that      *)
(* their states add up instead of multiplying.                             *)
(***************************************************************************)
EXTENDS StoreListing, InstalledApps, Reviews, Onboarding, Enrollment, MetricsStream, EventBroker

VARIABLE scene

pagesVars == <<scene, listingVars, tilesVars, reviewsVars, onboardingVars, enrollmentVars,
               metricsVars, vars>>

mcMatching == [x \in Text \union Choice |->
    CASE x = "net" -> {"a2"} [] x = "media" -> {"a1", "a3"} [] OTHER -> StoreApp]

PagesInit ==
    /\ scene \in {"listing", "tiles", "reviews", "onboarding", "enrollment", "metrics", "broker"}
    /\ ListingInit /\ TilesInit /\ ReviewsInit /\ OnboardingInit
    /\ EnrollmentInit /\ MetricsInit /\ Init
    /\ scene # "metrics" => \A i \in Interval : stream.interval <= i
    /\ scene # "reviews" => ~deployment.google /\ ~deployment.token

PagesNext ==
    /\ UNCHANGED scene
    /\ \/ /\ scene = "listing" /\ ListingNext
          /\ UNCHANGED <<tilesVars, reviewsVars, onboardingVars,
                         enrollmentVars, metricsVars, vars>>
       \/ /\ scene = "tiles" /\ TilesNext
          /\ UNCHANGED <<listingVars, reviewsVars, onboardingVars,
                         enrollmentVars, metricsVars, vars>>
       \/ /\ scene = "reviews" /\ ReviewsNext
          /\ UNCHANGED <<listingVars, tilesVars, onboardingVars,
                         enrollmentVars, metricsVars, vars>>
       \/ /\ scene = "onboarding" /\ OnboardingNext
          /\ UNCHANGED <<listingVars, tilesVars, reviewsVars,
                         enrollmentVars, metricsVars, vars>>
       \/ /\ scene = "enrollment" /\ EnrollmentNext
          /\ UNCHANGED <<listingVars, tilesVars, reviewsVars,
                         onboardingVars, metricsVars, vars>>
       \/ /\ scene = "metrics" /\ MetricsNext
          /\ UNCHANGED <<listingVars, tilesVars, reviewsVars,
                         onboardingVars, enrollmentVars, vars>>
       \/ /\ scene = "broker" /\ Next
          /\ UNCHANGED <<listingVars, tilesVars, reviewsVars,
                         onboardingVars, enrollmentVars, metricsVars>>

PagesSpec == PagesInit /\ [][PagesNext]_pagesVars

\* The type invariant of the part a behaviour is of; the broker's is TypeOK.
PagesTypeOK ==
    /\ scene = "listing" => ListingTypeOK
    /\ scene = "tiles" => TilesTypeOK
    /\ scene = "reviews" => ReviewsTypeOK
    /\ scene = "onboarding" => OnboardingTypeOK
    /\ scene = "enrollment" => EnrollmentTypeOK
    /\ scene = "metrics" => MetricsTypeOK
    /\ scene = "broker" => TypeOK

=============================================================================
